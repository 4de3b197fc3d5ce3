---------------------------- MODULE MpmcBagProofs ----------------------------
(* What becomes of a message in Mpmc, for any number of threads, slots and *)
(* messages: it is always in exactly one place, and the channel is a bag   *)
(* of N places.                                                            *)
EXTENDS MpmcProofs

(* The places of ExactlyOnce, without counting them. *)
Buffered(m) == \E t \in Threads : m \in batch[t]
Stored(m) == \E i \in Slots : bag[i] = m

Single(m) == /\ \A t, u \in Threads : m \in batch[t] /\ m \in batch[u] => t = u
             /\ \A i, j \in Slots : bag[i] = m /\ bag[j] = m => i = j

Placed(m) ==
  /\ Single(m)
  /\ \/ Buffered(m) \/ Stored(m)
     \/ m \in unsent \/ m \in received \/ m \in returned \/ m \in dropped
  /\ Buffered(m) => ~Stored(m) /\ m \notin unsent \cup received \cup returned \cup dropped
  /\ Stored(m) => m \notin unsent \cup received \cup returned \cup dropped
  /\ m \in unsent => m \notin received \cup returned \cup dropped
  /\ m \in received => m \notin returned \cup dropped
  /\ m \in returned => m \notin dropped

(* A receiver has read as many values as it has emptied slots. *)
Loads == \A r \in Receivers : Cardinality(batch[r]) = Cardinality(mine[r] \ work[r])

Placement == Loads /\ \A m \in Msgs : Placed(m)

LEMMA InitPlacement == Init => Placement
  <1>. SUFFICES ASSUME Init PROVE Placement
    OBVIOUS
  <1>1. ASSUME NEW m \in Msgs PROVE Placed(m)
    <2>1. m # Uninit
      BY MpmcAssumption DEF Msgs
    <2>. QED
      BY <2>1 DEF Init, Placed, Single, Buffered, Stored
  <1>2. \A r \in Receivers : batch[r] = {} /\ mine[r] = {} /\ work[r] = {}
    BY ThreadsFinite DEF Init
  <1>. QED
    BY <1>1, <1>2 DEF Placement, Loads

(* A step that touches no message leaves every one where it is. *)
LEMMA PlacesKept ==
  ASSUME NEW m, Placed(m), UNCHANGED <<batch, bag, unsent, received, returned, dropped>>
  PROVE  Placed(m)'
  BY DEF Placed, Single, Buffered, Stored

(* The messages of a batch that is handed on leave it, and no other. *)
LEMMA Emptied ==
  ASSUME TypeOK, NEW t \in Threads, batch' = [batch EXCEPT ![t] = {}], bag' = bag,
         NEW m, Single(m)
  PROVE  /\ Single(m)' /\ (Stored(m)' <=> Stored(m))
         /\ m \in batch[t] => Buffered(m) /\ ~Buffered(m)'
         /\ m \notin batch[t] => (Buffered(m)' <=> Buffered(m))
  <1>1. batch'[t] = {} /\ \A u \in Threads \ {t} : batch'[u] = batch[u]
    BY DEF TypeOK
  <1>. QED
    BY <1>1 DEF Single, Stored, Buffered

(* An Err hands the buffer back (mpmc.rs:183-185, 205 and 277-284).        *)
LEMMA RefusePlaces ==
  ASSUME TypeOK, NEW s \in Senders, Refuse(s), bag' = bag, NEW m, Placed(m)
  PROVE  Placed(m)'
  <1>1. /\ batch' = [batch EXCEPT ![s] = {}] /\ s \in Threads
        /\ returned' = returned \cup batch[s] /\ UNCHANGED <<unsent, received, dropped>>
    BY ThreadsFinite DEF Refuse, Leave
  <1>2. /\ Single(m)' /\ (Stored(m)' <=> Stored(m))
        /\ m \in batch[s] => Buffered(m) /\ ~Buffered(m)'
        /\ m \notin batch[s] => (Buffered(m)' <=> Buffered(m))
    BY <1>1, Emptied DEF Placed
  <1>. QED
    BY <1>1, <1>2 DEF Placed

(* Leaving a call with nothing in the buffer. *)
LEMMA LeaveNothing ==
  ASSUME TypeOK, NEW t \in Threads, batch[t] = {}, Leave(t)
  PROVE  batch' = batch
  BY DEF TypeOK, Leave

LEMMA SenderPlaces ==
  ASSUME Inv, phase = "open", NEW s \in Senders, SenderStep(s), NEW m \in Msgs, Placed(m)
  PROVE  Placed(m)'
  <1>0. /\ TypeOK /\ Duties /\ SlotsPartitioned /\ Contents /\ s \in Threads
        /\ s \notin Receivers /\ Duty(s) /\ m # Uninit
    BY ThreadsFinite, Sides, DutiesByThread, MpmcAssumption DEF Inv, MpmcInvariant, Msgs
  <1>1. CASE Reserve(s)
    <2>1. bag' = bag /\ (Refuse(s) \/ UNCHANGED <<batch, fates>>)
      BY <1>1 DEF Reserve
    <2>. QED
      BY <1>0, <2>1, RefusePlaces, PlacesKept DEF fates
  <1>2. CASE WriteSlot(s)
    <2>. DEFINE i == NextOf(work[s])
    <2>1. i \in work[s] /\ work[s] \in SUBSET Slots
      BY <1>0, <1>2, NextOfLeast DEF WriteSlot, Duty, TypeOK
    <2>. HIDE DEF i
    <2>2. bag[i] = Uninit
      <3>1. i \notin recv.slots /\ \A u \in Threads \ {s} : i \notin mine[u] /\ i \notin work[u]
        BY <1>0, <2>1, Owned
      <3>2. ~Filled(i)
        BY <1>0, <2>1, <3>1, ThreadsFinite DEF Filled
      <3>. QED
        BY <1>0, <2>1, <3>2 DEF Contents
    <2>3. PICK n \in Popped(batch[s], 1) :
            /\ bag' = [bag EXCEPT ![i] = n] /\ batch' = [batch EXCEPT ![s] = @ \ {n}]
            /\ UNCHANGED fates
      BY <1>2 DEF WriteSlot, i
    <2>4. /\ n \in batch[s] /\ bag'[i] = n /\ \A j \in Slots \ {i} : bag'[j] = bag[j]
          /\ batch'[s] = batch[s] \ {n} /\ \A u \in Threads \ {s} : batch'[u] = batch[u]
      BY <1>0, <2>1, <2>3 DEF Popped, TypeOK
    <2>5. CASE m = n
      <3>1. Buffered(m) /\ ~Buffered(m)' /\ Stored(m)' /\ Single(m)'
        BY <1>0, <2>1, <2>4, <2>5 DEF Placed, Single, Buffered, Stored
      <3>. QED
        BY <2>3, <3>1 DEF Placed, fates
    <2>6. CASE m # n
      <3>1. (Buffered(m)' <=> Buffered(m)) /\ (Stored(m)' <=> Stored(m)) /\ Single(m)'
        BY <1>0, <2>1, <2>2, <2>4, <2>6 DEF Placed, Single, Buffered, Stored
      <3>. QED
        BY <2>3, <3>1 DEF Placed, fates
    <2>. QED
      BY <2>5, <2>6
  <1>3. CASE Commit(s)
    <2>1. /\ batch' = [batch EXCEPT ![s] = {}] /\ bag' = bag
          /\ unsent' = unsent \cup batch[s] /\ UNCHANGED <<received, returned, dropped>>
      BY <1>3 DEF Commit, Leave
    <2>2. /\ Single(m)' /\ (Stored(m)' <=> Stored(m))
          /\ m \in batch[s] => Buffered(m) /\ ~Buffered(m)'
          /\ m \notin batch[s] => (Buffered(m)' <=> Buffered(m))
      BY <1>0, <2>1, Emptied DEF Placed
    <2>. QED
      BY <2>1, <2>2 DEF Placed
  <1>4. CASE SpinSend(s)
    <2>1. bag' = bag /\ (Refuse(s) \/ UNCHANGED <<batch, fates>>)
      BY <1>4 DEF SpinSend, Poll
    <2>. QED
      BY <1>0, <2>1, RefusePlaces, PlacesKept DEF fates
  <1>5. CASE UNCHANGED <<locals, bag, fates>>
    BY <1>5, PlacesKept DEF locals, fates
  <1>. QED
    BY <1>1, <1>2, <1>3, <1>4, <1>5
       DEF SenderStep, WakeReceiver, SleepSend, PassTorchSend, HangUpSenders, WakeAllReceivers,
           Abort, OnlyMoves

LEMMA ReceiverPlaces ==
  ASSUME Inv, phase = "open", NEW r \in Receivers, ReceiverStep(r), NEW m \in Msgs, Placed(m)
  PROVE  Placed(m)'
  <1>0. /\ TypeOK /\ Duties /\ SlotsPartitioned /\ Contents /\ r \in Threads
        /\ r \notin Senders /\ Duty(r) /\ m # Uninit
    BY ThreadsFinite, Sides, DutiesByThread, MpmcAssumption DEF Inv, MpmcInvariant, Msgs
  <1>1. CASE Claim(r)
    <2>1. batch[r] = {}
      BY <1>0, <1>1 DEF Claim, Duty
    <2>2. \/ Leave(r) /\ UNCHANGED <<bag, unsent, received, returned, dropped>>
          \/ UNCHANGED <<batch, bag, fates>>
      BY <1>1 DEF Claim, TellGone, locals, fates
    <2>. QED
      BY <1>0, <2>1, <2>2, LeaveNothing, PlacesKept DEF fates
  <1>2. CASE ReadSlot(r)
    <2>. DEFINE i == NextOf(work[r])
    <2>1. i \in work[r] /\ work[r] \in SUBSET Slots
      BY <1>0, <1>2, NextOfLeast DEF ReadSlot, Duty, TypeOK
    <2>. HIDE DEF i
    <2>2. bag[i] \in Msgs
      <3>1. Filled(i)
        BY <2>1 DEF Filled
      <3>. QED
        BY <1>0, <2>1, <3>1 DEF Contents, TypeOK
    <2>3. /\ bag' = [bag EXCEPT ![i] = Uninit] /\ batch' = [batch EXCEPT ![r] = @ \cup {bag[i]}]
          /\ UNCHANGED fates
      BY <1>2 DEF ReadSlot, i
    <2>4. /\ bag'[i] = Uninit /\ \A j \in Slots \ {i} : bag'[j] = bag[j]
          /\ batch'[r] = batch[r] \cup {bag[i]} /\ \A u \in Threads \ {r} : batch'[u] = batch[u]
      BY <1>0, <2>1, <2>3 DEF TypeOK
    <2>5. CASE m = bag[i]
      <3>1. Stored(m) /\ ~Stored(m)' /\ Buffered(m)' /\ Single(m)'
        BY <1>0, <2>1, <2>4, <2>5 DEF Placed, Single, Buffered, Stored
      <3>. QED
        BY <2>3, <3>1 DEF Placed, fates
    <2>6. CASE m # bag[i]
      <3>1. (Buffered(m)' <=> Buffered(m)) /\ (Stored(m)' <=> Stored(m)) /\ Single(m)'
        BY <1>0, <2>1, <2>2, <2>4, <2>6 DEF Placed, Single, Buffered, Stored
      <3>. QED
        BY <2>3, <3>1 DEF Placed, fates
    <2>. QED
      BY <2>5, <2>6
  <1>3. CASE FreeSlots(r)
    <2>1. /\ batch' = [batch EXCEPT ![r] = {}] /\ bag' = bag
          /\ received' = received \cup batch[r] /\ UNCHANGED <<unsent, returned, dropped>>
      BY <1>3 DEF FreeSlots, Leave
    <2>2. /\ Single(m)' /\ (Stored(m)' <=> Stored(m))
          /\ m \in batch[r] => Buffered(m) /\ ~Buffered(m)'
          /\ m \notin batch[r] => (Buffered(m)' <=> Buffered(m))
      BY <1>0, <2>1, Emptied DEF Placed
    <2>. QED
      BY <2>1, <2>2 DEF Placed
  <1>4. CASE SpinRecv(r)
    <2>1. batch[r] = {}
      BY <1>0, <1>4 DEF SpinRecv, Duty
    <2>2. \/ Leave(r) /\ UNCHANGED <<bag, unsent, received, returned, dropped>>
          \/ UNCHANGED <<batch, bag, fates>>
      BY <1>4 DEF SpinRecv, Poll, TellGone
    <2>. QED
      BY <1>0, <2>1, <2>2, LeaveNothing, PlacesKept DEF fates
  <1>5. CASE UNCHANGED <<locals, bag, fates>>
    BY <1>5, PlacesKept DEF locals, fates
  <1>. QED
    BY <1>1, <1>2, <1>3, <1>4, <1>5
       DEF ReceiverStep, WakeSender, SleepRecv, PassTorchRecv, HangUpReceivers, WakeAllSenders,
           Abort, OnlyMoves

LEMMA UserPlaces ==
  ASSUME Inv, UserStep, NEW m \in Msgs, Placed(m)
  PROVE  Placed(m)'
  <1>0. TypeOK /\ Duties
    BY DEF Inv, MpmcInvariant
  <1>1. ASSUME NEW s \in Senders, NEW k \in 1..MaxItems, NEW b \in BOOLEAN, CallSend(s, k, b)
        PROVE  Placed(m)'
    <2>. DEFINE B == Popped(UnsentBy(s), k)
    <2>1. s \in Threads /\ batch[s] = {} /\ B \subseteq unsent
      BY <1>0, <1>1, ThreadsFinite
         DEF CallSend, Duties, Offering, SendLocations, Popped, UnsentBy
    <2>2. /\ batch'[s] = B /\ \A u \in Threads \ {s} : batch'[u] = batch[u]
          /\ unsent' = unsent \ B /\ UNCHANGED <<bag, received, returned, dropped>>
      BY <1>0, <1>1, <2>1 DEF CallSend, TypeOK
    <2>. HIDE DEF B
    <2>3. CASE m \in B
      <3>1. ~Buffered(m) /\ Buffered(m)' /\ (Stored(m)' <=> Stored(m)) /\ Single(m)'
        BY <2>1, <2>2, <2>3 DEF Placed, Single, Buffered, Stored
      <3>. QED
        BY <2>1, <2>2, <2>3, <3>1 DEF Placed
    <2>4. CASE m \notin B
      <3>1. (Buffered(m)' <=> Buffered(m)) /\ (Stored(m)' <=> Stored(m)) /\ Single(m)'
        BY <2>1, <2>2, <2>4 DEF Placed, Single, Buffered, Stored
      <3>. QED
        BY <2>2, <2>4, <3>1 DEF Placed
    <2>. QED
      BY <2>3, <2>4
  <1>2. CASE UNCHANGED <<batch, bag, fates>>
    BY <1>2, PlacesKept DEF fates
  <1>. QED
    BY <1>1, <1>2
       DEF UserStep, CallRecv, CloneSender, CloneReceiver, DropSender, DropReceiver, Share, Unshare,
           OnlyMoves, locals

(* Inner::drop discards what is committed (mpmc.rs:70-88). *)
LEMMA TeardownPlaces ==
  ASSUME Inv, phase = "open", NEW k \in 1..N, Teardown(k), NEW m \in Msgs, Placed(m)
  PROVE  Placed(m)'
  <1>. DEFINE drained == Lowest(recv.slots, k)
  <1>1. /\ bag' = [i \in Slots |-> IF i \in drained THEN Uninit ELSE bag[i]]
        /\ dropped' = dropped \cup {bag[i] : i \in drained}
        /\ UNCHANGED <<batch, unsent, received, returned>>
    BY DEF Teardown, locals
  <1>2. drained \subseteq Slots /\ m # Uninit
    BY MpmcAssumption DEF Lowest, Inv, TypeOK, Word, Msgs
  <1>. HIDE DEF drained
  <1>3. Single(m)' /\ (Buffered(m)' <=> Buffered(m)) /\ (Stored(m)' => Stored(m))
    BY <1>1, <1>2 DEF Placed, Single, Buffered, Stored
  <1>4. CASE \E i \in drained : bag[i] = m
    <2>1. Stored(m) /\ ~Stored(m)' /\ m \in dropped'
      BY <1>1, <1>2, <1>4 DEF Placed, Single, Stored
    <2>. QED
      BY <1>1, <1>3, <2>1 DEF Placed
  <1>5. CASE ~\E i \in drained : bag[i] = m
    <2>1. (Stored(m)' <=> Stored(m)) /\ (m \in dropped' <=> m \in dropped)
      BY <1>1, <1>2, <1>5 DEF Stored
    <2>. QED
      BY <1>1, <1>3, <2>1 DEF Placed
  <1>. QED
    BY <1>4, <1>5

(* What a receiver has read grows with the slots it has emptied.           *)
LEMMA LoadsStep ==
  ASSUME Inv, Inv', Placement, [Next]_vars, NEW r \in Receivers
  PROVE  Cardinality(batch'[r]) = Cardinality(mine'[r] \ work'[r])
  <1>. DEFINE Same == batch'[r] = batch[r] /\ mine'[r] = mine[r] /\ work'[r] = work[r]
  <1>0. /\ TypeOK /\ Duties /\ SlotsPartitioned /\ Contents /\ Duty(r) /\ Duty(r)'
        /\ r \in Threads /\ r \notin Senders
        /\ Senders \subseteq Threads /\ Receivers \subseteq Threads
    BY ThreadsFinite, Sides, DutiesByThread, DutiesByThreadNext DEF Inv, MpmcInvariant
  <1>1. Same => Cardinality(batch'[r]) = Cardinality(mine'[r] \ work'[r])
    BY DEF Placement, Loads
  <1>2. ASSUME NEW s \in Senders, SenderStep(s) PROVE Same
    BY <1>0, <1>2
       DEF SenderStep, Reserve, WriteSlot, Commit, WakeReceiver, SpinSend, SleepSend, PassTorchSend,
           HangUpSenders, WakeAllReceivers, Abort, Refuse, Leave, Poll, OnlyMoves, locals, TypeOK
  <1>3. ASSUME NEW u \in Receivers \ {r}, ReceiverStep(u) PROVE Same
    BY <1>0, <1>3
       DEF ReceiverStep, Claim, ReadSlot, FreeSlots, WakeSender, SpinRecv, SleepRecv, PassTorchRecv,
           HangUpReceivers, WakeAllSenders, Abort, TellGone, Leave, Poll, OnlyMoves, locals, TypeOK
  <1>4. ASSUME pc'[r] \notin {"read", "free"}
        PROVE  Cardinality(batch'[r]) = Cardinality(mine'[r] \ work'[r])
    BY <1>0, <1>4, Sides DEF Duty, Busy, Inv, TypeOK, SendLocations
  <1>5. ASSUME phase = "open", Claim(r), pc'[r] \in {"read", "free"}
        PROVE  Cardinality(batch'[r]) = Cardinality(mine'[r] \ work'[r])
    <2>1. pc'[r] = "read" /\ batch' = batch /\ mine'[r] = recv.slots /\ work'[r] = recv.slots
      BY <1>0, <1>5 DEF Claim, TellGone, Goto, TypeOK
    <2>2. batch[r] = {}
      BY <1>0, <1>5 DEF Claim, Duty
    <2>. QED
      BY <2>1, <2>2
  <1>6. ASSUME phase = "open", ReadSlot(r)
        PROVE  Cardinality(batch'[r]) = Cardinality(mine'[r] \ work'[r])
    <2>. DEFINE i == NextOf(work[r])
                emptied == mine[r] \ work[r]
    <2>1. i \in work[r] /\ work[r] \in SUBSET Slots
      BY <1>0, <1>6, NextOfLeast DEF ReadSlot, Duty, TypeOK
    <2>2. /\ batch'[r] = batch[r] \cup {bag[i]} /\ mine'[r] = mine[r] /\ work'[r] = work[r] \ {i}
      BY <1>0, <1>6 DEF ReadSlot, TypeOK
    <2>. HIDE DEF i
    <2>3. mine'[r] \ work'[r] = emptied \cup {i} /\ i \notin emptied /\ emptied \in SUBSET Slots
      BY <1>0, <2>1, <2>2 DEF Duty, TypeOK
    <2>4. bag[i] \in Msgs
      <3>1. Filled(i) /\ phase # "freed"
        BY <1>6, <2>1 DEF Filled
      <3>. QED
        BY <1>0, <2>1, <3>1 DEF Contents, TypeOK
    <2>5. bag[i] \notin batch[r]
      BY <1>0, <2>1, <2>4 DEF Placement, Placed, Buffered, Stored
    <2>6. Cardinality(batch'[r]) = Cardinality(batch[r]) + 1
      <3>1. IsFiniteSet(batch[r])
        BY <1>0, MsgsFinite DEF TypeOK
      <3>. QED
        BY <2>2, <2>5, <3>1, FS_AddElement
    <2>7. Cardinality(emptied \cup {i}) = Cardinality(emptied) + 1
      BY <2>3, SlotSetsFinite, FS_AddElement
    <2>. QED
      BY <2>3, <2>6, <2>7 DEF Placement, Loads
  <1>7. ASSUME ReceiverStep(r), ~Claim(r), ~ReadSlot(r)
        PROVE  pc'[r] \notin {"read", "free"}
    <2>1. CASE WakeSender(r)
      BY <1>0, <2>1, WakeOneEffect DEF WakeSender, Locations
    <2>2. CASE WakeAllSenders(r)
      BY <1>0, <2>2 DEF WakeAllSenders, WakeAll, Asleep, TypeOK
    <2>3. CASE SleepRecv(r)
      BY <1>0, <2>3 DEF SleepRecv, Goto, TypeOK
    <2>. QED
      BY <1>0, <1>7, <2>1, <2>2, <2>3
         DEF ReceiverStep, FreeSlots, SpinRecv, PassTorchRecv, HangUpReceivers, Abort, TellGone,
             Poll, Goto, TypeOK
  <1>8. ASSUME UserStep PROVE Same
    BY <1>0, <1>8 DEF UserStep, CallSend, CallRecv, CloneSender, CloneReceiver, DropSender,
                      DropReceiver, Share, Unshare, OnlyMoves, locals, TypeOK
  <1>9. ASSUME \/ \E t \in Threads : Interrupt(t)
               \/ \E k \in 1..N : Teardown(k)
               \/ UNCHANGED vars
        PROVE  Same
    BY <1>9 DEF Interrupt, Teardown, OnlyMoves, vars, locals
  <1>. HIDE DEF Same
  <1>. QED
    BY <1>1, <1>2, <1>3, <1>4, <1>5, <1>6, <1>7, <1>8, <1>9 DEF Next, Finished

LEMMA PlacementStep ==
  ASSUME Inv, Inv', Placement, [Next]_vars
  PROVE  Placement'
  <1>1. ASSUME NEW m \in Msgs PROVE Placed(m)'
    <2>1. Placed(m)
      BY DEF Placement
    <2>2. CASE UNCHANGED vars \/ \E t \in Threads : Interrupt(t)
      BY <2>1, <2>2, PlacesKept DEF vars, Interrupt, OnlyMoves, locals, fates
    <2>. QED
      BY <2>1, <2>2, SenderPlaces, ReceiverPlaces, UserPlaces, TeardownPlaces DEF Next, Finished
  <1>2. Loads'
    BY LoadsStep DEF Loads
  <1>. QED
    BY <1>1, <1>2 DEF Placement

LEMMA PlacementInvariance == Spec => [](Inv /\ Placement)
  <1>1. Inv /\ Placement /\ [Next]_vars => (Inv /\ Placement)'
    BY InvStep, PlacementStep
  <1>. QED
    BY <1>1, InitInv, InitPlacement, PTL DEF Spec

(* Counting places of which at most one is taken. *)
LEMMA CountOne ==
  ASSUME NEW S, \A x, y \in S : x = y
  PROVE  Cardinality(S) = IF S = {} THEN 0 ELSE 1
  <1>1. CASE S = {}
    BY <1>1, FS_EmptySet
  <1>2. ASSUME NEW x \in S PROVE Cardinality(S) = 1
    <2>1. S = {x}
      BY <1>2
    <2>. QED
      BY <2>1, FS_Singleton
  <1>. QED
    BY <1>1, <1>2

LEMMA PlacementCounts == Inv /\ Placement => ExactlyOnce
  <1>. SUFFICES ASSUME Inv, Placement PROVE ExactlyOnce
    OBVIOUS
  <1>1. Uninit \notin received \cup dropped
    BY MpmcAssumption DEF Inv, TypeOK, Msgs
  <1>2. ASSUME NEW m \in Msgs
        PROVE  LET places == <<m \in unsent, m \in received, m \in returned, m \in dropped>>
               IN  Cardinality({t \in Threads : m \in batch[t]})
                     + Cardinality({i \in Slots : bag[i] = m})
                     + Cardinality({p \in DOMAIN places : places[p]}) = 1
    <2>. DEFINE places == <<m \in unsent, m \in received, m \in returned, m \in dropped>>
                fates1 == {p \in DOMAIN places : places[p]}
    <2>0. Placed(m)
      BY DEF Placement
    <2>1. Cardinality({t \in Threads : m \in batch[t]}) = IF Buffered(m) THEN 1 ELSE 0
      BY <2>0, CountOne DEF Placed, Single, Buffered
    <2>2. Cardinality({i \in Slots : bag[i] = m}) = IF Stored(m) THEN 1 ELSE 0
      BY <2>0, CountOne DEF Placed, Single, Stored
    <2>3. DOMAIN places = 1..4
      OBVIOUS
    <2>4. /\ places[1] <=> m \in unsent
          /\ places[2] <=> m \in received
          /\ places[3] <=> m \in returned
          /\ places[4] <=> m \in dropped
      OBVIOUS
    <2>. HIDE DEF places
    <2>5. \A p, q \in fates1 : p = q
      BY <2>0, <2>3, <2>4 DEF Placed
    <2>6. fates1 # {} <=> m \in unsent \/ m \in received \/ m \in returned \/ m \in dropped
      BY <2>3, <2>4
    <2>7. Cardinality(fates1)
            = IF m \in unsent \/ m \in received \/ m \in returned \/ m \in dropped THEN 1 ELSE 0
      BY <2>5, <2>6, CountOne
    <2>8. \/ Buffered(m) /\ ~Stored(m) /\ fates1 = {}
          \/ ~Buffered(m) /\ Stored(m) /\ fates1 = {}
          \/ ~Buffered(m) /\ ~Stored(m) /\ fates1 # {}
      BY <2>0, <2>6 DEF Placed
    <2>9. Cardinality({t \in Threads : m \in batch[t]}) + Cardinality({i \in Slots : bag[i] = m})
            + Cardinality(fates1) = 1
      <3>. HIDE DEF fates1
      <3>. QED
        BY <2>1, <2>2, <2>6, <2>7, <2>8
    <2>. QED
      BY <2>9, Zenon DEF places
  <1>. QED
    BY <1>1, <1>2, Zenon DEF ExactlyOnce

(* Every message is with its sender, in the buffer of a call, in the bag,  *)
(* received, handed back or dropped, and never at two of these places,     *)
(* though reserving, committing, claiming and freeing act on many slots at *)
(* once (mpmc.rs:70-88, 176-324 and 439-484).                              *)
THEOREM MessagesExactlyOnce == Spec => []ExactlyOnce
  BY PlacementInvariance, PlacementCounts, PTL
-----------------------------------------------------------------------------
(* The instance of Bag counts with the same Cardinality. *)
LEMMA ChannelCardinality ==
  ASSUME NEW S
  PROVE  Channel!Cardinality(S) = Cardinality(S)
  BY Zenon DEF Channel!Cardinality, Cardinality

LEMMA DisjointCount ==
  ASSUME NEW S, IsFiniteSet(S), NEW T, IsFiniteSet(T), S \cap T = {}
  PROVE  IsFiniteSet(S \cup T) /\ Cardinality(S \cup T) = Cardinality(S) + Cardinality(T)
  BY FS_Union, FS_EmptySet, FS_CardinalityType

Merged(I, A) == UNION {A[i] : i \in I}

(* Disjoint families of sets of the same sizes have unions of one size.    *)
LEMMA UnionCount ==
  ASSUME NEW I, NEW A, NEW B,
         \A i \in I : /\ IsFiniteSet(A[i]) /\ IsFiniteSet(B[i])
                      /\ Cardinality(A[i]) = Cardinality(B[i]),
         \A i, j \in I : i # j => A[i] \cap A[j] = {} /\ B[i] \cap B[j] = {},
         IsFiniteSet(Merged(I, A))
  PROVE  IsFiniteSet(Merged(I, B)) /\ Cardinality(Merged(I, B)) = Cardinality(Merged(I, A))
  <1>. USE DEF Merged
  <1>. DEFINE allA == Merged(I, A)
              allB == Merged(I, B)
              pick == [i \in I |-> CHOOSE f : f \in Bijection(A[i], B[i])]
              owner == [x \in allA |-> CHOOSE i \in I : x \in A[i]]
              F == [x \in allA |-> pick[owner[x]][x]]
  <1>1. ASSUME NEW i \in I PROVE pick[i] \in Bijection(A[i], B[i])
    <2>1. \E f : f \in Bijection(A[i], B[i])
      BY FS_SameCardinalityBij, Fun_ExistsBij
    <2>. QED
      BY <2>1
  <1>2. ASSUME NEW i \in I
        PROVE  /\ \A x \in A[i] : pick[i][x] \in B[i]
               /\ \A x, y \in A[i] : pick[i][x] = pick[i][y] => x = y
               /\ \A z \in B[i] : \E x \in A[i] : pick[i][x] = z
    <2>. HIDE DEF pick
    <2>. QED
      BY <1>1, Fun_BijectionProperties
  <1>3. /\ \A x \in allA : owner[x] \in I /\ x \in A[owner[x]]
        /\ \A i \in I : \A x \in A[i] : x \in allA /\ owner[x] = i
    OBVIOUS
  <1>4. \A i \in I : \A z \in B[i] : z \in allB
    OBVIOUS
  <1>5. \A z \in allB : \E i \in I : z \in B[i]
    OBVIOUS
  <1>6. \A x \in allA : F[x] = pick[owner[x]][x]
    OBVIOUS
  <1>7. F = [x \in allA |-> F[x]]
    OBVIOUS
  <1>. HIDE DEF pick, owner, F, allA, allB
  <1>8. F \in [allA -> allB]
    BY <1>2, <1>3, <1>4, <1>6, <1>7
  <1>9. ASSUME NEW x \in allA, NEW y \in allA, F[x] = F[y] PROVE x = y
    <2>1. F[x] \in B[owner[x]] /\ F[x] \in B[owner[y]]
      BY <1>2, <1>3, <1>6, <1>9
    <2>2. owner[x] = owner[y]
      BY <1>3, <2>1
    <2>. QED
      BY <1>2, <1>3, <1>6, <1>9, <2>2
  <1>10. \A z \in allB : \E x \in allA : F[x] = z
    BY <1>2, <1>3, <1>5, <1>6
  <1>11. ExistsBijection(allA, allB)
    BY <1>8, <1>9, <1>10, Fun_IsBij, Fun_ExistsBij
  <1>12. IsFiniteSet(allA)
    BY DEF allA
  <1>13. IsFiniteSet(allB) /\ Cardinality(allB) = Cardinality(allA)
    BY <1>11, <1>12, FS_Bijection
  <1>. QED
    BY <1>13 DEF allA, allB

(* A Vec pops nothing, and pops its last item first. *)
LEMMA PopNone ==
  ASSUME NEW D \in SUBSET Msgs
  PROVE  Popped(D, 0) = {}
  <1>1. \A m \in D : Cardinality({n \in D : n[2] > m[2]}) \in Nat
    BY MsgsFinite
  <1>. QED
    BY <1>1 DEF Popped

LEMMA PopOne ==
  ASSUME NEW D \in SUBSET Msgs, NEW s, \A m \in D : m[1] = s, NEW k \in Nat,
         NEW top \in Popped(D, 1)
  PROVE  Popped(D, k + 1) = {top} \cup Popped(D \ {top}, k)
  <1>. DEFINE above(E, m) == {n \in E : n[2] > m[2]}
  <1>1. /\ top \in D /\ Cardinality(above(D, top)) < 1
        /\ \A m, n \in D : m[2] \in Nat /\ (m[2] = n[2] => m = n)
    BY MpmcAssumption DEF Popped, Msgs
  <1>2. above(D, top) = {}
    BY <1>1, MsgsFinite
  <1>3. ASSUME NEW n \in D \ {top}
        PROVE  Cardinality(above(D, n)) = Cardinality(above(D \ {top}, n)) + 1
    <2>1. above(D, n) = above(D \ {top}, n) \cup {top} /\ top \notin above(D \ {top}, n)
      BY <1>1, <1>2
    <2>2. IsFiniteSet(above(D \ {top}, n))
      BY MsgsFinite
    <2>. HIDE DEF above
    <2>. QED
      BY <2>1, <2>2, FS_AddElement
  <1>4. \A n \in D \ {top} : Cardinality(above(D \ {top}, n)) \in Nat
    BY MsgsFinite
  <1>5. Cardinality(above(D, top)) = 0
    BY <1>2, FS_EmptySet
  <1>6. /\ Popped(D, k + 1) = {n \in D : Cardinality(above(D, n)) < k + 1}
        /\ Popped(D \ {top}, k) = {n \in D \ {top} : Cardinality(above(D \ {top}, n)) < k}
    BY DEF Popped
  <1>. HIDE DEF above
  <1>7. ASSUME NEW n \in D \ {top}
        PROVE  n \in Popped(D, k + 1) <=> n \in Popped(D \ {top}, k)
    <2>1. \A c \in Nat : c + 1 < k + 1 <=> c < k
      OBVIOUS
    <2>2. Cardinality(above(D, n)) < k + 1 <=> Cardinality(above(D \ {top}, n)) < k
      BY <1>3, <1>4, <2>1
    <2>. QED
      BY <1>6, <2>2
  <1>8. top \in Popped(D, k + 1)
    BY <1>1, <1>5, <1>6
  <1>. QED
    BY <1>1, <1>6, <1>7, <1>8

(* Slots that own a value hold as many messages. *)
LEMMA StoredCount ==
  ASSUME Inv, Placement, phase = "open", NEW S \in SUBSET Slots, \A i \in S : Filled(i)
  PROVE  /\ {bag[i] : i \in S} \in SUBSET Msgs
         /\ Cardinality({bag[i] : i \in S}) = Cardinality(S)
  <1>. DEFINE T == {bag[i] : i \in S}
              F == [i \in S |-> bag[i]]
  <1>1. \A i \in S : bag[i] \in Msgs
    BY DEF Inv, MpmcInvariant, Contents, TypeOK
  <1>2. \A i, j \in S : bag[i] = bag[j] => i = j
    BY <1>1 DEF Placement, Placed, Single
  <1>3. /\ F \in [S -> T] /\ \A t \in T : \E i \in S : F[i] = t
        /\ \A i, j \in S : F[i] = F[j] => i = j
    BY <1>2
  <1>. HIDE DEF F
  <1>4. ExistsBijection(S, T)
    BY <1>3, Fun_IsBij, Fun_ExistsBij
  <1>. QED
    BY <1>1, <1>4, SlotSetsFinite, FS_Bijection

(* A message of a thread's is in its buffer or in one of its slots.        *)
LEMMA OutgoingOf ==
  ASSUME Inv, Placement, phase = "open", NEW s \in Senders
  PROVE  /\ Outgoing(s) \in SUBSET Msgs
         /\ Cardinality(Outgoing(s)) = Cardinality(mine[s])
         /\ work[s] = {} => Outgoing(s) = {bag[i] : i \in mine[s]}
         /\ \A m \in Outgoing(s) : \/ m \in batch[s] /\ work[s] # {}
                                   \/ \E i \in mine[s] \ work[s] : m = bag[i]
  <1>. DEFINE written == mine[s] \ work[s]
              values == {bag[i] : i \in written}
              k == Cardinality(work[s])
              rest == Popped(batch[s], k)
  <1>0. /\ Duty(s) /\ s \in Threads /\ mine[s] \in SUBSET Slots /\ work[s] \in SUBSET Slots
        /\ batch[s] \in SUBSET Msgs /\ work[s] \subseteq mine[s]
    BY ThreadsFinite, DutiesByThread DEF Inv, MpmcInvariant, TypeOK, Duty
  <1>1. values \in SUBSET Msgs /\ Cardinality(values) = Cardinality(written)
    <2>1. \A i \in written : Filled(i)
      BY DEF Filled
    <2>. QED
      BY <1>0, <2>1, StoredCount
  <1>2. k \in Nat /\ (work[s] = {} <=> k = 0) /\ IsFiniteSet(work[s]) /\ IsFiniteSet(written)
    BY <1>0, SlotSetsFinite
  <1>3. rest \in SUBSET batch[s] /\ Cardinality(rest) = k /\ (work[s] = {} => rest = {})
    <2>1. CASE work[s] = {}
      BY <1>0, <1>2, <2>1, PopNone, FS_EmptySet
    <2>2. CASE work[s] # {}
      <3>1. pc[s] = "write" /\ Cardinality(batch[s]) \in Nat /\ k <= Cardinality(batch[s])
        BY <1>0, <2>2, Sides, MsgsFinite DEF Duty, Inv, TypeOK, RecvLocations
      <3>2. \A m \in batch[s] : m[1] = s
        BY <1>0 DEF Duty
      <3>. HIDE DEF k
      <3>. QED
        BY <1>0, <1>2, <2>2, <3>1, <3>2, PoppedCount
    <2>. QED
      BY <2>1, <2>2
  <1>4. Outgoing(s) = values \cup rest
    BY DEF Outgoing
  <1>5. values \cap rest = {}
    <2>1. ASSUME NEW i \in written, bag[i] \in batch[s] PROVE FALSE
      <3>1. bag[i] \in Msgs /\ Stored(bag[i]) /\ Buffered(bag[i])
        BY <1>0, <1>1, <2>1 DEF Stored, Buffered
      <3>. QED
        BY <3>1 DEF Placement, Placed
    <2>. HIDE DEF rest
    <2>. QED
      BY <1>3, <2>1
  <1>6. Cardinality(mine[s]) = Cardinality(written) + Cardinality(work[s])
    <2>1. mine[s] = written \cup work[s] /\ written \cap work[s] = {}
      BY <1>0
    <2>. QED
      BY <1>2, <2>1, DisjointCount
  <1>7. Cardinality(values \cup rest) = Cardinality(values) + Cardinality(rest)
    <2>1. IsFiniteSet(values) /\ IsFiniteSet(rest)
      BY <1>0, <1>1, <1>3, MsgsFinite
    <2>. QED
      BY <1>5, <2>1, DisjointCount
  <1>8. Cardinality(Outgoing(s)) = Cardinality(mine[s])
    BY <1>1, <1>2, <1>3, <1>4, <1>6, <1>7
  <1>9. work[s] = {} => written = mine[s]
    OBVIOUS
  <1>. HIDE DEF rest
  <1>. QED
    BY <1>0, <1>1, <1>3, <1>4, <1>8, <1>9

LEMMA IncomingOf ==
  ASSUME Inv, Placement, phase = "open", NEW r \in Receivers
  PROVE  /\ Incoming(r) \in SUBSET Msgs
         /\ Cardinality(Incoming(r)) = Cardinality(mine[r])
         /\ \A m \in Incoming(r) : m \in batch[r] \/ \E i \in work[r] : m = bag[i]
  <1>. DEFINE values == {bag[i] : i \in work[r]}
              emptied == mine[r] \ work[r]
  <1>0. /\ Duty(r) /\ r \in Threads /\ mine[r] \in SUBSET Slots /\ work[r] \in SUBSET Slots
        /\ batch[r] \in SUBSET Msgs /\ work[r] \subseteq mine[r]
    BY ThreadsFinite, DutiesByThread DEF Inv, MpmcInvariant, TypeOK, Duty
  <1>1. values \in SUBSET Msgs /\ Cardinality(values) = Cardinality(work[r])
    <2>1. \A i \in work[r] : Filled(i)
      BY DEF Filled
    <2>. QED
      BY <1>0, <2>1, StoredCount
  <1>2. batch[r] \cap values = {}
    <2>1. ASSUME NEW i \in work[r], bag[i] \in batch[r] PROVE FALSE
      <3>1. bag[i] \in Msgs /\ Stored(bag[i]) /\ Buffered(bag[i])
        BY <1>0, <1>1, <2>1 DEF Stored, Buffered
      <3>. QED
        BY <3>1 DEF Placement, Placed
    <2>. QED
      BY <2>1
  <1>3. Cardinality(mine[r]) = Cardinality(emptied) + Cardinality(work[r])
    <2>1. mine[r] = emptied \cup work[r] /\ emptied \cap work[r] = {}
      BY <1>0
    <2>2. IsFiniteSet(emptied) /\ IsFiniteSet(work[r])
      BY <1>0, SlotSetsFinite
    <2>. QED
      BY <2>1, <2>2, DisjointCount
  <1>4. Cardinality(batch[r] \cup values) = Cardinality(batch[r]) + Cardinality(values)
    <2>1. IsFiniteSet(values) /\ IsFiniteSet(batch[r])
      BY <1>0, <1>1, MsgsFinite
    <2>. QED
      BY <1>2, <2>1, DisjointCount
  <1>5. Cardinality(batch[r]) = Cardinality(emptied)
    BY DEF Placement, Loads
  <1>6. Incoming(r) = batch[r] \cup values
    BY DEF Incoming
  <1>. QED
    BY <1>0, <1>1, <1>3, <1>4, <1>5, <1>6

(* The messages in the bag by the owners of their places. *)
Goods == [t \in Threads |-> IF t \in Senders THEN Outgoing(t) ELSE Incoming(t)]

LEMMA InTheBag ==
  ASSUME Inv, Placement, phase = "open"
  PROVE  /\ Held \cup Leaving = Committed \cup UNION {Goods[t] : t \in Threads}
         /\ Committed = {bag[i] : i \in recv.slots}
         /\ Committed \in SUBSET Msgs /\ Held \in SUBSET Msgs /\ Leaving \in SUBSET Msgs
         /\ Cardinality(Committed) = Cardinality(recv.slots)
         /\ \A t \in Threads :
              /\ Goods[t] \in SUBSET Msgs
              /\ Cardinality(Goods[t]) = Cardinality(mine[t])
              /\ \A m \in Goods[t] : \/ m \in batch[t] /\ mine[t] # {}
                                     \/ \E i \in mine[t] : m = bag[i]
  <1>0. recv.slots \in SUBSET Slots /\ Duties
    BY DEF Inv, MpmcInvariant, TypeOK, Word
  <1>1. /\ {bag[i] : i \in recv.slots} \in SUBSET Msgs
        /\ Cardinality({bag[i] : i \in recv.slots}) = Cardinality(recv.slots)
    <2>1. \A i \in recv.slots : Filled(i)
      BY DEF Filled
    <2>. QED
      BY <1>0, <2>1, StoredCount
  <1>2. Committed = {bag[i] : i \in recv.slots}
    <2>1. Uninit \notin {bag[i] : i \in recv.slots}
      BY <1>1, MpmcAssumption DEF Msgs
    <2>. QED
      BY <2>1 DEF Committed
  <1>3. ASSUME NEW t \in Threads
        PROVE  /\ Goods[t] \in SUBSET Msgs
               /\ Cardinality(Goods[t]) = Cardinality(mine[t])
               /\ \A m \in Goods[t] : \/ m \in batch[t] /\ mine[t] # {}
                                      \/ \E i \in mine[t] : m = bag[i]
    <2>1. CASE t \in Senders
      BY <1>0, <2>1, OutgoingOf DEF Goods, Duties
    <2>2. CASE t \in Receivers /\ t \notin Senders
      <3>1. Goods[t] = Incoming(t)
        BY <2>2 DEF Goods
      <3>2. batch[t] # {} => mine[t] # {}
        BY <1>0, <2>2 DEF Duties, Busy
      <3>. QED
        BY <1>0, <2>2, <3>1, <3>2, IncomingOf DEF Duties
    <2>. QED
      BY <2>1, <2>2 DEF Threads
  <1>4. /\ \A s \in Senders : Goods[s] = Outgoing(s)
        /\ \A r \in Receivers : Goods[r] = Incoming(r)
    BY ThreadsFinite, Sides DEF Goods
  <1>5. Held = Committed \cup UNION {Goods[s] : s \in Senders}
    BY <1>4 DEF Held
  <1>6. Leaving = UNION {Goods[r] : r \in Receivers}
    BY <1>4 DEF Leaving
  <1>7. Held \cup Leaving = Committed \cup UNION {Goods[t] : t \in Threads}
    BY <1>5, <1>6 DEF Threads
  <1>8. Held \in SUBSET Msgs /\ Leaving \in SUBSET Msgs
    BY <1>1, <1>2, <1>3, <1>5, <1>6, ThreadsFinite
  <1>. QED
    BY <1>1, <1>2, <1>3, <1>7, <1>8

(* What different threads have in their hands differs, and none of it is   *)
(* committed.                                                              *)
LEMMA GoodsApart ==
  ASSUME Inv, Placement, phase = "open"
  PROVE  /\ \A t, u \in Threads : t # u => Goods[t] \cap Goods[u] = {}
         /\ \A t \in Threads : Committed \cap Goods[t] = {}
  <1>0. /\ TypeOK /\ SlotsPartitioned /\ recv.slots \in SUBSET Slots
        /\ \A t \in Threads : mine[t] \in SUBSET Slots
    BY DEF Inv, MpmcInvariant, TypeOK, Word
  <1>1. ASSUME NEW t \in Threads, NEW m \in Goods[t]
        PROVE  /\ m \in Msgs /\ Placed(m)
               /\ \/ m \in batch[t] /\ Buffered(m)
                  \/ Stored(m) /\ \E i \in mine[t] : i \in Slots /\ m = bag[i]
    BY <1>0, <1>1, InTheBag DEF Placement, Buffered, Stored
  <1>2. ASSUME NEW t \in Threads, NEW u \in Threads, t # u,
               NEW m, m \in Goods[t], m \in Goods[u]
        PROVE  FALSE
    <2>1. mine[t] \cap mine[u] = {}
      BY <1>0, <1>2 DEF SlotsPartitioned
    <2>. QED
      BY <1>1, <1>2, <2>1 DEF Placed, Single
  <1>3. ASSUME NEW t \in Threads, NEW m, m \in Goods[t], NEW j \in recv.slots, m = bag[j]
        PROVE  FALSE
    <2>1. j \in Slots /\ j \notin mine[t]
      BY <1>0 DEF SlotsPartitioned
    <2>. QED
      BY <1>1, <1>3, <2>1 DEF Placed, Single, Stored
  <1>4. Committed = {bag[i] : i \in recv.slots}
    BY InTheBag
  <1>. QED
    BY <1>2, <1>3, <1>4

(* The places that are taken are the reserved slots. *)
LEMMA OccupiedCount ==
  ASSUME Inv, Placement, phase = "open", ~Dead(send)
  PROVE  Channel!Occupied = Cardinality(send.slots)
  <1>. DEFINE goods == Merged(Threads, Goods)
              taken == Merged(Threads, mine)
  <1>0. /\ TypeOK /\ SlotsPartitioned /\ recv.slots \in SUBSET Slots
        /\ \A t \in Threads : mine[t] \in SUBSET Slots
    BY DEF Inv, MpmcInvariant, TypeOK, Word
  <1>1. /\ Held \cup Leaving = Committed \cup goods
        /\ Committed \in SUBSET Msgs /\ Cardinality(Committed) = Cardinality(recv.slots)
        /\ \A t \in Threads : /\ Goods[t] \in SUBSET Msgs
                             /\ Cardinality(Goods[t]) = Cardinality(mine[t])
    BY InTheBag DEF Merged
  <1>2. send.slots = recv.slots \cup taken /\ recv.slots \cap taken = {}
    BY <1>0 DEF SlotsPartitioned, Merged
  <1>3. \A t, u \in Threads : t # u => mine[t] \cap mine[u] = {} /\ Goods[t] \cap Goods[u] = {}
    BY <1>0, GoodsApart DEF SlotsPartitioned
  <1>4. Committed \cap goods = {}
    BY GoodsApart DEF Merged
  <1>5. IsFiniteSet(taken) /\ IsFiniteSet(recv.slots)
    BY <1>0, SlotSetsFinite DEF Merged
  <1>6. IsFiniteSet(goods) /\ Cardinality(goods) = Cardinality(taken)
    <2>1. \A t \in Threads : /\ IsFiniteSet(mine[t]) /\ IsFiniteSet(Goods[t])
                             /\ Cardinality(mine[t]) = Cardinality(Goods[t])
      BY <1>0, <1>1, SlotSetsFinite, MsgsFinite
    <2>. QED
      BY <1>3, <1>5, <2>1, UnionCount
  <1>7. IsFiniteSet(Committed)
    BY <1>1, MsgsFinite
  <1>. HIDE DEF goods, taken
  <1>8. Cardinality(Committed \cup goods) = Cardinality(Committed) + Cardinality(goods)
    BY <1>4, <1>6, <1>7, DisjointCount
  <1>9. Cardinality(send.slots) = Cardinality(recv.slots) + Cardinality(taken)
    BY <1>2, <1>5, DisjointCount
  <1>. QED
    BY <1>1, <1>6, <1>8, <1>9, ChannelCardinality DEF Channel!Occupied

(* What a sender still offers is not in the bag yet. *)
LEMMA FreshOffer ==
  ASSUME Inv, Placement, phase = "open", NEW s \in Senders, mine[s] = {},
         NEW S \in SUBSET batch[s]
  PROVE  S \in SUBSET Msgs /\ S \subseteq Channel!Fresh
  <1>0. /\ s \in Threads /\ batch[s] \in SUBSET Msgs /\ recv.slots \in SUBSET Slots
        /\ \A t \in Threads : mine[t] \in SUBSET Slots
    BY ThreadsFinite DEF Inv, TypeOK, Word
  <1>1. ASSUME NEW m \in S
        PROVE  m \in Msgs /\ m \notin Held \cup Leaving \cup received \cup returned \cup dropped
    <2>1. m \in Msgs /\ Placed(m) /\ Buffered(m) /\ ~Stored(m)
      BY <1>0 DEF Placement, Placed, Buffered
    <2>2. m \notin Committed
      BY <1>0, <2>1, InTheBag DEF Stored
    <2>3. ASSUME NEW t \in Threads, m \in Goods[t] PROVE FALSE
      <3>1. m \in batch[t] /\ mine[t] # {}
        BY <1>0, <2>1, <2>3, InTheBag DEF Stored
      <3>. QED
        BY <1>0, <2>1, <3>1 DEF Placed, Single
    <2>. QED
      BY <2>1, <2>2, <2>3, InTheBag DEF Placed
  <1>. QED
    BY <1>0, <1>1 DEF Channel!Fresh

(* A step that touches neither slots nor what their owners have in their   *)
(* buffers leaves the bag as it is.                                        *)
LEMMA BagKept ==
  ASSUME TypeOK, TypeOK', UNCHANGED <<bag, mine, work>>, recv'.slots = recv.slots,
         \A s \in Senders : work[s] = {} \/ batch'[s] = batch[s],
         \A r \in Receivers : batch'[r] = batch[r]
  PROVE  Held' = Held /\ Leaving' = Leaving
  <1>1. Committed' = Committed
    BY DEF Committed
  <1>2. ASSUME NEW s \in Senders PROVE Outgoing(s)' = Outgoing(s)
    <2>1. CASE batch'[s] = batch[s]
      BY <2>1 DEF Outgoing, Popped
    <2>2. CASE work[s] = {}
      <3>1. batch[s] \in SUBSET Msgs /\ batch'[s] \in SUBSET Msgs
        BY ThreadsFinite DEF TypeOK
      <3>2. Popped(batch[s], 0) = {} /\ Popped(batch'[s], 0) = {}
        BY <3>1, PopNone
      <3>. QED
        BY <2>2, <3>2, FS_EmptySet DEF Outgoing
    <2>. QED
      BY <2>1, <2>2
  <1>3. \A r \in Receivers : Incoming(r)' = Incoming(r)
    BY DEF Incoming
  <1>. QED
    BY <1>1, <1>2, <1>3 DEF Held, Leaving

BagStep == Channel!Next \/ UNCHANGED Channel!vars

LEMMA Stutter ==
  ASSUME Held' = Held, Leaving' = Leaving, UNCHANGED <<received, returned, dropped, told>>,
         Dead(recv)' <=> Dead(recv), Dead(send)' <=> Dead(send)
  PROVE  BagStep
  BY DEF BagStep, Channel!vars, Channel!gone, Dead

LEMMA Moves ==
  \A S \in SUBSET Msgs :
    \/ Channel!Accept(S) \/ Channel!Refuse(S) \/ Channel!Claim(S)
    \/ Channel!Deliver(S) \/ Channel!Discard(S)
    => BagStep
  BY DEF BagStep, Channel!Next

LEMMA BagInit == Init => Channel!Init
  <1>. SUFFICES ASSUME Init PROVE Channel!Init
    OBVIOUS
  <1>1. Committed = {}
    BY DEF Init, Committed
  <1>2. \A s \in Senders : Outgoing(s) = {}
    BY ThreadsFinite DEF Init, Outgoing, Popped
  <1>3. \A r \in Receivers : Incoming(r) = {}
    BY ThreadsFinite DEF Init, Incoming
  <1>. QED
    BY <1>1, <1>2, <1>3 DEF Init, Held, Leaving, Dead, Channel!Init

(* An Err hands back what the sender offers, because the bag is full or    *)
(* the receivers are gone (mpmc.rs:277-284).                               *)
LEMMA RefuseBag ==
  ASSUME Inv, Inv', Placement, phase = "open", NEW s \in Senders, pc[s] \in {"reserve", "spin"},
         Refuse(s), UNCHANGED <<bag, recv>>, Dead(send)' <=> Dead(send),
         Dead(send) \/ send.slots = Slots
  PROVE  BagStep
  <1>0. /\ TypeOK /\ TypeOK' /\ s \in Threads /\ s \notin Receivers /\ Duty(s)
        /\ batch[s] \in SUBSET Msgs
    BY ThreadsFinite, Sides, DutiesByThread DEF Inv, MpmcInvariant, TypeOK
  <1>1. mine[s] = {} /\ work[s] = {} /\ ~Dead(recv)
    BY <1>0 DEF Duty, Busy, Inv, MpmcInvariant, HandlesInv, Announced, GoneOnlyIf
  <1>2. UNCHANGED <<mine, work>>
    BY <1>0, <1>1, LeaveEmpty DEF Refuse
  <1>3. /\ \A u \in Threads \ {s} : batch'[u] = batch[u]
        /\ returned' = returned \cup batch[s] /\ UNCHANGED <<received, dropped, told>>
    BY <1>0 DEF Refuse, Leave, TypeOK
  <1>4. Held' = Held /\ Leaving' = Leaving
    BY <1>0, <1>1, <1>2, <1>3, BagKept, ThreadsFinite
  <1>5. batch[s] \in SUBSET Msgs /\ batch[s] \subseteq Channel!Fresh
    BY <1>1, FreshOffer
  <1>6. Dead(send) \/ Channel!Occupied = N
    BY OccupiedCount, SlotsFinite
  <1>7. Channel!Refuse(batch[s])
    BY <1>1, <1>3, <1>4, <1>5, <1>6 DEF Channel!Refuse, Channel!gone, Dead
  <1>. QED
    BY <1>5, <1>7, Moves

LEMMA SenderBag ==
  ASSUME Inv, Inv', Placement, phase = "open", NEW s \in Senders, SenderStep(s)
  PROVE  BagStep
  <1>0. /\ TypeOK /\ TypeOK' /\ Duties /\ SlotsPartitioned /\ Contents
        /\ s \in Threads /\ s \notin Receivers /\ Duty(s) /\ send \in Word /\ recv \in Word
        /\ Senders \subseteq Threads /\ Receivers \subseteq Threads
        /\ batch[s] \in SUBSET Msgs /\ mine[s] \in SUBSET Slots /\ work[s] \in SUBSET Slots
    BY ThreadsFinite, Sides, DutiesByThread DEF Inv, MpmcInvariant, TypeOK
  <1>l. pc[s] \in {"reserve", "write", "commit"} => ~Dead(recv)
    BY DEF Inv, MpmcInvariant, HandlesInv, Announced, GoneOnlyIf
  <1>1. CASE Reserve(s)
    <2>. DEFINE free == Slots \ send.slots
                got == free \cap Request(s)
                k == Cardinality(got)
                S == Popped(batch[s], k)
    <2>1. /\ pc[s] = "reserve" /\ mine[s] = {} /\ work[s] = {}
          /\ Request(s) \in SUBSET Slots /\ Cardinality(Request(s)) <= Cardinality(batch[s])
          /\ send' = [send EXCEPT !.slots = @ \cup Request(s)]
          /\ UNCHANGED <<recv, bag>>
      BY <1>0, <1>1, RequestFits DEF Reserve, Duty, Busy
    <2>2. (Dead(send)' <=> Dead(send)) /\ send.slots \in SUBSET Slots
      BY <1>0, <2>1 DEF Word, Dead
    <2>3. CASE Refuse(s) /\ (Dead(send) \/ free = {})
      <3>1. Dead(send) \/ send.slots = Slots
        BY <2>2, <2>3
      <3>. QED
        BY <2>1, <2>2, <2>3, <3>1, RefuseBag
    <2>4. CASE UNCHANGED <<mine, work, batch, fates>>
      <3>1. Held' = Held /\ Leaving' = Leaving
        BY <1>0, <2>1, <2>4, BagKept
      <3>. QED
        BY <2>1, <2>2, <2>4, <3>1, Stutter DEF fates
    <2>5. CASE /\ ~Dead(send) /\ UNCHANGED <<batch, fates>>
               /\ mine' = [mine EXCEPT ![s] = got] /\ work' = [work EXCEPT ![s] = got]
      <3>1. /\ k \in Nat /\ k <= Cardinality(Request(s)) /\ k <= Cardinality(batch[s])
            /\ IsFiniteSet(got) /\ IsFiniteSet(send.slots)
        <4>1. Cardinality(Request(s)) \in Nat /\ k \in Nat /\ k <= Cardinality(Request(s))
          BY <2>1, SlotSetsFinite, FS_Subset
        <4>2. Cardinality(batch[s]) \in Nat
          BY <1>0, MsgsFinite
        <4>. QED
          BY <2>1, <2>2, <4>1, <4>2, SlotSetsFinite
      <3>2. S \in SUBSET batch[s] /\ Cardinality(S) = k
        <4>1. \A m \in batch[s] : m[1] = s
          BY <1>0 DEF Duty
        <4>2. Cardinality(batch[s]) \in Nat
          BY <1>0, MsgsFinite
        <4>. HIDE DEF k
        <4>. QED
          BY <1>0, <3>1, <4>1, <4>2, PoppedCount
      <3>3. Committed' = Committed
        BY <2>1 DEF Committed
      <3>4. ASSUME NEW t \in Senders, t # s PROVE Outgoing(t)' = Outgoing(t)
        <4>1. mine'[t] = mine[t] /\ work'[t] = work[t]
          BY <1>0, <2>5, <3>4 DEF TypeOK
        <4>. QED
          BY <2>1, <2>5, <4>1 DEF Outgoing, Popped
      <3>5. Outgoing(s) = {} /\ Outgoing(s)' = S
        <4>1. mine'[s] = got /\ work'[s] = got
          BY <1>0, <2>5 DEF TypeOK
        <4>2. Outgoing(s)' = S
          BY <2>1, <2>5, <4>1 DEF Outgoing, Popped
        <4>. QED
          BY <2>1, <4>2, OutgoingOf
      <3>6. Held' = Held \cup S
        BY <3>3, <3>4, <3>5 DEF Held
      <3>7. Leaving' = Leaving
        <4>1. \A r \in Receivers : work'[r] = work[r]
          BY <1>0, <2>5 DEF TypeOK
        <4>2. \A r \in Receivers : Incoming(r)' = Incoming(r)
          BY <2>1, <2>5, <4>1 DEF Incoming
        <4>. QED
          BY <4>2 DEF Leaving
      <3>8. S \in SUBSET Msgs /\ S \subseteq Channel!Fresh
        BY <2>1, <3>2, FreshOffer
      <3>9. Channel!Occupied + Channel!Cardinality(S) <= N
        <4>1. Channel!Occupied = Cardinality(send.slots) /\ Channel!Cardinality(S) = k
          BY <2>5, <3>2, OccupiedCount, ChannelCardinality
        <4>2. send.slots \cup got \in SUBSET Slots /\ send.slots \cap got = {}
          BY <2>2
        <4>3. Cardinality(send.slots \cup got) = Cardinality(send.slots) + k
          BY <3>1, <4>2, DisjointCount
        <4>4. Cardinality(send.slots \cup got) <= N
          BY <4>2, SlotsFinite, FS_Subset
        <4>. QED
          BY <4>1, <4>3, <4>4
      <3>. HIDE DEF S
      <3>10. Channel!Accept(S)
        BY <1>l, <2>1, <2>2, <2>5, <3>6, <3>7, <3>8, <3>9
           DEF Channel!Accept, Channel!gone, Dead, fates
      <3>. QED
        BY <3>8, <3>10, Moves
    <2>. QED
      BY <1>1, <2>3, <2>4, <2>5 DEF Reserve
  <1>2. CASE WriteSlot(s)
    <2>. DEFINE i == NextOf(work[s])
    <2>1. i \in work[s] /\ pc[s] = "write" /\ work[s] \subseteq mine[s]
      BY <1>0, <1>2, NextOfLeast DEF WriteSlot, Duty
    <2>. HIDE DEF i
    <2>2. PICK n \in Popped(batch[s], 1) :
            /\ bag' = [bag EXCEPT ![i] = n] /\ batch' = [batch EXCEPT ![s] = @ \ {n}]
            /\ work' = [work EXCEPT ![s] = @ \ {i}] /\ UNCHANGED <<mine, words, fates>>
      BY <1>2 DEF WriteSlot, i
    <2>3. /\ bag'[i] = n /\ \A j \in Slots \ {i} : bag'[j] = bag[j]
          /\ batch'[s] = batch[s] \ {n} /\ work'[s] = work[s] \ {i}
          /\ \A u \in Threads \ {s} : batch'[u] = batch[u] /\ work'[u] = work[u]
      BY <1>0, <2>1, <2>2 DEF TypeOK
    <2>4. i \notin recv.slots /\ \A u \in Threads \ {s} : i \notin mine[u] /\ i \notin work[u]
      BY <1>0, <2>1, Owned
    <2>5. Committed' = Committed
      <3>1. \A j \in recv.slots : bag'[j] = bag[j]
        BY <1>0, <2>3, <2>4 DEF Word
      <3>. QED
        BY <2>2, <3>1 DEF Committed, words
    <2>6. ASSUME NEW t \in Senders, t # s PROVE Outgoing(t)' = Outgoing(t)
      <3>1. \A j \in mine[t] : bag'[j] = bag[j]
        BY <1>0, <2>3, <2>4, <2>6 DEF TypeOK
      <3>2. work'[t] = work[t] /\ batch'[t] = batch[t] /\ mine' = mine
        BY <1>0, <2>2, <2>3, <2>6
      <3>. QED
        BY <3>1, <3>2 DEF Outgoing, Popped
    <2>7. ASSUME NEW r \in Receivers PROVE Incoming(r)' = Incoming(r)
      <3>1. \A j \in work[r] : bag'[j] = bag[j]
        BY <1>0, <2>3, <2>4, <2>7 DEF TypeOK
      <3>2. work'[r] = work[r] /\ batch'[r] = batch[r]
        BY <1>0, <2>3, <2>7
      <3>. QED
        BY <3>1, <3>2 DEF Incoming
    <2>8. Outgoing(s)' = Outgoing(s)
      <3>. DEFINE k == Cardinality(work'[s])
      <3>1. k \in Nat /\ Cardinality(work[s]) = k + 1
        <4>1. IsFiniteSet(work'[s]) /\ i \notin work'[s] /\ work[s] = work'[s] \cup {i}
          BY <1>0, <2>1, <2>3, SlotSetsFinite
        <4>. QED
          BY <4>1, FS_AddElement, FS_CardinalityType
      <3>2. \A m \in batch[s] : m[1] = s
        BY <1>0 DEF Duty
      <3>3. Popped(batch[s], k + 1) = {n} \cup Popped(batch[s] \ {n}, k)
        <4>. HIDE DEF k
        <4>. QED
          BY <1>0, <3>1, <3>2, PopOne
      <3>4. mine[s] \ work'[s] = (mine[s] \ work[s]) \cup {i}
        BY <2>1, <2>3
      <3>5. {bag'[j] : j \in mine[s] \ work'[s]} = {bag[j] : j \in mine[s] \ work[s]} \cup {n}
        <4>1. \A j \in mine[s] \ work[s] : bag'[j] = bag[j]
          BY <1>0, <2>1, <2>3
        <4>. QED
          BY <2>3, <3>4, <4>1
      <3>6. Outgoing(s)' = {bag'[j] : j \in mine[s] \ work'[s]} \cup Popped(batch[s] \ {n}, k)
        BY <2>2, <2>3 DEF Outgoing, Popped
      <3>7. Outgoing(s) = {bag[j] : j \in mine[s] \ work[s]} \cup Popped(batch[s], k + 1)
        BY <3>1 DEF Outgoing
      <3>. HIDE DEF k
      <3>. QED
        BY <3>3, <3>5, <3>6, <3>7
    <2>9. Held' = Held /\ Leaving' = Leaving
      BY <2>5, <2>6, <2>7, <2>8 DEF Held, Leaving
    <2>. QED
      BY <2>2, <2>9, Stutter DEF words, fates, Dead
  <1>3. CASE Commit(s)
    <2>1. /\ pc[s] = "commit" /\ work[s] = {} /\ work' = work /\ mine'[s] = {}
          /\ \A u \in Threads \ {s} : mine'[u] = mine[u] /\ batch'[u] = batch[u]
          /\ recv'.slots = recv.slots \cup mine[s] /\ recv'.flags = {}
          /\ UNCHANGED <<send, bag, received, returned, dropped, told>>
      BY <1>0, <1>3 DEF Commit, Leave, Duty, TypeOK
    <2>2. Outgoing(s) = {bag[j] : j \in mine[s]} /\ Uninit \notin Outgoing(s)
      <3>1. Uninit \notin Msgs
        BY MpmcAssumption DEF Msgs
      <3>. QED
        BY <2>1, <3>1, OutgoingOf
    <2>3. Outgoing(s)' = {}
      <3>1. Popped(batch'[s], 0) = {}
        BY <1>0, PopNone DEF TypeOK
      <3>. QED
        BY <2>1, <3>1, FS_EmptySet DEF Outgoing
    <2>4. ASSUME NEW t \in Senders, t # s PROVE Outgoing(t)' = Outgoing(t)
      BY <1>0, <2>1, <2>4 DEF Outgoing, Popped
    <2>5. Committed' = Committed \cup Outgoing(s)
      BY <2>1, <2>2 DEF Committed
    <2>6. Held' = Held
      BY <2>3, <2>4, <2>5 DEF Held
    <2>7. Leaving' = Leaving
      <3>1. \A r \in Receivers : Incoming(r)' = Incoming(r)
        BY <1>0, <2>1 DEF Incoming
      <3>. QED
        BY <3>1 DEF Leaving
    <2>8. ~Dead(recv) /\ ~Dead(recv)'
      BY <1>l, <2>1 DEF Dead
    <2>. QED
      BY <2>1, <2>6, <2>7, <2>8, Stutter DEF Dead
  <1>4. CASE SpinSend(s)
    <2>1. /\ pc[s] = "spin" /\ send'.slots = send.slots /\ (Dead(send)' <=> Dead(send))
          /\ UNCHANGED <<recv, bag>>
      BY <1>0, <1>4, PolledWord DEF SpinSend
    <2>2. CASE Refuse(s) /\ send'.slots = Slots
      BY <2>1, <2>2, RefuseBag
    <2>3. CASE UNCHANGED <<mine, work, batch, fates>>
      <3>1. Held' = Held /\ Leaving' = Leaving
        BY <1>0, <2>1, <2>3, BagKept
      <3>. QED
        BY <2>1, <2>3, <3>1, Stutter DEF fates, Dead
    <2>. QED
      BY <1>4, <2>2, <2>3 DEF SpinSend, Poll
  <1>5. CASE HangUpSenders(s)
    <2>1. /\ recv'.slots = recv.slots /\ Dead(recv)' /\ UNCHANGED <<send, bag, locals, fates>>
      BY <1>0, <1>5, WordClosed DEF HangUpSenders, Status, Dead
    <2>2. Held' = Held /\ Leaving' = Leaving
      BY <1>0, <2>1, BagKept DEF locals
    <2>3. Channel!SendersLeave
      BY <2>1, <2>2 DEF Channel!SendersLeave, fates, Dead
    <2>. QED
      BY <2>3 DEF BagStep, Channel!Next
  <1>6. CASE PassTorchSend(s)
    <2>1. /\ (Dead(send)' <=> Dead(send)) /\ UNCHANGED <<recv, bag, locals, fates>>
      BY <1>0, <1>6, WordClosed DEF PassTorchSend, Status, Dead
    <2>2. Held' = Held /\ Leaving' = Leaving
      BY <1>0, <2>1, BagKept DEF locals
    <2>. QED
      BY <2>1, <2>2, Stutter DEF fates, Dead
  <1>7. CASE UNCHANGED <<words, bag, locals, fates>>
    <2>1. Held' = Held /\ Leaving' = Leaving
      BY <1>0, <1>7, BagKept DEF locals, words
    <2>. QED
      BY <1>7, <2>1, Stutter DEF fates, words, Dead
  <1>. QED
    BY <1>1, <1>2, <1>3, <1>4, <1>5, <1>6, <1>7
       DEF SenderStep, WakeReceiver, SleepSend, WakeAllReceivers, Abort, OnlyMoves

(* Disconnected is reported of an empty bag without senders                *)
(* (mpmc.rs:391-398 and 440-448).                                          *)
LEMMA TellBag ==
  ASSUME Inv, Inv', Placement, phase = "open", NEW r \in Receivers, pc[r] \in {"claim", "spin"},
         TellGone(r), recv.slots = {}, recv'.slots = {}, Dead(recv), Dead(recv)',
         UNCHANGED <<bag, send>>
  PROVE  BagStep
  <1>0. /\ TypeOK /\ TypeOK' /\ r \in Threads /\ r \notin Senders /\ Duty(r)
        /\ \A s \in Senders : s \in Threads /\ Duty(s)
    BY ThreadsFinite, Sides, DutiesByThread DEF Inv, MpmcInvariant
  <1>1. mine[r] = {} /\ batch[r] = {} /\ ~Dead(send)
    BY <1>0 DEF Duty, Busy, Inv, MpmcInvariant, HandlesInv, Announced, GoneOnlyIf
  <1>2. UNCHANGED <<mine, work, batch>>
    BY <1>0, <1>1, LeaveEmpty, LeaveNothing DEF TellGone
  <1>3. Held' = Held /\ Leaving' = Leaving
    BY <1>0, <1>2, BagKept
  <1>4. ASSUME NEW s \in Senders PROVE Outgoing(s) = {}
    <2>1. mine[s] = {} /\ work[s] = {}
      BY <1>0 DEF Duty, Busy, Inv, MpmcInvariant, HandlesInv, Announced, GoneOnlyIf
    <2>. QED
      BY <2>1, OutgoingOf
  <1>5. Held = {}
    BY <1>4 DEF Held, Committed
  <1>6. Channel!Tell
    BY <1>1, <1>3, <1>5 DEF TellGone, Channel!Tell, Channel!gone, Dead
  <1>. QED
    BY <1>6 DEF BagStep, Channel!Next

LEMMA ReceiverBag ==
  ASSUME Inv, Inv', Placement, phase = "open", NEW r \in Receivers, ReceiverStep(r)
  PROVE  BagStep
  <1>0. /\ TypeOK /\ TypeOK' /\ Duties /\ SlotsPartitioned /\ Contents
        /\ r \in Threads /\ r \notin Senders /\ Duty(r) /\ send \in Word /\ recv \in Word
        /\ Senders \subseteq Threads /\ Receivers \subseteq Threads
        /\ batch[r] \in SUBSET Msgs /\ mine[r] \in SUBSET Slots /\ work[r] \in SUBSET Slots
    BY ThreadsFinite, Sides, DutiesByThread DEF Inv, MpmcInvariant, TypeOK
  <1>l. pc[r] \in {"claim", "read", "free"} => ~Dead(send)
    BY DEF Inv, MpmcInvariant, HandlesInv, Announced, GoneOnlyIf
  <1>1. CASE Claim(r)
    <2>1. /\ pc[r] = "claim" /\ mine[r] = {} /\ work[r] = {} /\ batch[r] = {}
          /\ recv'.slots = {} /\ (Dead(recv)' <=> Dead(recv)) /\ UNCHANGED <<send, bag>>
      BY <1>0, <1>1, WordClosed DEF Claim, Duty, Busy, Dead
    <2>2. CASE recv.slots = {} /\ Dead(recv) /\ TellGone(r)
      BY <2>1, <2>2, TellBag
    <2>3. CASE recv.slots = {} /\ UNCHANGED fates /\ (UNCHANGED locals \/ Leave(r))
      <3>1. UNCHANGED <<mine, work, batch>>
        BY <1>0, <2>1, <2>3, LeaveEmpty, LeaveNothing DEF locals
      <3>2. Held' = Held /\ Leaving' = Leaving
        BY <1>0, <2>1, <2>3, <3>1, BagKept
      <3>. QED
        BY <2>1, <2>3, <3>2, Stutter DEF fates, Dead
    <2>4. CASE /\ mine' = [mine EXCEPT ![r] = recv.slots] /\ work' = [work EXCEPT ![r] = recv.slots]
               /\ UNCHANGED <<batch, fates>>
      <3>1. /\ mine'[r] = recv.slots /\ work'[r] = recv.slots
            /\ \A u \in Threads \ {r} : mine'[u] = mine[u] /\ work'[u] = work[u]
        BY <1>0, <2>4 DEF TypeOK
      <3>2. /\ Committed = {bag[i] : i \in recv.slots} /\ Committed \in SUBSET Msgs
            /\ \A s \in Senders : Committed \cap Outgoing(s) = {}
        BY <1>0, InTheBag, GoodsApart DEF Goods
      <3>3. Committed' = {}
        BY <2>1 DEF Committed
      <3>4. ASSUME NEW s \in Senders PROVE Outgoing(s)' = Outgoing(s)
        BY <1>0, <2>1, <2>4, <3>1 DEF Outgoing, Popped
      <3>5. ASSUME NEW u \in Receivers, u # r PROVE Incoming(u)' = Incoming(u)
        BY <1>0, <2>1, <2>4, <3>1, <3>5 DEF Incoming
      <3>6. Incoming(r) = {} /\ Incoming(r)' = Committed
        BY <2>1, <2>4, <3>1, <3>2 DEF Incoming
      <3>7. Held' = Held \ Committed /\ Committed \subseteq Held
        BY <3>2, <3>3, <3>4 DEF Held
      <3>8. Leaving' = Leaving \cup Committed
        BY <3>5, <3>6 DEF Leaving
      <3>9. Channel!Claim(Committed)
        BY <1>l, <2>1, <2>4, <3>7, <3>8 DEF Channel!Claim, Channel!gone, fates, Dead
      <3>. QED
        BY <3>2, <3>9, Moves
    <2>. QED
      BY <1>1, <2>2, <2>3, <2>4 DEF Claim
  <1>2. CASE ReadSlot(r)
    <2>. DEFINE i == NextOf(work[r])
    <2>1. i \in work[r] /\ pc[r] = "read"
      BY <1>0, <1>2, NextOfLeast DEF ReadSlot, Duty
    <2>2. /\ bag' = [bag EXCEPT ![i] = Uninit] /\ batch' = [batch EXCEPT ![r] = @ \cup {bag[i]}]
          /\ work' = [work EXCEPT ![r] = @ \ {i}] /\ UNCHANGED <<mine, words, fates>>
      BY <1>2 DEF ReadSlot
    <2>. HIDE DEF i
    <2>3. /\ bag'[i] = Uninit /\ \A j \in Slots \ {i} : bag'[j] = bag[j]
          /\ batch'[r] = batch[r] \cup {bag[i]} /\ work'[r] = work[r] \ {i}
          /\ \A u \in Threads \ {r} : batch'[u] = batch[u] /\ work'[u] = work[u]
      BY <1>0, <2>1, <2>2 DEF TypeOK
    <2>4. i \notin recv.slots /\ \A u \in Threads \ {r} : i \notin mine[u] /\ i \notin work[u]
      BY <1>0, <2>1, Owned
    <2>5. Committed' = Committed
      <3>1. \A j \in recv.slots : bag'[j] = bag[j]
        BY <1>0, <2>3, <2>4 DEF Word
      <3>. QED
        BY <2>2, <3>1 DEF Committed, words
    <2>6. ASSUME NEW s \in Senders PROVE Outgoing(s)' = Outgoing(s)
      <3>1. \A j \in mine[s] : bag'[j] = bag[j]
        BY <1>0, <2>3, <2>4 DEF TypeOK
      <3>2. work'[s] = work[s] /\ batch'[s] = batch[s] /\ mine' = mine
        BY <1>0, <2>2, <2>3
      <3>. QED
        BY <3>1, <3>2 DEF Outgoing, Popped
    <2>7. ASSUME NEW u \in Receivers PROVE Incoming(u)' = Incoming(u)
      <3>1. \A j \in work'[u] : bag'[j] = bag[j]
        <4>1. work'[u] \in SUBSET Slots /\ i \notin work'[u]
          BY <1>0, <2>3, <2>4 DEF TypeOK
        <4>. QED
          BY <2>3, <4>1
      <3>2. CASE u # r
        <4>1. work'[u] = work[u] /\ batch'[u] = batch[u]
          BY <1>0, <2>3, <3>2
        <4>. QED
          BY <3>1, <4>1 DEF Incoming
      <3>3. CASE u = r
        <4>1. {bag[j] : j \in work[r]} = {bag[j] : j \in work'[r]} \cup {bag[i]}
          BY <2>1, <2>3
        <4>2. {bag'[j] : j \in work'[r]} = {bag[j] : j \in work'[r]}
          BY <3>1, <3>3
        <4>. QED
          BY <2>3, <3>3, <4>1, <4>2 DEF Incoming
      <3>. QED
        BY <3>2, <3>3
    <2>8. Held' = Held /\ Leaving' = Leaving
      BY <2>5, <2>6, <2>7 DEF Held, Leaving
    <2>. QED
      BY <2>2, <2>8, Stutter DEF words, fates, Dead
  <1>3. CASE FreeSlots(r)
    <2>1. /\ pc[r] = "free" /\ work[r] = {} /\ work' = work
          /\ mine'[r] = {} /\ batch'[r] = {}
          /\ \A u \in Threads \ {r} : mine'[u] = mine[u] /\ batch'[u] = batch[u]
          /\ received' = received \cup batch[r] /\ send'.flags = {}
          /\ UNCHANGED <<recv, bag, returned, dropped, told>>
      BY <1>0, <1>3 DEF FreeSlots, Leave, AfterFree, Duty, TypeOK
    <2>2. ASSUME NEW s \in Senders PROVE Outgoing(s)' = Outgoing(s)
      BY <1>0, <2>1 DEF Outgoing, Popped
    <2>3. Held' = Held
      <3>1. Committed' = Committed
        BY <2>1 DEF Committed
      <3>. QED
        BY <2>2, <3>1 DEF Held
    <2>4. ASSUME NEW u \in Receivers, u # r
          PROVE  Incoming(u)' = Incoming(u) /\ Incoming(u) \cap Incoming(r) = {}
      <3>1. Goods[u] = Incoming(u) /\ Goods[r] = Incoming(r)
        BY <1>0, Sides DEF Goods
      <3>2. Goods[u] \cap Goods[r] = {}
        BY <1>0, <2>4, GoodsApart
      <3>3. Incoming(u)' = Incoming(u)
        BY <1>0, <2>1, <2>4 DEF Incoming
      <3>. QED
        BY <3>1, <3>2, <3>3
    <2>5. Incoming(r) = batch[r] /\ Incoming(r)' = {}
      BY <2>1 DEF Incoming
    <2>6. Leaving' = Leaving \ batch[r] /\ batch[r] \subseteq Leaving
      BY <2>4, <2>5 DEF Leaving
    <2>7. ~Dead(send) /\ ~Dead(send)' /\ (Dead(recv)' <=> Dead(recv))
      BY <1>l, <2>1 DEF Dead
    <2>8. Channel!Deliver(batch[r])
      BY <2>1, <2>3, <2>6, <2>7 DEF Channel!Deliver, Channel!gone, Dead
    <2>. QED
      BY <1>0, <2>8, Moves
  <1>4. CASE SpinRecv(r)
    <2>1. /\ pc[r] = "spin" /\ recv'.slots = recv.slots /\ (Dead(recv)' <=> Dead(recv))
          /\ UNCHANGED <<send, bag>>
      BY <1>0, <1>4, PolledWord DEF SpinRecv, Dead
    <2>2. CASE TellGone(r) /\ recv'.slots = {} /\ Dead(recv')
      BY <2>1, <2>2, TellBag DEF Dead
    <2>3. CASE UNCHANGED <<mine, work, batch, fates>>
      <3>1. Held' = Held /\ Leaving' = Leaving
        BY <1>0, <2>1, <2>3, BagKept
      <3>. QED
        BY <2>1, <2>3, <3>1, Stutter DEF fates, Dead
    <2>. QED
      BY <1>4, <2>2, <2>3 DEF SpinRecv, Poll
  <1>5. CASE HangUpReceivers(r)
    <2>1. /\ pc[r] = "hangup" /\ Dead(send)' /\ UNCHANGED <<recv, bag, locals, fates>>
      BY <1>0, <1>5, WordClosed DEF HangUpReceivers, Status, Dead
    <2>2. Held' = Held /\ Leaving' = Leaving
      BY <1>0, <2>1, BagKept DEF locals
    <2>3. ASSUME NEW u \in Receivers PROVE Incoming(u) = {}
      <3>1. pc[u] \in {"hangup", "unborn", "dead"}
        BY <2>1 DEF Inv, MpmcInvariant, HandlesInv, Announced
      <3>2. batch[u] = {} /\ work[u] = {}
        BY <1>0, <3>1 DEF Duties
      <3>. QED
        BY <3>2 DEF Incoming
    <2>4. Leaving = {}
      BY <2>3 DEF Leaving
    <2>5. Channel!ReceiversLeave
      BY <2>1, <2>2, <2>4 DEF Channel!ReceiversLeave, fates, Dead
    <2>. QED
      BY <2>5 DEF BagStep, Channel!Next
  <1>6. CASE PassTorchRecv(r)
    <2>1. /\ recv'.slots = recv.slots /\ (Dead(recv)' <=> Dead(recv))
          /\ UNCHANGED <<send, bag, locals, fates>>
      BY <1>0, <1>6, WordClosed DEF PassTorchRecv, Status, Dead
    <2>2. Held' = Held /\ Leaving' = Leaving
      BY <1>0, <2>1, BagKept DEF locals
    <2>. QED
      BY <2>1, <2>2, Stutter DEF fates, Dead
  <1>7. CASE UNCHANGED <<words, bag, locals, fates>>
    <2>1. Held' = Held /\ Leaving' = Leaving
      BY <1>0, <1>7, BagKept DEF locals, words
    <2>. QED
      BY <1>7, <2>1, Stutter DEF fates, words, Dead
  <1>. QED
    BY <1>1, <1>2, <1>3, <1>4, <1>5, <1>6, <1>7
       DEF ReceiverStep, WakeSender, SleepRecv, WakeAllSenders, Abort, OnlyMoves

LEMMA UserBag ==
  ASSUME Inv, Inv', UserStep
  PROVE  BagStep
  <1>0. TypeOK /\ TypeOK' /\ Duties
    BY DEF Inv, MpmcInvariant
  <1>1. ASSUME NEW s \in Senders, NEW k \in 1..MaxItems, NEW b \in BOOLEAN, CallSend(s, k, b)
        PROVE  BagStep
    <2>0. s \in Threads /\ s \notin Receivers
      BY ThreadsFinite, Sides
    <2>1. /\ work[s] = {} /\ \A u \in Threads \ {s} : batch'[u] = batch[u]
          /\ UNCHANGED <<mine, work, words, bag, received, returned, dropped, told>>
      <3>. DEFINE B == Popped(UnsentBy(s), k)
      <3>1. /\ pc[s] = "idle" /\ batch' = [batch EXCEPT ![s] = B]
            /\ UNCHANGED <<mine, work, words, bag, received, returned, dropped, told>>
        BY <1>1 DEF CallSend
      <3>. HIDE DEF B
      <3>2. \A u \in Threads \ {s} : batch'[u] = batch[u]
        BY <1>0, <3>1 DEF TypeOK
      <3>3. work[s] = {}
        BY <1>0, <2>0, <3>1 DEF Duties
      <3>. QED
        BY <3>1, <3>2, <3>3
    <2>2. Held' = Held /\ Leaving' = Leaving
      BY <1>0, <2>0, <2>1, BagKept, ThreadsFinite DEF words
    <2>. QED
      BY <2>1, <2>2, Stutter DEF words, Dead
  <1>2. CASE UNCHANGED <<mine, work, batch, words, bag, fates>>
    <2>1. Held' = Held /\ Leaving' = Leaving
      BY <1>0, <1>2, BagKept DEF words
    <2>. QED
      BY <1>2, <2>1, Stutter DEF fates, words, Dead
  <1>. QED
    BY <1>1, <1>2
       DEF UserStep, CallRecv, CloneSender, CloneReceiver, DropSender, DropReceiver, Share, Unshare,
           OnlyMoves, locals

(* Inner::drop discards what is committed: nobody is left who could send   *)
(* or receive it (mpmc.rs:70-88).                                          *)
LEMMA TeardownBag ==
  ASSUME Inv, Placement, phase = "open", NEW k \in 1..N, Teardown(k)
  PROVE  BagStep
  <1>. DEFINE drained == Lowest(recv.slots, k)
              S == {bag[i] : i \in drained}
  <1>0. /\ TypeOK /\ Duties /\ recv.slots \in SUBSET Slots /\ k \in Nat /\ k >= 1
        /\ Senders \subseteq Threads /\ Receivers \subseteq Threads
    BY ThreadsFinite, SlotCount DEF Inv, MpmcInvariant, TypeOK, Word
  <1>1. /\ \A t \in Threads : pc[t] \in {"dead", "unborn"}
        /\ bag' = [i \in Slots |-> IF i \in drained THEN Uninit ELSE bag[i]]
        /\ dropped' = dropped \cup S
        /\ UNCHANGED <<mine, work, batch, words, received, returned, told>>
    BY DEF Teardown, locals
  <1>2. /\ drained \subseteq recv.slots
        /\ drained = {} => recv.slots = {}
    <2>1. Cardinality(drained) = IF k < Cardinality(recv.slots) THEN k ELSE Cardinality(recv.slots)
      BY <1>0, LowestCount
    <2>2. drained \subseteq recv.slots
      BY <1>0, LowestCount
    <2>. HIDE DEF drained
    <2>. QED
      BY <1>0, <2>1, <2>2, SlotSetsFinite
  <1>. HIDE DEF drained
  <1>3. Dead(recv) /\ Dead(send)
    BY <1>0, <1>1 DEF Inv, MpmcInvariant, HandlesInv, Announced, GoneIf
  <1>4. \A t \in Threads : mine[t] = {} /\ work[t] = {} /\ batch[t] = {}
    <2>1. \A t \in Threads : Duty(t)
      BY <1>0, DutiesByThread
    <2>. QED
      BY <1>1, <2>1, Sides DEF Duty, Busy, Offering, SendLocations
  <1>5. \A s \in Senders : Outgoing(s) = {} /\ Outgoing(s)' = {}
    <2>1. ASSUME NEW s \in Senders PROVE Popped(batch[s], Cardinality(work[s])) = {}
      BY <1>0, <1>4 DEF Popped
    <2>. QED
      BY <1>0, <1>1, <1>4, <2>1 DEF Outgoing, Popped
  <1>6. \A r \in Receivers : Incoming(r) = {} /\ Incoming(r)' = {}
    BY <1>0, <1>1, <1>4 DEF Incoming
  <1>7. /\ Committed = {bag[i] : i \in recv.slots} /\ Committed \in SUBSET Msgs
        /\ \A i \in recv.slots : bag[i] \in Msgs
    <2>1. Committed = {bag[i] : i \in recv.slots} /\ Committed \in SUBSET Msgs
      BY InTheBag
    <2>. QED
      BY <2>1
  <1>8. Committed' = Committed \ S
    <2>1. \A i, j \in recv.slots : bag[i] = bag[j] => i = j
      BY <1>0, <1>7 DEF Placement, Placed, Single
    <2>2. \A i \in recv.slots : bag'[i] = IF i \in drained THEN Uninit ELSE bag[i]
      BY <1>0, <1>1
    <2>3. \A i \in recv.slots : bag[i] # Uninit
      BY <1>7, MpmcAssumption DEF Msgs
    <2>4. Committed' = {bag'[i] : i \in recv.slots} \ {Uninit}
      BY <1>1 DEF Committed, words
    <2>5. Committed' = {bag[i] : i \in recv.slots \ drained}
      BY <2>2, <2>3, <2>4
    <2>. QED
      BY <1>2, <1>7, <2>1, <2>5
  <1>9. Held = Committed /\ Held' = Held \ S /\ Leaving' = Leaving
    BY <1>5, <1>6, <1>8 DEF Held, Leaving
  <1>10. S \subseteq Held /\ (S = {} => Held = {})
    BY <1>2, <1>7, <1>9
  <1>. HIDE DEF S
  <1>11. Channel!Discard(S)
    BY <1>1, <1>3, <1>9, <1>10 DEF Channel!Discard, Channel!gone, words, Dead
  <1>12. S \in SUBSET Msgs
    BY <1>7, <1>9, <1>10
  <1>. QED
    BY <1>11, <1>12, Moves

LEMMA BagSteps ==
  ASSUME Inv, Inv', Placement, [Next]_vars
  PROVE  BagStep
  <1>1. CASE UNCHANGED vars \/ \E t \in Threads : Interrupt(t)
    <2>1. UNCHANGED <<mine, work, batch, words, bag, fates>>
      BY <1>1 DEF vars, Interrupt, OnlyMoves, locals
    <2>2. Held' = Held /\ Leaving' = Leaving
      BY <2>1, BagKept DEF Inv, words
    <2>. QED
      BY <2>1, <2>2, Stutter DEF fates, words, Dead
  <1>. QED
    BY <1>1, SenderBag, ReceiverBag, UserBag, TeardownBag DEF Next, Finished

(* The channel is a bag of N places: a sender is refused only while every  *)
(* slot is taken or the receivers are gone, the messages of a fetch_or and *)
(* of a fetch_and enter and leave together, each once, and Disconnected is *)
(* only reported of an empty bag without senders (mpmc.rs:70-88, 176-324   *)
(* and 373-484).                                                           *)
THEOREM MpmcImplementsBag == Spec => ImplementsBag
  <1>1. Inv /\ Inv' /\ Placement /\ [Next]_vars => [Channel!Next]_(Channel!vars)
    BY BagSteps DEF BagStep
  <1>. QED
    BY <1>1, BagInit, PlacementInvariance, PTL DEF Spec, ImplementsBag, Channel!Spec
==============================================================================
