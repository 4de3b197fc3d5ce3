-------------------------------- MODULE Mpmc ---------------------------------
(***************************************************************************)
(* bags/src/mpmc.rs: the multi-producer multi-consumer bag behind mpmc().  *)
(*                                                                         *)
(* Every atomic instruction, every access to an element of the bag and     *)
(* every futex call is a step of its own.  A thread sends or receives      *)
(* through one handle, which is named after the thread it was made for;    *)
(* handles are Sync, so several threads may use the same one.  The words   *)
(* send and recv are records of the slots whose bit is set and of the      *)
(* status flags that are on (recv stores its flags inverted,               *)
(* mpmc.rs:308-309; on is on here).  The masks of a request are sets of    *)
(* slots, slot 0 being the highest bit of a word.                          *)
(*                                                                         *)
(* As in Slot, memory orderings are modelled by what they publish: for     *)
(* each slot, which threads' views contain its latest access (seen), and   *)
(* which slots' latest accesses are carried by the release sequences of    *)
(* the words (sendView, recvView).  A thread's fences and release stores   *)
(* are only credited with the slots of its current call, which can report  *)
(* a race that is none but hides no race.                                  *)
(***************************************************************************)
EXTENDS SlotMasks

CONSTANTS
  Senders,      \* the threads that may ever send
  Receivers,    \* the threads that may ever receive
  Borrowers,    \* those of them that use the handle of another thread
  Uninit,       \* the content of MaybeUninit memory that holds no value
  Stride,       \* the distance between the biases of successive clones (7)
  MaxItems,     \* bound: the messages each sender has to send
  Spins,        \* how often the blocking calls poll before they sleep (32)
  HandleLimit   \* u32::MAX / 2

Threads == Senders \cup Receivers
Msgs == Senders \X (1..MaxItems)
CountRange == 2 * HandleLimit + 2   \* 2^32

ASSUME MpmcAssumption ==
  /\ IsFiniteSet(Senders) /\ ~(Senders \subseteq Borrowers)
  /\ IsFiniteSet(Receivers) /\ ~(Receivers \subseteq Borrowers)
  /\ Senders \cap Receivers = {}
  /\ Uninit \notin Senders \X Nat
  /\ Stride \in Nat /\ MaxItems \in Nat /\ Spins \in Nat /\ HandleLimit \in Nat

(* No 2^31 threads of a side exist; if each has a handle of its own, the   *)
(* clone guard sees to that (mpmc.rs:490-515).                             *)
ASSUME ThreadsAssumption ==
  \A S \in {Senders, Receivers} :
    S \cap Borrowers = {} \/ Cardinality(S) <= HandleLimit + 1

VARIABLES
  pc,           \* what each thread does next
  blocking,     \* the current call is send/recv rather than try_send/try_recv
  spin,         \* polls left before the thread announces that it will sleep
  bias,         \* Sender::bias of each handle
  handle,       \* the handle each thread uses
  retry,        \* the slots a sender asks for next when its request got none
  batch,        \* the SendBuffer of a send, or the values a receive has read
  mine,         \* the slots a thread has reserved or claimed in this call
  work,         \* those of them it has still to write or read
  send,         \* Inner::send: reserved slots and flags
  recv,         \* Inner::recv: committed slots and flags
  numSenders,   \* Inner::num_senders
  numReceivers, \* Inner::num_receivers
  bag,          \* Inner::bag
  seen,         \* per slot, the threads whose view contains its latest access
  sendView,     \* slots whose latest access the release sequence of send carries
  recvView,     \* slots whose latest access the release sequence of recv carries
  raced,        \* an access to a slot was not ordered after the previous one
  unsent,       \* messages their senders still own
  received,     \* messages returned by recv and try_recv
  returned,     \* messages handed back in an Err
  dropped,      \* messages dropped by Inner::drop
  told,         \* a receive has returned Disconnected
  phase         \* "open", "freed" (Inner is dropped) or "aborted"

locals == <<blocking, spin, bias, retry, batch, mine, work>>
words == <<send, recv>>
handles == <<numSenders, numReceivers, handle>>
views == <<seen, sendView, recvView, raced>>
fates == <<unsent, received, returned, dropped, told>>
vars == <<pc, locals, words, handles, bag, views, fates, phase>>
-----------------------------------------------------------------------------
Status == {"COUNTERPARTY_DEAD", "SLEEPING"}

Dead(w) == "COUNTERPARTY_DEAD" \in w.flags
Sleeping(w) == "SLEEPING" \in w.flags
With(w, flag) == [w EXCEPT !.flags = @ \cup {flag}]

(* The k items that a Vec pops first. *)
Popped(D, k) == {m \in D : Cardinality({n \in D : n[2] > m[2]}) < k}
UnsentBy(s) == {m \in unsent : m[1] = s}

BiasFor(s) == bias[handle[s]]

(* The mask of the next fetch_or: a call of try_send starts at the bias. *)
Request(s) == IF retry[s] = {} THEN RequestMask(Cardinality(batch[s]), BiasFor(s)) ELSE retry[s]

Goto(t, loc) == pc' = [pc EXCEPT ![t] = loc]

(* A step that changes nothing but where the threads are. *)
OnlyMoves == UNCHANGED <<locals, words, handles, bag, views, fates, phase>>

(* futex wake of at most one of the threads S, and of all of them. *)
Asleep(S) == {t \in S : pc[t] = "asleep"}
WakeOne(S, f) == IF Asleep(S) = {} THEN {f} ELSE {[f EXCEPT ![w] = "torch"] : w \in Asleep(S)}
WakeAll(S, f) == [t \in Threads |-> IF t \in Asleep(S) THEN "torch" ELSE f[t]]

(* Mutant: the caller sleeps whatever the word has become. *)
BlocksAlways(word, expected) == TRUE

(* futex wait blocks on the expected word only. *)
Blocks(word, expected) == word = expected

(* Mutant: the woken thread does not announce the others. *)
WithoutTorch(w) == w

(* Whoever returns from the futex announces that others may still sleep. *)
WithTorch(w) == With(w, "SLEEPING")

(* fetch_add and fetch_sub wrap around. *)
OneMore(n) == (n + 1) % CountRange
OneLess(n) == (n + CountRange - 1) % CountRange

(* Mutant: the last handle but one hangs up. *)
OthersLeftEarly(n) == n > 2

(* What fetch_sub tells a handle that is dropped. *)
OthersLeft(n) == n > 1

(* Another thread still uses the handle of t. *)
Shared(t) == \E u \in Threads \ {t} : handle[u] = handle[t] /\ pc[u] \notin {"unborn", "dead"}

(* Leave the current call. *)
Leave(t) == /\ blocking' = [blocking EXCEPT ![t] = FALSE]
            /\ spin' = [spin EXCEPT ![t] = Spins]
            /\ batch' = [batch EXCEPT ![t] = {}] /\ mine' = [mine EXCEPT ![t] = {}]
            /\ retry' = [retry EXCEPT ![t] = {}]
            /\ UNCHANGED <<bias, work>>

(* Return Err, which hands the whole buffer back to the caller. *)
Refuse(s) == /\ Goto(s, "idle") /\ Leave(s)
             /\ returned' = returned \cup batch[s]
             /\ UNCHANGED <<unsent, received, dropped, told>>

(* Return Disconnected from a receive. *)
TellGone(r) == /\ Goto(r, "idle") /\ Leave(r)
               /\ told' = TRUE
               /\ UNCHANGED <<unsent, received, returned, dropped>>

(* A polling loop that has read w and no hang-up calls try_send or         *)
(* try_recv anew, or is going to sleep on w, or polls on.                  *)
Poll(t, w, ready, again) ==
  /\ \/ ready /\ Goto(t, again) /\ spin' = [spin EXCEPT ![t] = Spins]
     \/ ~ready /\ w.flags = {"SLEEPING"} /\ Goto(t, "sleep") /\ spin' = [spin EXCEPT ![t] = Spins]
     \/ ~ready /\ w.flags = {} /\ UNCHANGED pc /\ spin' = [spin EXCEPT ![t] = @ - 1]
  /\ UNCHANGED <<blocking, bias, retry, batch, mine, work, fates>>

(* A non-atomic access to slot i by t. *)
AccessSlot(t, i) == /\ raced' = (raced \/ t \notin seen[i])
                    /\ seen' = [seen EXCEPT ![i] = {t}]
                    /\ sendView' = sendView \ {i} /\ recvView' = recvView \ {i}

(* The latest accesses to the slots S become visible to t. *)
Acquired(t, S) == [i \in Slots |-> IF i \in S THEN seen[i] \cup {t} ELSE seen[i]]

(* Mutant: the word is changed without a release. *)
NotReleased(t, view) == view

(* What t adds to the release sequence of a word. *)
Released(t, view) == view \cup {i \in mine[t] : t \in seen[i]}
-----------------------------------------------------------------------------
Init ==
  /\ \E s \in Senders \ Borrowers, r \in Receivers \ Borrowers :
       pc = [t \in Threads |-> IF t \in {s, r} THEN "idle" ELSE "unborn"]
  /\ blocking = [t \in Threads |-> FALSE] /\ spin = [t \in Threads |-> Spins]
  /\ bias = [t \in Threads |-> 0] /\ handle = [t \in Threads |-> t]
  /\ retry = [t \in Threads |-> {}] /\ batch = [t \in Threads |-> {}]
  /\ mine = [t \in Threads |-> {}] /\ work = [t \in Threads |-> {}]
  /\ send = [slots |-> {}, flags |-> {}] /\ recv = [slots |-> {}, flags |-> {}]
  /\ numSenders = 1 /\ numReceivers = 1
  /\ bag = [i \in Slots |-> Uninit]
  /\ seen = [i \in Slots |-> Threads] /\ sendView = {} /\ recvView = {} /\ raced = FALSE
  /\ unsent = Msgs /\ received = {} /\ returned = {} /\ dropped = {} /\ told = FALSE
  /\ phase = "open"
-----------------------------------------------------------------------------
(* Sender::send (b) and Sender::try_send (~b) with a buffer of k messages. *)
(* An empty buffer is a call that returns Ok and does nothing.             *)
CallSend(s, k, b) ==
  /\ pc[s] = "idle" /\ k <= Cardinality(UnsentBy(s))
  /\ batch' = [batch EXCEPT ![s] = Popped(UnsentBy(s), k)] /\ unsent' = unsent \ batch'[s]
  /\ blocking' = [blocking EXCEPT ![s] = b]
  /\ Goto(s, "reserve")
  /\ UNCHANGED <<spin, bias, retry, mine, work, words, handles, bag, views>>
  /\ UNCHANGED <<received, returned, dropped, told, phase>>

(* Mutant: no fence(Acquire). *)
NoAcquireFence(s, S) == seen

(* fence(Acquire) makes visible what the relaxed fetch_or has read. *)
AcquireFence(s, S) == Acquired(s, S \cap sendView)

(* try_send's fetch_or of the request mask, and what it does with the word *)
(* it returns: fail, poll, aim at other slots, or take the free ones it    *)
(* got and pass the fence.                                                 *)
Reserve(s) ==
  LET free == Slots \ send.slots
      got == free \cap Request(s)
  IN  /\ pc[s] = "reserve"
      /\ send' = [send EXCEPT !.slots = @ \cup Request(s)]
      /\ \/ /\ Dead(send) \/ (free = {} /\ ~blocking[s])
            /\ Refuse(s) /\ UNCHANGED seen
         \/ /\ ~Dead(send)
            /\ \/ /\ free = {} /\ blocking[s] /\ Goto(s, "spin")
                  /\ retry' = [retry EXCEPT ![s] = {}]
                  /\ UNCHANGED <<mine, work, seen>>
               \/ /\ free # {} /\ got = {} /\ UNCHANGED <<pc, mine, work, seen>>
                  /\ retry' = [retry EXCEPT ![s] =
                                 ClearExtraBits(free, Cardinality(batch[s]), BiasFor(s))]
               \/ /\ got # {} /\ Goto(s, "write")
                  /\ retry' = [retry EXCEPT ![s] = {}]
                  /\ mine' = [mine EXCEPT ![s] = got] /\ work' = [work EXCEPT ![s] = got]
                  /\ seen' = AcquireFence(s, got)
            /\ UNCHANGED <<blocking, spin, bias, batch, fates>>
      /\ UNCHANGED <<recv, handles, bag, sendView, recvView, raced, phase>>

(* One turn of drain_mask in try_send: data.take() and ptr::write. *)
WriteSlot(s) ==
  /\ pc[s] = "write"
  /\ \E i \in {NextOf(work[s])}, m \in Popped(batch[s], 1) :
       /\ AccessSlot(s, i)
       /\ bag' = [bag EXCEPT ![i] = m]
       /\ batch' = [batch EXCEPT ![s] = @ \ {m}]
       /\ work' = [work EXCEPT ![s] = @ \ {i}]
  /\ Goto(s, IF work'[s] = {} THEN "commit" ELSE "write")
  /\ UNCHANGED <<blocking, spin, bias, retry, mine, words, handles, fates, phase>>

(* recv.fetch_or(commit, Release), which also turns both flags off.  What  *)
(* found no place stays in the caller's buffer.                            *)
Commit(s) ==
  /\ pc[s] = "commit"
  /\ recv' = [slots |-> recv.slots \cup mine[s], flags |-> {}]
  /\ recvView' = Released(s, recvView)
  /\ Goto(s, IF Sleeping(recv) THEN "wake" ELSE "idle") /\ Leave(s)
  /\ unsent' = unsent \cup batch[s]
  /\ UNCHANGED <<send, handles, bag, seen, sendView, raced>>
  /\ UNCHANGED <<received, returned, dropped, told, phase>>

WakeReceiver(s) ==
  pc[s] = "wake" /\ pc' \in WakeOne(Receivers, [pc EXCEPT ![s] = "idle"]) /\ OnlyMoves

(* One turn of send's polling loop. *)
SpinSend(s) ==
  /\ pc[s] = "spin"
  /\ send' = IF spin[s] = 0 THEN With(send, "SLEEPING") ELSE send
  /\ \/ Poll(s, send', send'.slots # Slots, "reserve")
     \/ send'.slots = Slots /\ Dead(send') /\ Refuse(s)
  /\ UNCHANGED <<recv, handles, bag, views, phase>>

(* futex wait on send, whose word must still be the one just polled: all   *)
(* slots reserved, SLEEPING on, not disconnected.                          *)
SleepSend(s) ==
  LET expected == [slots |-> Slots, flags |-> {"SLEEPING"}]
  IN  pc[s] = "sleep" /\ Goto(s, IF Blocks(send, expected) THEN "asleep" ELSE "torch") /\ OnlyMoves

PassTorchSend(s) ==
  /\ pc[s] = "torch" /\ Goto(s, "reserve")
  /\ send' = WithTorch(send)
  /\ UNCHANGED <<locals, recv, handles, bag, views, fates, phase>>

(* Mutant: the count is taken for a bias as it is. *)
BiasOfCount(n) == (n * Stride) % CountRange

(* The bias of the clone that finds n senders: the product wraps around,   *)
(* or panics where overflow is checked.                                    *)
BiasOf(n) == ((n * Stride) % CountRange) % N

(* Sender::clone: the handle t comes into being with a bias of its own. *)
CloneSender(s, t) ==
  /\ pc[s] = "idle" /\ pc[t] = "unborn"
  /\ numSenders' = OneMore(numSenders)
  /\ IF numSenders > HandleLimit
     THEN Goto(s, "abortClone") /\ UNCHANGED bias
     ELSE Goto(t, "idle") /\ bias' = [bias EXCEPT ![t] = BiasOf(numSenders)]
  /\ UNCHANGED <<blocking, spin, retry, batch, mine, work, words, numReceivers, handle, bag>>
  /\ UNCHANGED <<views, fates, phase>>

(* Sender::drop, once no thread shares the handle any more. *)
DropSender(s) ==
  /\ pc[s] = "idle" /\ ~Shared(s)
  /\ numSenders' = OneLess(numSenders)
  /\ Goto(s, IF OthersLeft(numSenders) THEN "dead" ELSE "hangup")
  /\ UNCHANGED <<locals, words, numReceivers, handle, bag, views, fates, phase>>

(* The last sender: recv.fetch_and(!COUNTERPARTY_DEAD) turns the flag on. *)
HangUpSenders(s) ==
  /\ pc[s] = "hangup"
  /\ recv' = With(recv, "COUNTERPARTY_DEAD")
  /\ Goto(s, IF Sleeping(recv) THEN "hangupWake" ELSE "dead")
  /\ UNCHANGED <<locals, send, handles, bag, views, fates, phase>>

WakeAllReceivers(s) ==
  pc[s] = "hangupWake" /\ pc' = WakeAll(Receivers, [pc EXCEPT ![s] = "dead"]) /\ OnlyMoves
-----------------------------------------------------------------------------
(* Receiver::recv (b) and Receiver::try_recv (~b) *)
CallRecv(r, b) ==
  /\ pc[r] = "idle" /\ Goto(r, "claim")
  /\ blocking' = [blocking EXCEPT ![r] = b]
  /\ UNCHANGED <<spin, bias, retry, batch, mine, work, words, handles, bag, views, fates, phase>>

(* Mutant: the claimed slots stay committed. *)
KeepSlots(w) == w

(* recv.fetch_and(Status::all(), Acquire): the slots go, the flags stay. *)
AfterClaim(w) == [w EXCEPT !.slots = {}]

Claim(r) ==
  /\ pc[r] = "claim"
  /\ recv' = AfterClaim(recv)
  /\ seen' = Acquired(r, recv.slots \cap recvView)
  /\ \/ recv.slots = {} /\ Dead(recv) /\ TellGone(r)
     \/ /\ recv.slots = {} /\ ~Dead(recv) /\ UNCHANGED fates
        /\ IF blocking[r] THEN Goto(r, "spin") /\ UNCHANGED locals ELSE Goto(r, "idle") /\ Leave(r)
     \/ /\ recv.slots # {} /\ Goto(r, "read")
        /\ mine' = [mine EXCEPT ![r] = recv.slots] /\ work' = [work EXCEPT ![r] = recv.slots]
        /\ UNCHANGED <<blocking, spin, bias, retry, batch, fates>>
  /\ UNCHANGED <<send, handles, bag, sendView, recvView, raced, phase>>

(* One turn of drain_mask in try_recv: ptr::read moves the value out. *)
ReadSlot(r) ==
  /\ pc[r] = "read"
  /\ \E i \in {NextOf(work[r])} :
       /\ AccessSlot(r, i)
       /\ batch' = [batch EXCEPT ![r] = @ \cup {bag[i]}]
       /\ bag' = [bag EXCEPT ![i] = Uninit]
       /\ work' = [work EXCEPT ![r] = @ \ {i}]
  /\ Goto(r, IF work'[r] = {} THEN "free" ELSE "read")
  /\ UNCHANGED <<blocking, spin, bias, retry, mine, words, handles, fates, phase>>

(* Mutant: the x86 swap is used whatever slots were claimed. *)
SwapAlways(w, freed) == [slots |-> {}, flags |-> {}]

(* send.fetch_and(commit): the operand has neither the claimed slots nor   *)
(* the flags.                                                              *)
AfterFree(w, freed) == [slots |-> w.slots \ freed, flags |-> {}]

(* fence(Release), then the relaxed fetch_and. *)
FreeSlots(r) ==
  /\ pc[r] = "free"
  /\ send' = AfterFree(send, mine[r])
  /\ sendView' = Released(r, sendView)
  /\ received' = received \cup batch[r]
  /\ Goto(r, IF Sleeping(send) THEN "wake" ELSE "idle") /\ Leave(r)
  /\ UNCHANGED <<recv, handles, bag, seen, recvView, raced, unsent, returned, dropped, told, phase>>

WakeSender(r) ==
  pc[r] = "wake" /\ pc' \in WakeOne(Senders, [pc EXCEPT ![r] = "idle"]) /\ OnlyMoves

(* One turn of recv's polling loop. *)
SpinRecv(r) ==
  /\ pc[r] = "spin"
  /\ recv' = IF spin[r] = 0 THEN With(recv, "SLEEPING") ELSE recv
  /\ \/ Poll(r, recv', recv'.slots # {}, "claim")
     \/ recv'.slots = {} /\ Dead(recv') /\ TellGone(r)
  /\ UNCHANGED <<send, handles, bag, views, phase>>

(* futex wait on recv: nothing committed, SLEEPING on, not disconnected. *)
SleepRecv(r) ==
  LET expected == [slots |-> {}, flags |-> {"SLEEPING"}]
  IN  pc[r] = "sleep" /\ Goto(r, IF Blocks(recv, expected) THEN "asleep" ELSE "torch") /\ OnlyMoves

PassTorchRecv(r) ==
  /\ pc[r] = "torch" /\ Goto(r, "claim")
  /\ recv' = WithTorch(recv)
  /\ UNCHANGED <<locals, send, handles, bag, views, fates, phase>>

(* Receiver::clone: the handle t comes into being. *)
CloneReceiver(r, t) ==
  /\ pc[r] = "idle" /\ pc[t] = "unborn"
  /\ numReceivers' = OneMore(numReceivers)
  /\ IF numReceivers > HandleLimit THEN Goto(r, "abortClone") ELSE Goto(t, "idle")
  /\ UNCHANGED <<locals, words, numSenders, handle, bag, views, fates, phase>>

(* Receiver::drop, once no thread shares the handle any more. *)
DropReceiver(r) ==
  /\ pc[r] = "idle" /\ ~Shared(r)
  /\ numReceivers' = OneLess(numReceivers)
  /\ Goto(r, IF OthersLeft(numReceivers) THEN "dead" ELSE "hangup")
  /\ UNCHANGED <<locals, words, numSenders, handle, bag, views, fates, phase>>

(* The last receiver: send.fetch_or(COUNTERPARTY_DEAD). *)
HangUpReceivers(r) ==
  /\ pc[r] = "hangup"
  /\ send' = With(send, "COUNTERPARTY_DEAD")
  /\ Goto(r, IF Sleeping(send) THEN "hangupWake" ELSE "dead")
  /\ UNCHANGED <<locals, recv, handles, bag, views, fates, phase>>

WakeAllSenders(r) ==
  pc[r] = "hangupWake" /\ pc' = WakeAll(Senders, [pc EXCEPT ![r] = "dead"]) /\ OnlyMoves
-----------------------------------------------------------------------------
(* The thread u gets a reference to the handle of t, and lets go of it     *)
(* while others still have one.                                            *)
Share(t, u) ==
  /\ pc[t] = "idle" /\ pc[u] = "unborn" /\ Goto(u, "idle")
  /\ handle' = [handle EXCEPT ![u] = handle[t]]
  /\ UNCHANGED <<locals, words, numSenders, numReceivers, bag, views, fates, phase>>

Unshare(t) == pc[t] = "idle" /\ Shared(t) /\ Goto(t, "dead") /\ OnlyMoves

(* A futex wait may end without a wake (EINTR, or a spurious return). *)
Interrupt(t) == pc[t] = "asleep" /\ Goto(t, "torch") /\ OnlyMoves

(* Inner::drop, by whichever handle lets go of the Arc last.  The drop of  *)
(* the k-th value panics unless there are no more than k: the others leak. *)
Teardown(k) ==
  LET drained == Lowest(recv.slots, k)
  IN  /\ \A t \in Threads : pc[t] \in {"dead", "unborn"}
      /\ dropped' = dropped \cup {bag[i] : i \in drained}
      /\ bag' = [i \in Slots |-> IF i \in drained THEN Uninit ELSE bag[i]]
      /\ phase' = "freed"
      /\ UNCHANGED <<pc, locals, words, handles, views, unsent, received, returned, told>>

(* abort_with_message *)
Abort(t) == /\ pc[t] = "abortClone" /\ phase' = "aborted"
            /\ UNCHANGED <<pc, locals, words, handles, bag, views, fates>>

SenderStep(s) == \/ Reserve(s) \/ WriteSlot(s) \/ Commit(s) \/ WakeReceiver(s)
                 \/ SpinSend(s) \/ SleepSend(s) \/ PassTorchSend(s)
                 \/ HangUpSenders(s) \/ WakeAllReceivers(s) \/ Abort(s)

ReceiverStep(r) == \/ Claim(r) \/ ReadSlot(r) \/ FreeSlots(r) \/ WakeSender(r)
                   \/ SpinRecv(r) \/ SleepRecv(r) \/ PassTorchRecv(r)
                   \/ HangUpReceivers(r) \/ WakeAllSenders(r) \/ Abort(r)

(* The calls the program that uses the bag decides to make. *)
UserStep == \/ \E s \in Senders, k \in 1..MaxItems, b \in BOOLEAN : CallSend(s, k, b)
            \/ \E s \in Senders, t \in Senders \ Borrowers : CloneSender(s, t)
            \/ \E s \in Senders, t \in Senders \cap Borrowers : Share(s, t)
            \/ \E s \in Senders : DropSender(s)
            \/ \E r \in Receivers, b \in BOOLEAN : CallRecv(r, b)
            \/ \E r \in Receivers, t \in Receivers \ Borrowers : CloneReceiver(r, t)
            \/ \E r \in Receivers, t \in Receivers \cap Borrowers : Share(r, t)
            \/ \E r \in Receivers : DropReceiver(r)
            \/ \E t \in Threads : Unshare(t)

Finished == phase # "open" /\ UNCHANGED vars

Next == \/ /\ phase = "open"
           /\ \/ \E s \in Senders : SenderStep(s)
              \/ \E r \in Receivers : ReceiverStep(r)
              \/ UserStep
              \/ \E t \in Threads : Interrupt(t)
              \/ \E k \in 1..N : Teardown(k)
        \/ Finished

Spec == Init /\ [][Next]_vars

(* Threads keep being scheduled, and every consumer calls recv or try_recv *)
(* again as long as it holds its handle, as the loops of the tests do.     *)
FairSpec == /\ Spec
            /\ \A s \in Senders : WF_vars(phase = "open" /\ SenderStep(s))
            /\ \A r \in Receivers : WF_vars(phase = "open" /\ ReceiverStep(r))
            /\ \A r \in Receivers :
                 WF_vars(phase = "open" /\ \E b \in BOOLEAN : CallRecv(r, b))
-----------------------------------------------------------------------------
SendLocations == {"reserve", "write", "commit"}
RecvLocations == {"claim", "read", "free"}
CallLocations == {"wake", "spin", "sleep", "asleep", "torch"}
Locations == SendLocations \cup RecvLocations \cup CallLocations
               \cup {"unborn", "idle", "hangup", "hangupWake", "dead", "abortClone"}

Word == [slots : SUBSET Slots, flags : SUBSET Status]

(* Type invariant of the bag's words and of the threads' locals. *)
TypeOK ==
  /\ pc \in [Threads -> Locations]
  /\ \A s \in Senders : pc[s] \notin RecvLocations
  /\ \A r \in Receivers : pc[r] \notin SendLocations
  /\ blocking \in [Threads -> BOOLEAN] /\ spin \in [Threads -> 0..Spins]
  /\ bias \in [Threads -> Slots] /\ handle \in [Threads -> Threads]
  /\ retry \in [Threads -> SUBSET Slots] /\ batch \in [Threads -> SUBSET Msgs]
  /\ mine \in [Threads -> SUBSET Slots] /\ work \in [Threads -> SUBSET Slots]
  /\ send \in Word /\ recv \in Word
  /\ numSenders \in 0..(CountRange - 1) /\ numReceivers \in 0..(CountRange - 1)
  /\ bag \in [Slots -> Msgs \cup {Uninit}]
  /\ seen \in [Slots -> SUBSET Threads]
  /\ sendView \in SUBSET Slots /\ recvView \in SUBSET Slots /\ raced \in BOOLEAN
  /\ unsent \in SUBSET Msgs /\ received \in SUBSET Msgs /\ returned \in SUBSET Msgs
  /\ dropped \in SUBSET Msgs /\ told \in BOOLEAN /\ phase \in {"open", "freed", "aborted"}

(* No data race on any element of the bag: each access happens after the   *)
(* previous one by the fences and orderings of the code (mpmc.rs:298-315   *)
(* and 440-476).                                                           *)
RaceFree == ~raced

(* Every message is at every moment in exactly one place, so it is neither *)
(* duplicated nor lost: with its sender, in the buffer of a call, in the   *)
(* bag, received, handed back in an Err, or dropped by Inner::drop.        *)
(* Moved-out memory is never returned or dropped.                          *)
ExactlyOnce ==
  /\ \A m \in Msgs :
       LET places == <<m \in unsent, m \in received, m \in returned, m \in dropped>>
       IN  Cardinality({t \in Threads : m \in batch[t]}) + Cardinality({i \in Slots : bag[i] = m})
             + Cardinality({p \in DOMAIN places : places[p]}) = 1
  /\ Uninit \notin received \cup dropped

(* Every reserved slot has exactly one owner while the receivers live, so  *)
(* no slot leaks and two threads never drain the same one: a sender that   *)
(* got it, the committed set, or a receiver that claimed it.               *)
SlotsPartitioned ==
  /\ \A t, u \in Threads : t # u => mine[t] \cap mine[u] = {}
  /\ \A t \in Threads : mine[t] \cap recv.slots = {}
  /\ ~Dead(send) => send.slots = recv.slots \cup UNION {mine[t] : t \in Threads}

(* The wake-up protocol forgets no sleeper while both sides live: it is    *)
(* being woken, a woken thread of its side has the torch, or the SLEEPING  *)
(* flag is up and the wake is still to come.  For a receiver that is the   *)
(* next commit, or another receiver that is about to claim what there is.  *)
(* For a sender it is the next time a slot is freed: some slot is          *)
(* reserved, or a sender that saw a free one is about to reserve it.  A    *)
(* sender may well sleep while slots are free: a receive frees many slots  *)
(* and wakes one sender, which announces the others but does not wake them.*)
NoSleeperForgotten ==
  /\ ~Dead(recv) /\ Asleep(Receivers) # {} =>
       \/ \E s \in Senders : pc[s] = "wake"
       \/ \E r \in Receivers : pc[r] = "torch"
       \/ Sleeping(recv) /\ (recv.slots = {} \/ \E r \in Receivers : pc[r] = "claim")
  /\ ~Dead(send) /\ Asleep(Senders) # {} =>
       \/ \E r \in Receivers : pc[r] = "wake"
       \/ \E s \in Senders : pc[s] = "torch"
       \/ Sleeping(send) /\ (send.slots # {} \/ \E s \in Senders : pc[s] = "reserve")

(* A sender never takes more slots than it has items (mpmc.rs:296): take() *)
(* unwraps unchecked.  Every retry asks for some free slot.                *)
RequestsFitOffer ==
  \A s \in Senders :
    /\ pc[s] = "write" => Cardinality(work[s]) <= Cardinality(batch[s])
    /\ pc[s] = "reserve" => Request(s) # {} /\ Cardinality(Request(s)) <= Cardinality(batch[s])

(* A side is hung up when and only when its last handle is gone, however   *)
(* clones, drops and aborting clones interleave (mpmc.rs:331-334, 359-366  *)
(* and 490-515): nobody is told of a hang-up too early or never.           *)
GoneOnlyIf(S, w) == Dead(w) => \A t \in S : pc[t] \in {"unborn", "hangupWake", "dead"}
GoneIf(S, w) == (\A t \in S : pc[t] \in {"unborn", "hangupWake", "dead"}) => Dead(w)

HangUpByTheLast == /\ GoneOnlyIf(Senders, recv) /\ GoneIf(Senders, recv)
                   /\ GoneOnlyIf(Receivers, send) /\ GoneIf(Receivers, send)

(* What a thread has in its hands follows from where it is: slots while it *)
(* writes, commits, reads or frees, values from the time it reads or until *)
(* it has written them, and a next request only while it reserves.         *)
Busy == {"write", "commit", "read", "free"}
Offering == {"reserve", "spin", "sleep", "asleep", "torch"}

Duties ==
  /\ \A t \in Threads : /\ mine[t] # {} <=> pc[t] \in Busy
                        /\ work[t] # {} <=> pc[t] \in {"write", "read"}
                        /\ work[t] \subseteq mine[t]
  /\ \A r \in Receivers : batch[r] # {} => pc[r] \in {"read", "free"}
  /\ \A s \in Senders :
       /\ batch[s] # {} => pc[s] \in Offering \cup SendLocations
       /\ pc[s] \in Offering => batch[s] # {}
       /\ pc[s] = "write" => Cardinality(work[s]) <= Cardinality(batch[s])
       /\ retry[s] # {} => pc[s] = "reserve" /\ Cardinality(retry[s]) <= Cardinality(batch[s])
       /\ \A m \in batch[s] : m[1] = s

(* num_senders and num_receivers count the handles of the threads that     *)
(* hold one, and the clones that are about to abort; the last to let go    *)
(* of a handle hangs up, after which nobody else of its side is left.      *)
Holding(S) == {t \in S : pc[t] \notin {"unborn", "hangup", "hangupWake", "dead"}}
HandlesOf(S) == {handle[t] : t \in Holding(S)}
AbortingOf(S) == {t \in S : pc[t] = "abortClone"}

Counted(S, count) ==
  /\ \A t \in S : handle[t] \in S
  /\ Cardinality(HandlesOf(S)) <= HandleLimit + 1
  /\ count = (Cardinality(HandlesOf(S)) + Cardinality(AbortingOf(S))) % CountRange

Announced(S, w) ==
  /\ \A t \in S : pc[t] = "hangup" => \A u \in S \ {t} : pc[u] \in {"unborn", "dead"}
  /\ \A t \in S : pc[t] = "hangupWake" => Dead(w)
  /\ GoneOnlyIf(S, w) /\ GoneIf(S, w)

HandlesInv ==
  /\ \A t \in Threads \ Borrowers : handle[t] = t
  /\ \A t \in Threads : pc[handle[t]] = "unborn" => handle[t] = t
  /\ Counted(Senders, numSenders) /\ Counted(Receivers, numReceivers)
  /\ Announced(Senders, recv) /\ Announced(Receivers, send)

(* The slots that own a value: the committed ones, those a sender has      *)
(* written and those a receiver has still to read.                         *)
Filled(i) == \/ i \in recv.slots
             \/ \E s \in Senders : i \in mine[s] \ work[s]
             \/ \E r \in Receivers : i \in work[r]

Contents == /\ \A i \in Slots : bag[i] # Uninit => Filled(i)
            /\ phase # "freed" => \A i \in Slots : Filled(i) => bag[i] # Uninit

(* The right to touch a slot travels with a view of its latest access.     *)
Visibility ==
  /\ ~raced
  /\ \A t \in Threads : \A i \in mine[t] : t \in seen[i]
  /\ recv.slots \subseteq recvView
  /\ ~Dead(send) => \A i \in Slots \ send.slots : i \in sendView \/ seen[i] = Threads

(* The inductive strengthening of the invariants above. *)
MpmcInvariant == /\ Duties /\ HandlesInv /\ SlotsPartitioned /\ Contents /\ Visibility
                 /\ NoSleeperForgotten

(* A hang-up is never undone: both flags survive every swap and mask. *)
HangUpsKept == (Dead(recv) => Dead(recv)') /\ (Dead(send) => Dead(send)')

HangUpsAreFinal == [][HangUpsKept]_vars

(* The contract: reserving slots accepts messages, fetch_and on recv       *)
(* claims them and fetch_and on send delivers them.                        *)
Committed == {bag[i] : i \in recv.slots} \ {Uninit}
Outgoing(s) == {bag[i] : i \in mine[s] \ work[s]} \cup Popped(batch[s], Cardinality(work[s]))
Incoming(r) == batch[r] \cup {bag[i] : i \in work[r]}

Held == Committed \cup UNION {Outgoing(s) : s \in Senders}
Leaving == UNION {Incoming(r) : r \in Receivers}

Channel == INSTANCE Bag WITH
  Capacity <- N, held <- Held, leaving <- Leaving, taken <- received, refused <- returned,
  lost <- dropped, sendersGone <- Dead(recv), receiversGone <- Dead(send)

ImplementsBag == Channel!Spec

(* What has been committed is received, as long as receivers are left.     *)
CommittedIsReceived ==
  \A m \in Msgs : m \in Committed ~> m \notin Committed \/ Dead(send) \/ phase = "aborted"

(* As long as there are receivers that receive, every send returns; in     *)
(* particular no sender sleeps for ever.                                   *)
SendReturns ==
  [](numReceivers > 0) =>
    \A s \in Senders :
      pc[s] \in SendLocations \cup CallLocations ~> pc[s] = "idle" \/ phase = "aborted"

(* A receiver that is the only one is never left asleep: its recv returns  *)
(* once something is committed or the senders are gone (mpmc.rs:320-322    *)
(* and 363-368).                                                           *)
LoneReaderIsWoken ==
  \A r \in Receivers :
    Receivers = {r} /\ pc[r] = "asleep" /\ (recv.slots # {} \/ Dead(recv))
      ~> pc[r] = "idle" \/ phase = "aborted"

(* take_one_down_pass_it_around and its like expect every reader's recv to *)
(* end once the senders are gone.                                          *)
EveryReaderIsTold ==
  \A r \in Receivers :
    pc[r] = "asleep" /\ Dead(recv) ~> pc[r] # "asleep" \/ phase = "aborted"
==============================================================================
