-------------------------------- MODULE Slot ---------------------------------
(***************************************************************************)
(* bags/src/slot.rs: the single-slot, multi-producer single-consumer       *)
(* channel behind mpsc_slot().                                             *)
(*                                                                         *)
(* Every atomic instruction, every access to the UnsafeCell and every      *)
(* futex call is a step of its own, so that all interleavings of the       *)
(* threads are explored.  A thread is identified with the handle it owns.  *)
(* Atomic words are the sets of flags they hold; `send` also carries the   *)
(* reservation count of its low bits.                                      *)
(*                                                                         *)
(* Memory orderings are modelled by what they publish.  Since every access *)
(* to the slot must happen after the previous one, it is enough to know    *)
(* which threads' views contain the latest access (seen) and which words   *)
(* carry that view in their release sequence (sendView, recvView).         *)
(***************************************************************************)
EXTENDS Naturals, FiniteSets

CONSTANTS
  Senders,      \* the Sender handles that may ever exist
  Receiver,     \* the only Receiver handle
  Uninit,       \* the content of MaybeUninit memory that holds no value
  MaxSends,     \* bound: the calls of send and try_send each handle makes
  Spins,        \* how often the blocking calls poll before they sleep (32)
  X86,          \* TRUE: 64-bit word and fetch_add; FALSE: 32-bit and fetch_or
  HalfRange,    \* x86: the futex does not see reservations below it (2^32)
  AbortAt,      \* x86: SendStatus::ABORT (2^61)
  HandleLimit   \* u32::MAX / 2

Threads == Senders \cup {Receiver}
Msgs == Senders \X (1..MaxSends)

ASSUME SlotAssumption ==
  /\ Senders # {} /\ IsFiniteSet(Senders)
  /\ Receiver \notin Senders
  /\ Uninit \notin Senders \X Nat
  /\ MaxSends \in Nat /\ Spins \in Nat
  /\ X86 \in BOOLEAN
  /\ HalfRange \in Nat \ {0}
  /\ AbortAt \in Nat /\ HandleLimit \in Nat

VARIABLES
  pc,          \* what each thread does next
  blocking,    \* the current call is send/recv rather than try_send/try_recv
  spin,        \* polls left before the thread announces that it will sleep
  expected,    \* the value of the send word a sender is going to sleep on
  calls,       \* the calls a handle has made; names its current message
  send,        \* Inner::send
  recv,        \* Inner::recv
  numSenders,  \* Inner::num_senders
  slot,        \* Inner::slot: the value it owns, or Uninit
  value,       \* the value try_recv has read and not yet returned
  seen,        \* threads whose view contains the latest access to slot
  sendView,    \* the release sequence of send carries that access
  recvView,    \* the release sequence of recv carries that access
  raced,       \* an access to slot was not ordered after the previous one
  received,    \* messages returned by recv and try_recv
  returned,    \* messages handed back in an Err
  dropped,     \* messages dropped by Inner::drop
  told,        \* a receive has returned Disconnected
  phase        \* "open", "freed" (Inner is dropped) or "aborted"

locals == <<blocking, spin, expected, calls>>
words == <<send, recv, numSenders>>
cell == <<slot, value>>
views == <<seen, sendView, recvView, raced>>
fates == <<received, returned, dropped, told>>
vars == <<pc, locals, words, cell, views, fates, phase>>
-----------------------------------------------------------------------------
SendFlags == {"RECEIVER_DEAD", "SLEEPING"}
RecvFlags == {"COMMIT", "SLEEPING", "SENDER_DEAD"}
EmptySend == [flags |-> {}, res |-> 0]

(* The part of the send word the futex compares: its high half on x86. *)
FutexWord(w) == IF X86 THEN [w EXCEPT !.res = @ \div HalfRange] ELSE w

(* Mutant: the reservation is looked at but not taken. *)
MissingReservation(w) == w

(* One more reservation: xadd counts them, fetch_or(1) keeps a single bit. *)
AddReservation(w) == [w EXCEPT !.res = IF X86 THEN @ + 1 ELSE 1]

(* Mutant: the check leaves no room below the status bits. *)
LateReservationCheck(w) == X86 /\ w.res > 2 * AbortAt

(* try_send refuses to continue when the count could reach the status bits. *)
TooManyReservations(w) == X86 /\ w.res > AbortAt

WithSleeping(w) == [w EXCEPT !.flags = @ \cup {"SLEEPING"}]

(* Mutant: the woken sender does not pass the torch. *)
WithoutTorch(w) == w

(* "Pass the torch": a woken sender notes that others may still sleep. *)
WithTorch(w) == WithSleeping(w)

(* Mutant: the caller sleeps whatever the word has become. *)
BlocksAlways(word, wanted) == TRUE

(* futex wait blocks on the expected word only. *)
Blocks(word, wanted) == word = wanted

(* Mutant: the last sender but one hangs up. *)
OthersLeftEarly(n) == n > 2

(* What fetch_sub tells a sender that is dropped. *)
OthersLeft(n) == n > 1

Msg(s) == <<s, calls[s]>>

Goto(t, loc) == pc' = [pc EXCEPT ![t] = loc]

(* A step that changes nothing but where the threads are. *)
OnlyMoves == UNCHANGED <<locals, words, cell, views, fates, phase>>

(* Leave the current call. *)
Leave(t) == /\ blocking' = [blocking EXCEPT ![t] = FALSE]
            /\ spin' = [spin EXCEPT ![t] = Spins]
            /\ UNCHANGED <<expected, calls>>

(* Return Err, which carries the message back to the caller. *)
Refuse(s) == /\ Goto(s, "idle") /\ Leave(s)
             /\ returned' = returned \cup {Msg(s)}
             /\ UNCHANGED <<received, dropped, told>>

(* futex wake of at most one waiter, and of all of them, as seen by the    *)
(* threads: those blocked in futex wait continue at `after`.  No order is  *)
(* promised among the waiters.                                             *)
WakeOne(waiters, after, f) ==
  IF waiters = {} THEN {f} ELSE {[f EXCEPT ![w] = after] : w \in waiters}
WakeAll(waiters, after, f) == [t \in DOMAIN f |-> IF t \in waiters THEN after ELSE f[t]]

SleepingSenders == {s \in Senders : pc[s] = "asleep"}
SleepingReceiver == {t \in {Receiver} : pc[t] = "asleep"}

(* A non-atomic access to the slot by t. *)
AccessSlot(t) == /\ raced' = (raced \/ t \notin seen) /\ seen' = {t}
                 /\ sendView' = FALSE /\ recvView' = FALSE
-----------------------------------------------------------------------------
(* mpsc(): the slot is uninitialised, one sender handle exists, and the    *)
(* constructor's writes are visible to whoever receives a handle.          *)
Init ==
  /\ \E first \in Senders :
       pc = [t \in Threads |-> IF t \in {first, Receiver} THEN "idle" ELSE "unborn"]
  /\ blocking = [t \in Threads |-> FALSE] /\ spin = [t \in Threads |-> Spins]
  /\ expected = [s \in Senders |-> EmptySend] /\ calls = [s \in Senders |-> 0]
  /\ send = EmptySend /\ recv = {} /\ numSenders = 1
  /\ slot = Uninit /\ value = Uninit
  /\ seen = Threads /\ sendView = FALSE /\ recvView = FALSE /\ raced = FALSE
  /\ received = {} /\ returned = {} /\ dropped = {} /\ told = FALSE
  /\ phase = "open"
-----------------------------------------------------------------------------
(* Sender::send (b) and Sender::try_send (~b) are called with a new message. *)
CallSend(s, b) ==
  /\ pc[s] = "idle" /\ calls[s] < MaxSends /\ Goto(s, "reserve")
  /\ calls' = [calls EXCEPT ![s] = @ + 1]
  /\ blocking' = [blocking EXCEPT ![s] = b]
  /\ UNCHANGED <<spin, expected, words, cell, views, fates, phase>>

(* Mutant: no fence(Acquire). *)
NoAcquireFence(s) == seen

(* fence(Acquire): what the relaxed reservation has read becomes visible. *)
AcquireFence(s) == IF sendView THEN seen \cup {s} ELSE seen

(* try_send, first half: the reservation, the checks of the old word, and  *)
(* the fence in front of the write.                                        *)
Reserve(s) ==
  /\ pc[s] = "reserve"
  /\ send' = AddReservation(send)
  /\ \/ /\ TooManyReservations(send) /\ Goto(s, "abortSend")
        /\ UNCHANGED <<locals, fates, seen>>
     \/ /\ ~TooManyReservations(send)
        /\ "RECEIVER_DEAD" \in send.flags \/ (send.res > 0 /\ ~blocking[s])
        /\ Refuse(s) /\ UNCHANGED seen
     \/ /\ ~TooManyReservations(send) /\ "RECEIVER_DEAD" \notin send.flags
        /\ \/ send.res > 0 /\ blocking[s] /\ Goto(s, "spin") /\ UNCHANGED seen
           \/ send.res = 0 /\ Goto(s, "write") /\ seen' = AcquireFence(s)
        /\ UNCHANGED <<locals, fates>>
  /\ UNCHANGED <<recv, numSenders, cell, sendView, recvView, raced, phase>>

WriteSlot(s) ==
  /\ pc[s] = "write" /\ Goto(s, "commit")
  /\ AccessSlot(s)
  /\ slot' = Msg(s)
  /\ UNCHANGED <<locals, words, value, fates, phase>>

(* recv.swap(COMMIT, Release) *)
Commit(s) ==
  /\ pc[s] = "commit" /\ Goto(s, IF "SLEEPING" \in recv THEN "wake" ELSE "idle") /\ Leave(s)
  /\ recv' = {"COMMIT"}
  /\ recvView' = (recvView \/ s \in seen)
  /\ UNCHANGED <<send, numSenders, cell, seen, sendView, raced, fates, phase>>

(* atomic_wake(recv, 1), after which try_send returns Ok. *)
WakeReceiver(s) ==
  /\ pc[s] = "wake"
  /\ pc' \in WakeOne(SleepingReceiver, "poll", [pc EXCEPT ![s] = "idle"]) /\ OnlyMoves

(* One turn of send's polling loop, which has just read the word w: a free *)
(* slot means try again, a dead receiver means Err, a SLEEPING bit means   *)
(* that the thread may sleep on w.                                         *)
PollSlot(s, w) ==
  \/ /\ w.res = 0 /\ Goto(s, "reserve")
     /\ spin' = [spin EXCEPT ![s] = Spins]
     /\ UNCHANGED <<blocking, expected, calls, fates>>
  \/ w.res > 0 /\ "RECEIVER_DEAD" \in w.flags /\ Refuse(s)
  \/ /\ w.res > 0 /\ w.flags = {"SLEEPING"} /\ Goto(s, "sleep")
     /\ spin' = [spin EXCEPT ![s] = Spins]
     /\ expected' = [expected EXCEPT ![s] = FutexWord(w)]
     /\ UNCHANGED <<blocking, calls, fates>>
  \/ /\ w.res > 0 /\ w.flags = {} /\ UNCHANGED <<pc, blocking, expected, calls, fates>>
     /\ spin' = [spin EXCEPT ![s] = @ - 1]

SpinSend(s) ==
  /\ pc[s] = "spin"
  /\ send' = IF spin[s] = 0 THEN WithSleeping(send) ELSE send
  /\ PollSlot(s, send')
  /\ UNCHANGED <<recv, numSenders, cell, views, phase>>

(* futex wait: sleep if the word still is the expected one, else AGAIN. *)
SleepSend(s) ==
  /\ pc[s] = "sleep"
  /\ Goto(s, IF Blocks(FutexWord(send), expected[s]) THEN "asleep" ELSE "torch")
  /\ expected' = [expected EXCEPT ![s] = EmptySend]
  /\ UNCHANGED <<blocking, spin, calls, words, cell, views, fates, phase>>

PassTorch(s) ==
  /\ pc[s] = "torch" /\ Goto(s, "reserve")
  /\ send' = WithTorch(send)
  /\ UNCHANGED <<locals, recv, numSenders, cell, views, fates, phase>>

(* Sender::clone: the handle t comes into being. *)
CloneSender(s, t) ==
  /\ pc[s] = "idle" /\ pc[t] = "unborn"
  /\ numSenders' = numSenders + 1
  /\ IF numSenders > HandleLimit THEN Goto(s, "abortClone") ELSE Goto(t, "idle")
  /\ UNCHANGED <<locals, send, recv, cell, views, fates, phase>>

(* Sender::drop *)
DropSender(s) ==
  /\ pc[s] = "idle" /\ Goto(s, IF OthersLeft(numSenders) THEN "dead" ELSE "hangup")
  /\ numSenders' = numSenders - 1
  /\ UNCHANGED <<locals, send, recv, cell, views, fates, phase>>

HangUp(s) ==
  /\ pc[s] = "hangup" /\ Goto(s, IF "SLEEPING" \in recv THEN "hangupWake" ELSE "dead")
  /\ recv' = recv \cup {"SENDER_DEAD"}
  /\ UNCHANGED <<locals, send, numSenders, cell, views, fates, phase>>

HangUpWake(s) ==
  /\ pc[s] = "hangupWake"
  /\ pc' = WakeAll(SleepingReceiver, "poll", [pc EXCEPT ![s] = "dead"]) /\ OnlyMoves
-----------------------------------------------------------------------------
(* Receiver::recv (b) and Receiver::try_recv (~b) *)
CallRecv(b) ==
  /\ pc[Receiver] = "idle" /\ Goto(Receiver, "poll")
  /\ blocking' = [blocking EXCEPT ![Receiver] = b]
  /\ UNCHANGED <<spin, expected, calls, words, cell, views, fates, phase>>

(* try_recv's load(Acquire), and what recv does with an empty answer. *)
Poll ==
  /\ pc[Receiver] = "poll"
  /\ seen' = IF recvView THEN seen \cup {Receiver} ELSE seen
  /\ \/ "COMMIT" \in recv /\ Goto(Receiver, "take") /\ UNCHANGED <<locals, told>>
     \/ /\ "COMMIT" \notin recv /\ "SENDER_DEAD" \in recv
        /\ told' = TRUE
        /\ Goto(Receiver, "idle") /\ Leave(Receiver)
     \/ /\ "COMMIT" \notin recv /\ "SENDER_DEAD" \notin recv /\ UNCHANGED told
        /\ \/ ~blocking[Receiver] /\ Goto(Receiver, "idle") /\ Leave(Receiver)
           \/ /\ blocking[Receiver] /\ UNCHANGED <<blocking, expected, calls>>
              /\ IF spin[Receiver] > 0
                 THEN spin' = [spin EXCEPT ![Receiver] = @ - 1] /\ UNCHANGED pc
                 ELSE spin' = [spin EXCEPT ![Receiver] = Spins] /\ Goto(Receiver, "mark")
  /\ UNCHANGED <<words, cell, sendView, recvView, raced, received, returned, dropped, phase>>

(* recv.fetch_or(SLEEPING): sleep only if the word was entirely clear. *)
MarkSleeping ==
  /\ pc[Receiver] = "mark" /\ Goto(Receiver, IF recv = {} THEN "sleep" ELSE "poll")
  /\ recv' = recv \cup {"SLEEPING"}
  /\ UNCHANGED <<locals, send, numSenders, cell, views, fates, phase>>

(* futex wait on recv, whose word must still be exactly SLEEPING. *)
SleepRecv ==
  /\ pc[Receiver] = "sleep"
  /\ Goto(Receiver, IF Blocks(recv, {"SLEEPING"}) THEN "asleep" ELSE "poll") /\ OnlyMoves

(* Mutants: COMMIT is not consumed; the hang-up is consumed with it. *)
KeepCommit(r) == r
ConsumeAll(r) == {}

(* recv.fetch_and(SENDER_DEAD): consume COMMIT, keep the hang-up. *)
Consume(r) == r \cap {"SENDER_DEAD"}

Take ==
  /\ pc[Receiver] = "take" /\ Goto(Receiver, "read")
  /\ recv' = Consume(recv)
  /\ UNCHANGED <<locals, send, numSenders, cell, views, fates, phase>>

(* ptr::read moves the value out: what is left behind must not be used. *)
ReadSlot ==
  /\ pc[Receiver] = "read" /\ Goto(Receiver, "free")
  /\ AccessSlot(Receiver)
  /\ value' = slot /\ slot' = Uninit
  /\ UNCHANGED <<locals, words, fates, phase>>

(* Mutant: no fence(Release). *)
NoReleaseFence == sendView

(* fence(Release), then the relaxed swap that frees the slot. *)
FreeView == sendView \/ Receiver \in seen

FreeSlot ==
  /\ pc[Receiver] = "free"
  /\ Goto(Receiver, IF "SLEEPING" \in send.flags THEN "wake" ELSE "idle") /\ Leave(Receiver)
  /\ send' = EmptySend /\ sendView' = FreeView
  /\ received' = received \cup {value} /\ value' = Uninit
  /\ UNCHANGED <<recv, numSenders, slot, seen, recvView, raced, returned, dropped, told, phase>>

WakeSender ==
  /\ pc[Receiver] = "wake"
  /\ pc' \in WakeOne(SleepingSenders, "torch", [pc EXCEPT ![Receiver] = "idle"]) /\ OnlyMoves

(* Receiver::drop: the swap also wipes the reservations. *)
DropReceiver ==
  /\ pc[Receiver] = "idle"
  /\ Goto(Receiver, IF "SLEEPING" \in send.flags THEN "wakeAll" ELSE "dead")
  /\ send' = [flags |-> {"RECEIVER_DEAD"}, res |-> 0]
  /\ UNCHANGED <<locals, recv, numSenders, cell, views, fates, phase>>

WakeAllSenders ==
  /\ pc[Receiver] = "wakeAll"
  /\ pc' = WakeAll(SleepingSenders, "torch", [pc EXCEPT ![Receiver] = "dead"]) /\ OnlyMoves
-----------------------------------------------------------------------------
(* A futex wait may end without a wake (EINTR, or a spurious return). *)
Interrupt(t) ==
  pc[t] = "asleep" /\ Goto(t, IF t = Receiver THEN "poll" ELSE "torch") /\ OnlyMoves

(* Inner::drop, by whichever handle lets go of the Arc last. *)
Teardown ==
  /\ \A t \in Threads : pc[t] \in {"dead", "unborn"}
  /\ dropped' = IF "COMMIT" \in recv THEN dropped \cup {slot} ELSE dropped
  /\ slot' = Uninit
  /\ phase' = "freed"
  /\ UNCHANGED <<pc, locals, words, value, views, received, returned, told>>

(* abort_with_message *)
Abort(s) ==
  /\ pc[s] \in {"abortSend", "abortClone"} /\ phase' = "aborted"
  /\ UNCHANGED <<pc, locals, words, cell, views, fates>>

SenderStep(s) == \/ Reserve(s) \/ WriteSlot(s) \/ Commit(s) \/ WakeReceiver(s)
                 \/ SpinSend(s) \/ SleepSend(s) \/ PassTorch(s)
                 \/ HangUp(s) \/ HangUpWake(s) \/ Abort(s)

ReceiverStep == \/ Poll \/ MarkSleeping \/ SleepRecv \/ Take \/ ReadSlot \/ FreeSlot
                \/ WakeSender \/ WakeAllSenders

(* The calls the program that uses the channel decides to make. *)
UserStep == \/ \E s \in Senders, b \in BOOLEAN : CallSend(s, b)
            \/ \E s, t \in Senders : CloneSender(s, t)
            \/ \E s \in Senders : DropSender(s)
            \/ \E b \in BOOLEAN : CallRecv(b)
            \/ DropReceiver

Finished == phase # "open" /\ UNCHANGED vars

Next == \/ /\ phase = "open"
           /\ \/ \E s \in Senders : SenderStep(s)
              \/ ReceiverStep \/ UserStep \/ Teardown
              \/ \E t \in Threads : Interrupt(t)
        \/ Finished

Spec == Init /\ [][Next]_vars

(* Threads keep being scheduled.  Nothing obliges the program to make or   *)
(* stop making calls, except that the consumer calls recv or try_recv      *)
(* again as long as it holds its handle, as the loops of the tests do.     *)
FairSpec == /\ Spec
            /\ \A s \in Senders : WF_vars(phase = "open" /\ SenderStep(s))
            /\ WF_vars(phase = "open" /\ ReceiverStep)
            /\ WF_vars(phase = "open" /\ \E b \in BOOLEAN : CallRecv(b))
-----------------------------------------------------------------------------
Locations == {"unborn", "idle", "reserve", "write", "commit", "wake", "spin", "sleep",
              "asleep", "torch", "hangup", "hangupWake", "dead", "abortSend", "abortClone",
              "poll", "mark", "take", "read", "free", "wakeAll"}

(* Inside Sender::send and Sender::try_send. *)
SendLocations == {"reserve", "write", "commit", "wake", "spin", "sleep", "asleep", "torch"}

SendWord == [flags : SUBSET SendFlags, res : Nat]

(* Type invariant of the channel's words and of the threads' locals. *)
TypeOK ==
  /\ pc \in [Threads -> Locations]
  /\ blocking \in [Threads -> BOOLEAN] /\ spin \in [Threads -> 0..Spins]
  /\ expected \in [Senders -> SendWord] /\ calls \in [Senders -> 0..MaxSends]
  /\ send \in SendWord /\ recv \in SUBSET RecvFlags /\ numSenders \in Nat
  /\ slot \in Msgs \cup {Uninit} /\ value \in Msgs \cup {Uninit}
  /\ seen \in SUBSET Threads /\ sendView \in BOOLEAN /\ recvView \in BOOLEAN /\ raced \in BOOLEAN
  /\ received \in SUBSET Msgs /\ returned \in SUBSET Msgs /\ dropped \in SUBSET Msgs
  /\ told \in BOOLEAN /\ phase \in {"open", "freed", "aborted"}

(* No data race on the UnsafeCell: each access of try_send and try_recv    *)
(* happens after the previous one, by the fences and orderings of the code *)
(* alone (slot.rs:228-236 and 321-350).                                    *)
RaceFree == ~raced

(* m is still with the thread that called send or try_send with it. *)
InHand(m) == /\ m = Msg(m[1])
             /\ pc[m[1]] \in {"reserve", "write", "spin", "sleep", "asleep", "torch", "abortSend"}

(* A message that was handed to the channel is at every moment in exactly  *)
(* one place, so it is dropped neither twice nor never: with its sender,   *)
(* in the slot, being returned by try_recv, received, handed back in an    *)
(* Err, or dropped by Inner::drop.  Moved-out memory is never returned.    *)
ExactlyOnce ==
  /\ \A m \in Msgs :
       LET places == <<InHand(m), slot = m, value = m, m \in received, m \in returned,
                       m \in dropped>>
       IN  Cardinality({i \in DOMAIN places : places[i]})
             = IF m[2] <= calls[m[1]] THEN 1 ELSE 0
  /\ Uninit \notin received \cup dropped

(* The wake-up protocol never forgets a sleeper while both sides live.     *)
(* Whoever sleeps in recv sees the word it slept on, or is being woken.    *)
(* Whoever sleeps in send is being woken, or a woken sender has the torch, *)
(* or the SLEEPING bit is up and the slot is going to be freed again: it   *)
(* is reserved, or a sender that saw it free is on its way to reserve it.  *)
NoSleeperForgotten ==
  /\ pc[Receiver] = "asleep" =>
       recv = {"SLEEPING"} \/ \E s \in Senders : pc[s] \in {"wake", "hangupWake"}
  /\ "RECEIVER_DEAD" \notin send.flags /\ SleepingSenders # {} =>
       \/ pc[Receiver] = "wake"
       \/ \E s \in Senders : pc[s] = "torch"
       \/ /\ "SLEEPING" \in send.flags
          /\ send.res > 0 \/ \E s \in Senders : pc[s] = "reserve"

Writers == {s \in Senders : pc[s] \in {"write", "commit"}}
Reading == pc[Receiver] \in {"read", "free"}
SlotFree == send.res = 0 /\ "RECEIVER_DEAD" \notin send.flags

(* Who may touch the slot: at most one of a sender that reserved it, the   *)
(* COMMIT bit, and the receiver that consumed COMMIT; nobody while it is   *)
(* free, somebody while it is reserved.                                    *)
Ownership ==
  /\ \A s, t \in Writers : s = t
  /\ Writers # {} => "COMMIT" \notin recv /\ ~Reading
  /\ "COMMIT" \in recv => ~Reading
  /\ pc[Receiver] = "take" => "COMMIT" \in recv
  /\ SlotFree => Writers = {} /\ "COMMIT" \notin recv /\ ~Reading
  /\ send.res > 0 => \/ Writers # {} \/ "COMMIT" \in recv \/ Reading
                     \/ "RECEIVER_DEAD" \in send.flags
  /\ "RECEIVER_DEAD" \in send.flags <=> pc[Receiver] \in {"wakeAll", "dead"}
  /\ pc[Receiver] # "unborn"

(* The right to touch the slot travels with a view of its latest access.   *)
Visibility ==
  /\ ~raced
  /\ Writers \subseteq seen
  /\ "COMMIT" \in recv => recvView
  /\ pc[Receiver] = "take" \/ Reading => Receiver \in seen
  /\ SlotFree => sendView \/ seen = Threads

(* The slot holds a value from the write until the read moves it out, and  *)
(* at no other time.                                                       *)
Contents ==
  /\ \A s \in Senders : pc[s] \in SendLocations => calls[s] > 0
  /\ \A s \in Senders : pc[s] = "commit" => slot = Msg(s)
  /\ "COMMIT" \in recv /\ phase # "freed" => slot # Uninit
  /\ pc[Receiver] = "read" => slot # Uninit
  /\ pc[Receiver] = "free" <=> value # Uninit
  /\ slot # Uninit => \/ "COMMIT" \in recv \/ pc[Receiver] = "read"
                      \/ \E s \in Senders : pc[s] = "commit"

(* num_senders counts the handles, and the clones that are about to abort; *)
(* once the last handle hangs up, no sender is left to disturb recv, and   *)
(* none goes without hanging up.                                           *)
Live == {s \in Senders : pc[s] \notin {"unborn", "dead", "hangup", "hangupWake"}}
Aborting == {s \in Senders : pc[s] = "abortClone"}

HandleCount ==
  /\ numSenders = Cardinality(Live) + Cardinality(Aborting)
  /\ \A s \in Senders : pc[s] = "hangup" =>
       \A t \in Senders \ {s} : pc[t] \in {"unborn", "dead"}
  /\ \A s \in Senders : pc[s] = "hangupWake" => "SENDER_DEAD" \in recv
  /\ "SENDER_DEAD" \in recv =>
       \A s \in Senders : pc[s] \in {"unborn", "dead", "hangupWake"}
  /\ (\A s \in Senders : pc[s] \in {"unborn", "dead"}) => "SENDER_DEAD" \in recv

(* What keeps every sleeper of a live channel reachable by a wake.         *)
Wakeable ==
  /\ \A s \in Senders : pc[s] = "sleep" => expected[s].flags = {"SLEEPING"}
  /\ SlotFree /\ "SLEEPING" \in send.flags => \E s \in Senders : pc[s] = "reserve"
  /\ "RECEIVER_DEAD" \notin send.flags /\ SleepingSenders # {} =>
       \/ pc[Receiver] = "wake" \/ "SLEEPING" \in send.flags
       \/ \E s \in Senders : pc[s] = "torch"
  /\ pc[Receiver] = "asleep" =>
       recv = {"SLEEPING"} \/ \E s \in Senders : pc[s] \in {"wake", "hangupWake"}

(* The inductive strengthening of TypeOK, RaceFree, NoSleeperForgotten and *)
(* HangUpsAreFinal.                                                        *)
SlotInvariant == Ownership /\ Contents /\ HandleCount /\ Visibility /\ Wakeable

(* The reservation count never carries into the SLEEPING bit above it      *)
(* (slot.rs:195-215): the process aborts first, even if every thread adds  *)
(* its reservation before the first of them gets to abort.                 *)
ReservationsStayBelowFlags == X86 => send.res < 2 * AbortAt

(* A hang-up is never undone: the swaps and masks of either side preserve  *)
(* SENDER_DEAD (slot.rs:329-331) and RECEIVER_DEAD.                        *)
HangUpsKept == /\ "SENDER_DEAD" \in recv => "SENDER_DEAD" \in recv'
               /\ "RECEIVER_DEAD" \in send.flags => "RECEIVER_DEAD" \in send'.flags

HangUpsAreFinal == [][HangUpsKept]_vars

(* The contract: reserving accepts a message, fetch_and(SENDER_DEAD)       *)
(* claims it and freeing the slot delivers it.                             *)
Held == {Msg(s) : s \in {w \in Senders : pc[w] \in {"write", "commit"}}}
        \cup IF "COMMIT" \in recv /\ phase # "freed" THEN {slot} ELSE {}
Leaving == CASE pc[Receiver] = "read" -> {slot}
             [] pc[Receiver] = "free" -> {value}
             [] OTHER -> {}

Channel == INSTANCE Bag WITH
  Capacity <- 1, held <- Held, leaving <- Leaving, taken <- received, refused <- returned,
  lost <- dropped, sendersGone <- "SENDER_DEAD" \in recv,
  receiversGone <- "RECEIVER_DEAD" \in send.flags

ImplementsBag == Channel!Spec

(* A blocked recv returns once there is a value or a hang-up to report. *)
RecvReturns ==
  pc[Receiver] \notin {"idle", "wakeAll", "dead"} /\ recv \cap {"COMMIT", "SENDER_DEAD"} # {}
    ~> pc[Receiver] = "idle" \/ phase = "aborted"

(* As long as the receiver keeps receiving, every send and try_send        *)
(* returns; in particular no sender sleeps for ever.                       *)
SendReturns ==
  [](pc[Receiver] \notin {"wakeAll", "dead"}) =>
    \A s \in Senders :
      pc[s] \in SendLocations ~> pc[s] = "idle" \/ phase = "aborted"

(* slot.rs:167-171: "As long as each woken sleeper notes that somebody     *)
(* else might still be sleeping, we'll eventually wake everybody up".      *)
EverySleeperIsWoken ==
  \A s \in Senders : pc[s] = "asleep" ~> pc[s] # "asleep" \/ phase = "aborted"
==============================================================================
