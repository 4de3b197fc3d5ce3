# Lockness in TLA+

This directory is a verification development of [Lockness](../src), a Rust workspace of lock-free
building blocks for an executor. It holds TLA+ modules that model the two channels of the `bags`
crate instruction by instruction and the two type-erased vectors of the `vecs` crate layout by layout,
TLC configurations that check them on small instances, and TLAPS proofs of what holds for every
instance.

## 1. The system

| component | source | state | operations | models |
|---|---|---|---|---|
| Slot | `bags/src/slot.rs` | two atomic words (`send`: reservations, `SLEEPING`, `RECEIVER_DEAD`; `recv`: `COMMIT`, `SLEEPING`, `SENDER_DEAD`), `num_senders`, one `UnsafeCell` | `send`, `try_send`, `recv`, `try_recv`, `Sender::clone`, drop of either handle, drop of `Inner` | `Slot`, `SlotProofs`, `SlotBagProofs` |
| Mpmc | `bags/src/mpmc.rs` | two atomic words (`send`: a reservation bit per slot and two flags; `recv`: a commit bit per slot and two inverted flags), `num_senders`, `num_receivers`, 30 `UnsafeCell`s, a bias per sender | the same operations, with batches in both directions and clonable receivers | `Mpmc`, `SlotMasks`, `MpmcProofs`, `MpmcBagProofs` |
| Mask arithmetic | `bags/src/mpmc.rs:538-603` | a 32-bit mask | `compute_request_mask`, `clear_extra_bits`, `drain_mask` | `MaskBits`, `SlotMasks`, `SlotMaskProofs`, `MaskBitsProofs` |
| Futex wrappers | `bags/src/lib.rs` | none (the kernel's wait queues) | `atomic_sleep`, `atomic_wake`, `u64_to_futex`, `abort_with_message` | steps of `Slot` and `Mpmc` |
| FreestandingVec | `vecs/src/freestanding_vec.rs` | one pointer to a header (length, capacity, metadata) followed by values | `init`, `push`, `pop`, `reserve`, `deallocate`, `into_raw`, `from_raw`, drop | `FreestandingVec`, `FreestandingVecProofs` |
| ClosureVec | `vecs/src/closure_vec.rs` | a `FreestandingVec` whose element type is erased | `push`, `pop_and_run`, `update_type`, `clear`, `into_raw`, `from_raw`, drop | `ClosureVec`, `ClosureVecProofs` |
| CachePadded | `bags/src/cache_padded.rs` | none | alignment and `Deref` | none: layout only |
| Executor | `executor/src/lib.rs` | none yet | an API whose bodies are `todo!()` | none: there is no behaviour to model |

The components interact little: handles share an `Inner` by `Arc`, and everything else goes through
the atomic words, the cells they guard and the futex queues keyed by the words. `ClosureVec` owns a
`FreestandingVec`. The executor does not use the others yet.

What is hard, and what makes each component correct:

* **Slot and Mpmc** are lock-free protocols on several words that change separately, with fences
  instead of ordered accesses. A correct channel has no data race on a cell; every message is in one
  place at a time, so none is lost, duplicated or dropped twice; no message that was accepted is
  overtaken by `Disconnected`; the flags of a hang-up survive every swap and mask; a thread that
  sleeps in the futex is woken when its condition comes true, although each operation wakes one
  thread only and clears the `SLEEPING` flag for all ("pass the torch"); the counters that share a
  word with flags do not run into them.
* **Mask arithmetic** has to address slots around status bits that live in the same word; one bit
  off reserves a slot that does not exist.
* **FreestandingVec and ClosureVec** compute the address of a value once with the type known and once
  with it erased; the two must agree. Closures and drops that panic must leave a vector that can
  still be dropped.

`PROJECT.json` lists each hazard at its line with the properties that would catch it.

## 2. The modules

`Bag` is the contract of both channels: a bounded, unordered channel. A message is fresh, held,
leaving, taken, refused or lost, and never moves backwards. A message is refused only by a full bag or
one that nobody reads; a receiver is told of a disconnection only when nothing is held.

A bag that is dropped with messages in it discards them: one of their drops may panic, and the messages
after that one leak (`Discard`).

`Slot` and `Mpmc` have one action per atomic instruction, per access to a cell and per futex call;
`pc[t]` names a thread's next instruction. A fence is part of the step before or after it, because
nothing another thread does can come between the two and matter. In `Slot` a thread is identified with
the handle it owns; in `Mpmc` `handle[t]` is the handle it uses.

| action of `Slot` | code (`slot.rs`) | action of `Mpmc` | code (`mpmc.rs`) |
|---|---|---|---|
| `Reserve` | `fetch_add`/`fetch_or` of `try_send`, its checks, and `fence(Acquire)` | `Reserve` | `fetch_or` of the request mask and `fence(Acquire)`; `retry` holds the mask of `clear_extra_bits` when the request got nothing |
| `WriteSlot` | `ptr::write` | `WriteSlot` | one turn of `drain_mask` |
| `Commit`, `WakeReceiver` | `recv.swap(COMMIT, Release)`, `atomic_wake(recv, 1)` | `Commit`, `WakeReceiver` | `recv.fetch_or(commit, Release)`, wake |
| `SpinSend`, `SleepSend`, `PassTorch` | the polling loop of `send`, futex wait, the torch | `SpinSend`, `SleepSend`, `PassTorchSend` | the same |
| `Poll`, `Take`, `ReadSlot`, `FreeSlot`, `WakeSender` | `try_recv` | `Claim`, `ReadSlot`, `FreeSlots`, `WakeSender` | `try_recv` |
| `MarkSleeping`, `SleepRecv` | the tail of `recv` | `SpinRecv`, `SleepRecv`, `PassTorchRecv` | the tail of `recv` |
| `CloneSender`, `DropSender`, `HangUp`, `HangUpWake` | `Clone` and `Drop` of `Sender` | `CloneSender`, `CloneReceiver`, `DropSender`, `DropReceiver`, `HangUp...`, `WakeAll...` | `Clone` and `Drop` of both |
| `DropReceiver`, `WakeAllSenders` | `Drop` of `Receiver` | | |
| | | `Share`, `Unshare` | passing `&Sender` or `&Receiver` to another thread |
| `Teardown`, `Abort`, `Interrupt` | `Drop` of `Inner`, `abort_with_message`, EINTR | the same; `Teardown(k)` drops the first `k` values, the last of them panicking if others are left | the same |

* *Words.* A word is the set of its flags together with a reservation count (`Slot`) or a set of slots
  (`Mpmc`). `Slot` models both layouts: with `X86 = TRUE` the word counts reservations, the futex sees
  only its high half (`FutexWord`) and `try_send` aborts above `AbortAt`; with `X86 = FALSE` a single
  bit reserves. `Mpmc` writes its flags the right way up although `recv` stores them inverted. The x86
  swaps of `Mpmc` (all slots at once) equal the `fetch_or` and `fetch_and` they replace and need no
  action of their own; the mutant `SwapAlways` shows that they would not be if the test of the mask
  were missing.
* *Memory orderings.* Atomic instructions interleave; the non-atomic accesses are protected only by
  what fences and release/acquire operations publish. `seen` holds the threads whose view contains the
  latest access to a cell; `sendView` and `recvView` say which words carry that view in their release
  sequence. A relaxed read that is followed by `fence(Acquire)` lets its thread see what the word
  carried. An access by a thread that is not in `seen` sets `raced`. All modifications of the words are read-modify-write instructions, so a
  release sequence is never broken.
* *Futex.* Waiting compares and blocks in one step, a wake chooses any waiter, and `Interrupt` lets a
  wait end for no reason.
* *Messages* are the pairs of a sender and a number. A `Vec` given to `Mpmc` is a set that is popped in
  descending order. `Uninit` is the content of memory whose value was moved out.
* *Sharing.* `Sender` and `Receiver` of `Mpmc` are `Sync` (`mpmc.rs:57-60`). The threads in `Borrowers` own
  no handle; they use another thread's, with its bias, and its owner cannot drop it meanwhile. In `Slot`
  only `Sender` is `Sync` (`slot.rs:55`) and holds nothing but the `Arc`, so a second user of a handle
  behaves like a clone, except that the clone is counted in `num_senders`. In either case the last one
  to let go hangs up, and no other step reads the count but the clone guard.
* *Handle counts* wrap around at `CountRange` (2^32), and a bias is computed from the count that
  `fetch_add` returned. The multiplication by 7 (`mpmc.rs:340`) wraps as in a release build.

`SlotMasks` says which sets of slots `Mpmc` requests, trims and visits; `MaskBits` models the bit
tricks on 32-bit words and shows that they compute these sets. The `MC` modules only
add the symmetry sets and inputs of the runs.

`FreestandingVec` models memory by layouts. An address is an offset from the start of the allocation;
`PushAddress` is computed from the element type, `PopAddress` from the header alone, as in the code.
`Cast` stands for every way to change the type (raw round trip, transmute, pointer cast). The four
actions `InitRealigns`, `InitPanics`, `InitAllocates` and `InitReuses` are the paths through `init`; each
metadata value is numbered, and dropping one may panic. `data` is either `Block` or the dangling
address of some type, so that `IsAllocated` compares what the code compares; `block` says what is true.
The guards of `Push` (the type of the last `init`) and `BeginInit` (no values) are the caller's duties in
the Safety section of `from_raw`. `Cast` has none: the type may change at any time, also back again when a
borrow by pointer cast ends, and also while there is no block because `init` panicked. Then a header may
be read through a dangling pointer: by `pop`, `push` and `is_empty`, which do not ask `is_allocated`
(`UseStrays`), and by `init` and drop when `is_allocated` errs (`InitStrays`, `DropStrays`). The
alignments of real types are addresses below the first page that is mapped, so that the read ends the process
and nothing is given to the allocator; `phase` says which call it was. This is the release build; in a
debug build the assertion of `len` (115) panics where `UseStrays` strays under the type of the pointer.

`ClosureVec` instantiates `FreestandingVec` and conjoins its actions: `PushClosure` is `Vec!Push`,
`Take` (`pop_and_run_`) is `Vec!Pop` followed by the call of `task_fn`, `UpdateType` is `init` with the
function of the new type, and `DropField` is the drop of the field after `ClosureVec::drop`. The loops of
`clear` take one step per closure. Any call or drop of a closure may panic; the owner catches the panic
or drops the vector while it unwinds, and a second panic aborts.

## 3. The runs

| run | question | instance | distinct states |
|---|---|---|---|
| `slot_safety` | Is the 32-bit slot free of data races; is every message in exactly one place; is the invariant of the proofs an invariant; are hang-ups final; does it implement `Bag` with one place? | 2 handles, 2 calls each, cloning and dropping; `HandleLimit` 1, so that cloning a third aborts | 316 thousand |
| `slot_threads` | With the 64-bit counting word, are sleepers remembered, does the count stay below the flags, does the contract hold, and do blocked receives and sends return although the futex sees half of the word? | 3 handles, a call each; `AbortAt` 5 | 344 thousand |
| `slot_hangup` | Is every sleeping sender woken, as the comment at `slot.rs:167-171` says? *Violated.* | 2 senders, 2 calls each | |
| `mpmc_safety` | The questions of `slot_safety` for the bag, and: are slots partitioned among their owners, are sleepers remembered, does a sender never hold more slots than items, does the last handle of a side hang up, and no other? | 2 senders with batches of 1 and 2, a receiver and a thread that borrows its handle, 2 slots | 2.4 million |
| `mpmc_handles` | Are hang-ups final and announced by the last handle only, when handles of both sides are cloned up to the guard, dropped and aborted; is the invariant of the proofs an invariant? | 3 + 3 handles, `HandleLimit` 1, so that the counts run up to the wrap-around | 837 thousand |
| `mpmc_receives` | Is what has been committed received, although a commit wakes one of two receivers? | 2 + 2 handles, 1 slot | 101 thousand |
| `mpmc_sends` | Do three senders that contend for one slot all get through, and is a receiver without competitors always woken for a commit or a hang-up? | 2 handles, a borrower of either, 1 receiver, 1 slot | 229 thousand |
| `mpmc_hangup` | Does every reader learn that the senders are gone, as the tests expect? *Violated.* | 2 + 2 handles, 1 slot | |
| `mask_bits` | Do the bit tricks compute the slot sets that `Mpmc` uses? | the real width of 30 slots, every bias, every count of items up to 31 | 47 thousand |
| `vec_layout` | Does `pop` find what `push` wrote, do values stay inside the block, does the allocator get back the layouts it was given, is metadata dropped once? | six layouts (zero-sized, small, large, over-aligned, beyond the 1024 bytes that change the least capacity), 10 values, 4 calls of `init` | 29 thousand |
| `vec_panic` | Does dropping a vector whose `init` panicked return without reading a header, as the comment at `freestanding_vec.rs:62-63` says? *Violated.* | as `vec_layout` | |
| `closure_panics` | Is every closure run or dropped exactly once, at its own type, although any of them may panic, and is the block given back then? | three layouts, 5 closures | 8 thousand |

**Bounds, and why they are enough.** `Spins` replaces the 32 polls before sleeping: it is a counter of a
thread's own, and 0 and 1 already have the polls before, at and after the announcement. `HalfRange` (3
for 2^32) makes the reservations of a few threads invisible to the futex until one more makes them
visible. `AbortAt` (4 or 5 for 2^61) keeps the ratio of the code: the flag lies at twice that value, far
above the number of threads that could add before one aborts. `HandleLimit` stands for `u32::MAX / 2`.
`MaxSends` and `MaxItems` bound the messages; a handle's calls are otherwise unrestricted, and all
hazards listed need two messages at most. Two slots give batches, partial sends, retries on the other
slot and wrap-around of the bias (`Stride % N` is 1, so biases differ). Three senders are the least for
a chain of wake-ups (one holds the slot, one is woken, one still sleeps), which `slot_threads` and
`mpmc_sends` have. Ten values make the blocks of `FreestandingVec` grow more than once from their least
capacity of 1, 4 or 8 values; four calls of `init` reach a block that is kept, one that is replaced and a
retry after a panic. A receive that frees several slots with one wake takes two slots, which `mpmc_safety` has
and `mpmc_sends` has not. `RecvReturns` says that `recv` returns, not that it sleeps until then.

**Symmetry** of handles is used in the safety runs only. **Deadlock** is checked in every run: a state in
which no thread can move is reported, except after `Inner` or the vector is dropped or the process has
ended (`Finished`).

**Fairness.** `FairSpec` is weak fairness of each thread's next instruction (the operating system
schedules every runnable thread; one that is asleep in the futex is not enabled) and of the consumer's
calling `recv` or `try_recv` again, as the loops `while let Ok(..) = recv()` of the tests do. Nothing
obliges a program to send, to clone or to drop. `SendReturns` is stated for receivers that do not hang
up, and every liveness property allows the process to abort instead. As calls are bounded, a thread is
not starved by endless competitors; a spinning sender could be in the unbounded program, which is
lock-free but not wait-free.

## 4. What the runs found

* **A receiver dropped in the middle of the torch leaves senders asleep** (`slot_hangup`). A receive
  clears `SLEEPING` and wakes one of two sleeping senders (`slot.rs:348-357`). Before that sender has
  set `SLEEPING` again (`slot.rs:172`), the receiver is dropped: its swap (`slot.rs:376`) sees no
  `SLEEPING` and wakes nobody. The woken sender sets the flag, sees `RECEIVER_DEAD` and returns an
  error; the other one sleeps for ever.
* **The last sender dropped in the middle of the torch leaves readers asleep** (`mpmc_hangup`), in the
  same way: `mpmc.rs:366` against `mpmc.rs:408`. The test `take_one_down_pass_it_around` joins three
  readers in that situation. `Receiver::drop` (`mpmc.rs:513-518`) mirrors it.
* **A vector whose borrower's `init` panicked cannot be dropped by its owner** (`vec_panic`). `is_allocated`
  compares with the dangling pointer of the *current* type. When a vector is borrowed by a pointer cast, as
  `validate_reuse_with_different_type` does (491-508), and its `init` frees the block because of
  another alignment, the old metadata may panic while it is dropped (75, 176). The pointer then dangles for
  the borrower's type, the panic ends the borrow, and the owner's drop compares with its own type's: it
  takes the pointer for a block (61) and reads a header at an address like 16. The early return that is
  meant for this case works only if the type does not change back, as in
  `panic_in_drop_due_to_init_alignment_change`, and the Safety section of `from_raw` (96-102) does not ask
  for that. `ClosureVec` is not affected: its metadata is a function pointer, which does not panic.

Remarks that no run depends on:

* `_VALIDATE` (`mpmc.rs:168-174`) asserts `N < 30`, which the shipped `N = 30` does not satisfy. The
  constant is never evaluated, so it has no effect. A smaller `N` would not work either: the masks
  assume that slots and status bits fill the word, hence `W == N + 2` in `MaskBits`.
* A receive of `Mpmc` frees up to 30 slots and wakes one sender; others may sleep beside free slots
  until the next receive. `NoSleeperForgotten` is worded accordingly.
* `pop`, `push` and `is_empty` of a vector whose `init` panicked read its length through the dangling pointer
  under any type (`UseStrays`), with an assertion of debug builds in between (115). A caller
  gets there only by catching the panic and going on with the vector.
* When a closure panics while a `ClosureVec` is dropped, `FreestandingVec::drop` runs with the other
  closures still in the vector. Its comment (256-257) says that they leak, which is what happens in a
  release build; in a debug build its assertion (260) fails during unwinding and the process aborts.
* `Sender::clone` of `Mpmc` computes `prev_senders * 7` in 32 bits (`mpmc.rs:340`). Where overflow is
  checked it panics once there are more than 2^32 / 7 handles, after `fetch_add`: the count then stays
  one too high and the last sender never hangs up. `CloneSender` models the release build, in which
  the product wraps and only the bias suffers.
* `Inner::drop` of `Mpmc` drops the values in a loop without a guard; when one of them panics, the ones
  after it leak (`mpmc.rs:81-86`). Nothing is dropped twice.
* After a spurious return of the futex the slot's `SLEEPING` flag is still set, so `recv`'s `fetch_or`
  no longer returns the clear word and `recv` polls until the next commit.

## 5. The proofs

Every theorem holds for all values of the constants that satisfy the named assumptions. `SlotAssumption`
and `MpmcAssumption` say what the constants are (finite sets of threads, natural bounds, `Uninit` no
message). `ThreadsAssumption` says that no side of the bag has more than 2^31 threads if some of them
share handles: a handle of one's own is limited by the clone guard, but threads that borrow one
are not. Without it `num_receivers` could wrap around. `VecAssumption` (`LegalLayouts`) says what Rust
guarantees of every type: its alignment is positive, its size is a multiple of it, and of two alignments
one divides the other, as both are powers of two; `ClosureAssumption` says the same of the closures.

| module | theorem | statement |
|---|---|---|
| `SlotProofs` | `Invariance`, `SlotInvariantHolds` | `Spec => [](TypeOK /\ SlotInvariant)` |
| | `TypeCorrect` | `Spec => []TypeOK` |
| | `NoDataRace` | `Spec => []RaceFree` |
| | `SleepersRemembered` | `Spec => []NoSleeperForgotten` |
| | `HangUpsStay` | `Spec => HangUpsAreFinal` |
| `SlotBagProofs` | `MessagesExactlyOnce` | `Spec => []ExactlyOnce` |
| | `ReservationsBounded` | `Spec => []ReservationsStayBelowFlags`, if `Cardinality(Senders) + 1 < AbortAt` |
| | `SlotImplementsBag` | `Spec => ImplementsBag` |
| `MpmcProofs` | `TypeCorrect` | `Spec => []TypeOK` |
| | `MpmcInvariance` | `Spec => []MpmcInvariant` |
| | `NoDataRace` | `Spec => []RaceFree` |
| | `SlotsHaveOneOwner` | `Spec => []SlotsPartitioned` |
| | `SleepersAreRemembered` | `Spec => []NoSleeperForgotten` |
| | `RequestsFit` | `Spec => []RequestsFitOffer` |
| | `LastHandleHangsUp` | `Spec => []HangUpByTheLast` |
| | `HangUpsStay` | `Spec => HangUpsAreFinal` |
| `MpmcBagProofs` | `MessagesExactlyOnce` | `Spec => []ExactlyOnce` |
| | `MpmcImplementsBag` | `Spec => ImplementsBag` |
| `MaskBitsProofs` | `TypeCorrect` | `Spec => []TypeOK` |
| | `RequestsAreWindows` | `Spec => []RequestIsWindow` |
| | `ExtraBitsCleared` | `Spec => []ClearKeepsOneSide` |
| | `DrainVisitsEach` | `Spec => []DrainVisitsAll` |
| `FreestandingVecProofs` | `TypeCorrect` | `Spec => []TypeOK` |
| | `PopFindsPush` | `Spec => []PopsWhatWasPushed` |
| | `ValuesInBlock` | `Spec => []ValuesFit` |
| | `LayoutsAgree` | `Spec => []LayoutsMatch` |
| | `MetadataExactlyOnce` | `Spec => []MetadataDroppedOnce` |
| `ClosureVecProofs` | `ClosuresConsumedOnce` | `Spec => []ConsumedOnce` |
| | `TaskReadsItsType` | `Spec => []TaskFits` |
| | `NothingLeaks` | `Spec => []LeaksOnlyOnPanic` |
| | `UsesVecLegally` | `Spec => Vec!Spec` |

**Slot.** None of the properties is inductive by itself. `RaceFree` needs to know that whoever is about
to touch the slot has seen its latest access (`Visibility`), which holds because the right to touch it is
handed from one owner to the next together with a view; that needs the owner to be unique (`Ownership`):
a sender between reservation and commit, the `COMMIT` bit, or the receiver between consuming `COMMIT` and
freeing the slot. A commit overwrites `recv`, so `HangUpsAreFinal` needs that no sender is left once
`SENDER_DEAD` is set, which is the count of handles (`HandleCount`). `NoSleeperForgotten` follows from
`Wakeable`, whose second part, that a free slot with `SLEEPING` up has a sender on its way to reserve
it, is what makes the wake that is still to come come. `Contents` (the slot holds a message from write
to read) is what types `value` and `received`. Each part has a lemma of its own (`OwnershipStep`,
`VisibilityStep`, `ContentsStep`, `HandlesKept`, `HandleCountStep`, `WakeableStep`, `TypeStep`) with a
step per action; `InvStep` and `Invariance` combine them.

`ExactlyOnce` counts the places of a message; `Placed` says the same without counting (it is in some place
iff it has been sent, and any two places exclude each other), which each action preserves, and
`PlacementCounts` leads back to the count. `ReservationsBounded` needs `CountBound`: `fetch_add` comes before
the check, but a sender that finds too many is on its way to abort and adds no more. Its hypothesis is
true of the code, where `AbortAt` is 2^61 and a thread takes more than a word of memory. The refinement
(`BagStep`) takes one step of `Bag` or none for each action; `Places` says which of the owners of the slot
makes it held or leaving, and `FreshInHand` that a message is fresh until its sender has reserved.

**Mpmc.** The invariant has the same parts, for many slots and for two counts of handles:

* `Duties` ties a thread's locals to its `pc`: it has slots exactly while it writes, commits, reads or frees,
  and never more slots to write than values. The sizes come from `SlotMaskProofs`: the `k` highest or
  lowest of a finite set of slots are `k` of them if there are so many (`RankBijection`, `TopCount`: ranks
  are a bijection), and a request, which wraps around at the last slot, asks for as many slots as there are
  items, up to all.
* `SlotsPartitioned` is inductive with `Duties`. The argument is about what a step does to slots, so that each
  action is classified first (`NextData`: it obtains slots, fills one, commits, grabs what is committed,
  empties one, frees, tears down, or is `Quiet`) and the lemmas about data (`SlotsPartitionedStep`,
  `ContentsStep`, `VisibilityStep`) have a step per class instead of one per action.
* `Contents` and `Visibility` say slot by slot what they say in `Slot`.
* `HandlesInv` is stated and proved for one side (`SideInv`) and used twice. The count is the number
  of handles, not of threads, plus the clones that are about to abort, modulo 2^32; that it has not wrapped
  while a handle is dropped (`NoWrap`) follows from the guard of `clone`, which lets no handle come into being
  beyond 2^31, although any number of threads may add to the count before one of them aborts.
* `NoSleeperForgotten` is inductive with `HandlesInv` (a hang-up is the last handle's), in contrast to `Slot`,
  because it names the sender or the receiver that is about to act.

`ExactlyOnce` follows as in `Slot` from `Placed`: a message is in at most one buffer and one slot (`Single`), and
the kinds of places exclude each other. The refinement adds two arguments of its own. One is that
no more than `N` messages are in the bag: the messages in a thread's hands are as many as its slots
(`OutgoingOf`, `IncomingOf`; for a receiver this takes `Loads`, which says that it has read as many values as
it has emptied slots), the threads' shares are disjoint (`GoodsApart`), and so as many messages are
held or leaving as slots are reserved (`OccupiedCount`, by a bijection between the two unions,
`UnionCount`). The other is that a message counts as accepted from the moment its sender has a slot for
it, before it is written: `PopOne` shows that writing the item a `Vec` pops next leaves what is on its way
the same. `SenderBag`, `ReceiverBag`, `UserBag` and `TeardownBag` name for each action the step of
`Bag` it takes.

**MaskBits.** What the run can only sample, the masks of free and of committed slots, is proved for all
of them, and for every number of slots in a word with two bits more. `Window` compares `Compute` with
`RequestMask` bit by bit, after `Rotated` has said which bit of a mask a rotation moves where; the one case
that looks wrong is a wrapped bit that is shifted out of, or within, the part that has already been
kept, and adds nothing new. For `clear_extra_bits` the invariant is `Clearing`: what clearing the lowest
bit again and again leaves is closed upwards and no smaller than it has to be, and such a set is unique
(`ClosedTop`); turning the word around turns the highest bits into the lowest slots (`Reversed`,
`LowestReversed`). For `drain_mask` it is `Draining`: the visited slots come in order, the others are
in the mask (`Left`), and `leading_zeros` is the lowest of them (`Leading`).

**FreestandingVec.** `PopsWhatWasPushed` and `ValuesFit` speak of the type a value was written with,
`IsAllocated` and `reserve` of the type the vector is held under now, and the header of neither. What ties
them is `Described`: while there is an initialised block, the header holds the sizes of the type of the last
`init` (`home`), the block has the header's layout, and value `i` lies at the end of the header space plus
`i - 1` sizes. With it, the two computations of an address agree because of `BasesAgree`: the base that
`pop` rounds up from the larger of two sizes is the size of the union `push` steps over, for all layouts,
since the header alone is already padded. That needs some arithmetic of `%` and `\div` (`RoundUpBound`,
`MultiplesOf`, `MultipleOfMultiple`), as does that the larger of the two alignments serves both types
(`LargerAlign`). `push` keeps the values inside because `reserve` makes room for one more of the same size
(`ReservedBound`), and `reserve` never gives the allocator a wrong layout because it is called only
when the header's alignment is the current type's (`ReserveKeeps`). `Inv` adds that the pointer is a
block's exactly if there is a block, though `is_allocated` errs when it dangles for another type than
the current one (`Allocated`: it never takes a block for a dangling pointer), that `drops` counts one
for each metadata value but the one in the live header (`Dropped`), and that a dropped vector has no
block. So nothing is freed twice and no metadata dropped twice after an `init` that panicked, under any type:
`deallocate` clears the pointer before the metadata goes.

**ClosureVec.** The proofs reuse those of the vector it owns: `FreestandingVecProofs` is instantiated, `Same`
shows that its actions are the ones `ClosureVec` takes, and `VecStep` that each step of `ClosureVec`, the
panicking ones included, keeps the invariant of the vector. On top of it, `Stack` says that the closures in
the vector are distinct, as many as its values, and the only ones not yet consumed; `task = home`
while there is a block, because `update_type` changes both; `Control` says where the owner is and that
only a panic gets past `ClosureVec::drop` with closures left. `UsesVecLegally` shows that `ClosureVec` implements
the specification of `FreestandingVec`, so that what is proved there holds here too.

**Only model-checked**: the liveness properties `RecvReturns`, `SendReturns`, `CommittedIsReceived` and
`LoneReaderIsWoken`. They rest on fairness and on ENABLED, which are out of the prover's reach.

## 6. Not modelled

* *Weak ordering between different atomic words.* Atomic instructions interleave sequentially. The place
  where this could matter is a handle whose commit is followed by a relaxed `fetch_sub` of the count
  (`slot.rs:268`, `mpmc.rs:359`): were the last handle's flag ordered before that commit, the commit would
  erase it. But the commit is itself a read-modify-write, and would then read the flag; the flag is
  written only after the last handle has read the count, which was written after the commit, so the
  reads and writes would form a cycle. x86 excludes it, RC11 excludes it, and ARMv8 does because both
  writes depend on the reads before them (the commit's result is branched on to wake). Relaxed loads
  of the polling loops may be stale, which costs another turn; whether to sleep is decided by a
  read-modify-write and by the futex, on the same word.
* *Empty batches* of `Mpmc`: `try_send` of an empty buffer returns `Ok` without touching anything, even
  on a disconnected bag.
* *Other errors of the futex* (reported by `expect` and `unreachable!` in debug builds only).
* *Failing allocations* and sizes that overflow (`freestanding_vec.rs:146-148`) end in an abort or a panic
  before anything has changed. A type of 4 GiB or more, whose size `ELEM_SIZE` truncates, is left out.
* *Panics of metadata* in `FreestandingVec::drop` and in the assignment of a kept header: the code has
  changed everything by then, so they look like a drop without a panic.
* *A `SendBufferContainer` of the caller's own* that panics in `take` would leave the slots reserved and
  not committed; the containers of the crate do not panic.
* `CachePadded` is alignment and `Deref`.
* `executor`: `spawner`, `finisher`, `buffered`, `flush` and `Finisher::next` are `todo!()`, `spawn` and
  `worker` are empty; what is written (options, the default number of threads, `JoinError`) keeps no
  state that two steps could disagree on.

## 7. Plan

1. *Done:* `Bag`, `Slot`, `SlotMasks`, `Mpmc`, `MaskBits`, `FreestandingVec`, `ClosureVec` with their
   runs; all safety properties of `Slot` and `Mpmc` and that both implement `Bag`.
2. *Done:* the proofs of all safety properties of `FreestandingVec` and `ClosureVec`.
3. *Done:* that the request masks and the drain of `MaskBits` are right for every number of slots, and that
   `ClosureVec` uses its `FreestandingVec` within that module's specification.
