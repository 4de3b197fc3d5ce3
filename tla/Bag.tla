--------------------------------- MODULE Bag ---------------------------------
(***************************************************************************)
(* The contract of a Lockness bag: a bounded, unordered channel that every *)
(* message enters at most once and leaves exactly once.  Both channels of  *)
(* the bags crate are meant to implement it, slot.rs with Capacity = 1 and *)
(* mpmc.rs with Capacity = 30.                                             *)
(*                                                                         *)
(* A message is fresh until it is either accepted (it owns a place of the  *)
(* bag) or refused (handed back in an Err).  A receiver first claims some  *)
(* of the held messages, moves them out, and only then frees their places: *)
(* a message being moved out is no longer available to anybody but still   *)
(* counts against the capacity.                                            *)
(***************************************************************************)
EXTENDS Naturals, FiniteSets

CONSTANTS Msgs,      \* the messages that may ever be sent
          Capacity   \* the number of places of the bag

VARIABLES held,          \* accepted and not yet claimed by a receiver
          leaving,       \* claimed by a receiver, still occupying a place
          taken,         \* returned to a caller of recv
          refused,       \* returned to the sender in an Err
          lost,          \* dropped together with the bag
          sendersGone,   \* the last sender has hung up
          receiversGone, \* the last receiver has hung up
          told           \* some recv has answered Disconnected

gone == <<sendersGone, receiversGone>>
vars == <<held, leaving, taken, refused, lost, gone, told>>

Fresh == Msgs \ (held \cup leaving \cup taken \cup refused \cup lost)

Occupied == Cardinality(held \cup leaving)

Init == /\ held = {} /\ leaving = {} /\ taken = {} /\ refused = {} /\ lost = {}
        /\ sendersGone = FALSE /\ receiversGone = FALSE /\ told = FALSE

(* A sender obtains places for some of its messages. *)
Accept(S) == /\ ~sendersGone /\ ~receiversGone
             /\ S \subseteq Fresh /\ Occupied + Cardinality(S) <= Capacity
             /\ held' = held \cup S
             /\ UNCHANGED <<leaving, taken, refused, lost, gone, told>>

(* A sender gets messages back: only from a full bag or one that nobody reads. *)
Refuse(S) == /\ ~sendersGone /\ (receiversGone \/ Occupied = Capacity)
             /\ S \subseteq Fresh /\ refused' = refused \cup S
             /\ UNCHANGED <<held, leaving, taken, lost, gone, told>>

Claim(S) == /\ ~receiversGone
            /\ S \subseteq held /\ held' = held \ S /\ leaving' = leaving \cup S
            /\ UNCHANGED <<taken, refused, lost, gone, told>>

Deliver(S) == /\ S \subseteq leaving /\ leaving' = leaving \ S /\ taken' = taken \cup S
              /\ UNCHANGED <<held, refused, lost, gone, told>>

(* A receiver learns that no message will come any more. *)
Tell == /\ sendersGone /\ ~receiversGone /\ held = {}
        /\ told' = TRUE
        /\ UNCHANGED <<held, leaving, taken, refused, lost, gone>>

SendersLeave == /\ sendersGone' = TRUE
                /\ UNCHANGED <<held, leaving, taken, refused, lost, receiversGone, told>>

ReceiversLeave == /\ leaving = {} /\ receiversGone' = TRUE
                  /\ UNCHANGED <<held, leaving, taken, refused, lost, sendersGone, told>>

(* The bag itself is dropped, with whatever is still in it.  One message   *)
(* is dropped at least; the others leak if its drop panics.                *)
Discard(S) == /\ sendersGone /\ receiversGone
              /\ S \subseteq held /\ (S = {} => held = {})
              /\ lost' = lost \cup S /\ held' = held \ S
              /\ UNCHANGED <<leaving, taken, refused, gone, told>>

Next == \/ \E S \in SUBSET Msgs : Accept(S) \/ Refuse(S) \/ Claim(S) \/ Deliver(S) \/ Discard(S)
        \/ Tell \/ SendersLeave \/ ReceiversLeave

Spec == Init /\ [][Next]_vars
==============================================================================
