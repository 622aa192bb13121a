-------------------------- MODULE LeasedDelivery --------------------------
(***************************************************************************)
(* What a strev subscriber that supports redelivery promises, seen from    *)
(* outside (README.md, "Acknowledgement and redelivery"): a message        *)
(* accepted for a stream stays deliverable until the consumer acks it, at  *)
(* most one lease on it is out at a time, a nack makes it deliverable      *)
(* again, and it is given up only once the stream itself has ended.        *)
(*                                                                         *)
(* Backends refine this module; it names no queue, task or buffer.         *)
(***************************************************************************)
EXTENDS FiniteSets

CONSTANTS Subs,  \* the streams handed out by subscribe()
          Msgs   \* the messages that may be published

VARIABLES
  ready,   \* ready[s]: accepted for s and waiting to be (re)delivered
  leased,  \* leased[s]: in the consumer's hands, no verdict yet
  acked,   \* acked[s]: settled, never to be delivered again
  ended    \* the streams that no longer promise anything

vars == <<ready, leased, acked, ended>>

Init == /\ ready  = [s \in Subs |-> {}]
        /\ leased = [s \in Subs |-> {}]
        /\ acked  = [s \in Subs |-> {}]
        /\ ended  \in SUBSET Subs  \* those that ended before

\* A publish call reaches stream s with m.
Accept(s, m) == /\ m \notin ready[s] \cup leased[s] \cup acked[s]
                /\ ready' = [ready EXCEPT ![s] = @ \cup {m}]
                /\ UNCHANGED <<leased, acked, ended>>

Deliver(s, m) == /\ m \in ready[s]
                 /\ ready'  = [ready EXCEPT ![s] = @ \ {m}]
                 /\ leased' = [leased EXCEPT ![s] = @ \cup {m}]
                 /\ UNCHANGED <<acked, ended>>

Ack(s, m) == /\ m \in leased[s]
             /\ leased' = [leased EXCEPT ![s] = @ \ {m}]
             /\ acked'  = [acked EXCEPT ![s] = @ \cup {m}]
             /\ UNCHANGED <<ready, ended>>

\* A nack, or a lease dropped without a verdict, which counts as one.
Nack(s, m) == /\ m \in leased[s]
              /\ leased' = [leased EXCEPT ![s] = @ \ {m}]
              /\ ready'  = [ready EXCEPT ![s] = @ \cup {m}]
              /\ UNCHANGED <<acked, ended>>

\* Streams end when their consumer drops them or the backend is closed.
End(S) == /\ ended' = ended \cup S
          /\ UNCHANGED <<ready, leased, acked>>

\* Only an ended stream may give messages up.
GiveUp(s, M) == /\ s \in ended
                /\ ready' = [ready EXCEPT ![s] = @ \ M]
                /\ UNCHANGED <<leased, acked, ended>>

Next == \/ \E s \in Subs, m \in Msgs :
             Accept(s, m) \/ Deliver(s, m) \/ Ack(s, m) \/ Nack(s, m)
        \/ \E S \in SUBSET Subs : End(S)
        \/ \E s \in Subs, M \in SUBSET Msgs : GiveUp(s, M)

Spec == Init /\ [][Next]_vars
=============================================================================
