------------------------------- MODULE EventFeed -------------------------------
(***************************************************************************)
(* What the object server promises its subscribers, with no queue in it:   *)
(* one log that only grows, and per subscription a cursor into it.  A      *)
(* subscription is the set of events it asks for; a delivery hands over,   *)
(* in log order, exactly the asked-for events between the cursor and the   *)
(* end of the log, and moves the cursor there.                             *)
(*                                                                         *)
(* ObjectServer implements this specification (ImplementsFeed there).      *)
(***************************************************************************)
EXTENDS Naturals, Sequences, Functions

CONSTANTS Subs,
          Events,
          Requests   \* the sets of events a subscription may ask for

VARIABLES log,     \* the events so far
          status,  \* per subscription, "unopened", "open" or "closed"
          ask,     \* per subscription, the events it asks for; {} unless open
          cursor,  \* per subscription, the log length at its last delivery
          got      \* per subscription, the log positions handed to it

vars == <<log, status, ask, cursor, got>>

Ascending(seq) == \A i, j \in DOMAIN seq : i < j => seq[i] < seq[j]

Pending(s) == {i \in DOMAIN log : cursor[s] < i /\ log[i] \in ask[s]}

Publish(e) ==
  /\ log' = Append(log, e)
  /\ UNCHANGED <<status, ask, cursor, got>>

Begin(s, wanted) ==
  /\ status[s] = "unopened"
  /\ status' = [status EXCEPT ![s] = "open"]
  /\ ask' = [ask EXCEPT ![s] = wanted]
  /\ cursor' = [cursor EXCEPT ![s] = Len(log)]
  /\ UNCHANGED <<log, got>>

End(s) ==
  /\ status[s] = "open"
  /\ status' = [status EXCEPT ![s] = "closed"]
  /\ ask' = [ask EXCEPT ![s] = {}]
  /\ UNCHANGED <<log, cursor, got>>

Deliver(s) ==
  /\ status[s] = "open"
  /\ \E n \in 0 .. Len(log) : \E batch \in [1 .. n -> Pending(s)] :
       /\ Ascending(batch)
       /\ Range(batch) = Pending(s)
       /\ got' = [got EXCEPT ![s] = @ \o batch]
  /\ cursor' = [cursor EXCEPT ![s] = Len(log)]
  /\ UNCHANGED <<log, status, ask>>

Init ==
  /\ log = << >>
  /\ status = [s \in Subs |-> "unopened"]
  /\ ask = [s \in Subs |-> {}]
  /\ cursor = [s \in Subs |-> 0]
  /\ got = [s \in Subs |-> << >>]

Next ==
  \/ \E e \in Events : Publish(e)
  \/ \E s \in Subs : End(s) \/ Deliver(s) \/ \E wanted \in Requests : Begin(s, wanted)

Spec == Init /\ [][Next]_vars
=============================================================================
