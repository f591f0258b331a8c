---------------------------- MODULE AtomicStore ----------------------------
(***************************************************************************)
(* What the table storage of gamedbd and uniquenamed promises to the        *)
(* request handlers and to the checkpoint: a set of tables, each held by at *)
(* most one agent at a time; a transaction changes the tables it holds in   *)
(* one step, to what it wrote, all or nothing, and only before it gives the *)
(* first one back; the checkpoint copies all tables as they stand at one    *)
(* instant.  WdbTxn is shown to implement this module.                      *)
(*                                                                          *)
(* The promise is broken in one way, Disturb: an agent that collected a     *)
(* table more than once comes back to it after having given it back.  While *)
(* twice is empty the store is one of atomic, isolated transactions.        *)
(***************************************************************************)
CONSTANTS Table, Key, Value, NoVal, Thread, Checkpointer, Nobody, NoImage

Agent == Thread \cup Checkpointer

Row == [Key -> Value \cup {NoVal}]

VARIABLES
  store,    \* the committed rows of every table
  view,     \* the rows of every table as its holder sees them
  holder,   \* who has exclusive use of a table
  closing,  \* the agents whose outcome is settled: they only give back tables
  twice,    \* an agent and a table it collected more than once
  image     \* the copy of all tables the running checkpoint works from

vars == <<store, view, holder, closing, twice, image>>

Holds(a) == {s \in Table : holder[s] = a}

Init ==
  /\ store \in [Table -> Row]
  /\ view = store
  /\ holder = [s \in Table |-> Nobody]
  /\ closing = {}
  /\ twice = {}
  /\ image = NoImage

Repeat(a, s) ==
  /\ a \notin closing
  /\ twice' = twice \cup {<<a, s>>}
  /\ UNCHANGED <<store, view, holder, closing, image>>

Acquire(a, s) ==
  /\ a \notin closing
  /\ holder[s] = Nobody
  /\ holder' = [holder EXCEPT ![s] = a]
  /\ UNCHANGED <<store, view, closing, twice, image>>

Write(a, s) ==
  /\ a \notin closing
  /\ holder[s] = a
  /\ \E r \in Row : view' = [view EXCEPT ![s] = r]
  /\ UNCHANGED <<store, holder, closing, twice, image>>

\* What the transaction wrote, in the tables it holds, appears together.
Commit(a) ==
  /\ a \notin closing
  /\ store' = [s \in Table |-> IF holder[s] = a THEN view[s] ELSE store[s]]
  /\ closing' = closing \cup {a}
  /\ UNCHANGED <<view, holder, twice, image>>

\* It disappears together.
Abort(a) ==
  /\ a \notin closing
  /\ view' = [s \in Table |-> IF holder[s] = a THEN store[s] ELSE view[s]]
  /\ closing' = closing \cup {a}
  /\ UNCHANGED <<store, holder, twice, image>>

\* The checkpoint copies the store while it holds every table.
TakeImage(a) ==
  /\ a \notin closing
  /\ image = NoImage
  /\ Holds(a) = Table
  /\ image' = store
  /\ closing' = closing \cup {a}
  /\ UNCHANGED <<store, view, holder, twice>>

GiveBack(a, s) ==
  /\ a \in closing
  /\ holder[s] = a
  /\ holder' = [holder EXCEPT ![s] = Nobody]
  /\ UNCHANGED <<store, view, closing, twice, image>>

\* Agent a comes back to s, which another one holds by now: what that one wrote
\* so far becomes permanent or is undone; if its outcome was settled, it is turned
\* round in this table: the rows it leaves are others (this module keeps no
\* record of which).
Disturb(a, s) ==
  /\ a \in closing
  /\ <<a, s>> \in twice
  /\ holder[s] \in Thread \ {a}
  /\ \/ store' = [store EXCEPT ![s] = view[s]] /\ UNCHANGED view
     \/ view' = [view EXCEPT ![s] = store[s]] /\ UNCHANGED store
     \/ /\ holder[s] \in closing
        /\ \E r \in Row : /\ store' = [store EXCEPT ![s] = r]
                          /\ view' = [view EXCEPT ![s] = r]
  /\ UNCHANGED <<holder, closing, twice, image>>

\* The agent is done, and its list of tables empty.
Settle(a) ==
  /\ Holds(a) = {}
  /\ closing' = closing \ {a}
  /\ twice' = {x \in twice : x[1] # a}
  /\ UNCHANGED <<store, view, holder, image>>

\* The checkpoint is done with its copy.
DropImage(a) ==
  /\ a \in closing
  /\ Holds(a) = {}
  /\ closing' = closing \ {a}
  /\ image' = NoImage
  /\ UNCHANGED <<store, view, holder, twice>>

Next ==
  \/ \E a \in Agent, s \in Table : Acquire(a, s) \/ GiveBack(a, s)
  \/ \E t \in Thread, s \in Table : Repeat(t, s) \/ Write(t, s) \/ Disturb(t, s)
  \/ \E t \in Thread : Commit(t) \/ Abort(t) \/ Settle(t)
  \/ \E c \in Checkpointer : TakeImage(c) \/ DropImage(c)

Spec == Init /\ [][Next]_vars
=============================================================================
