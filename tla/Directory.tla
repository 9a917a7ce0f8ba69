------------------------------ MODULE Directory ------------------------------
(***************************************************************************)
(* What the mini chat promises about its users, with no table, slot or     *)
(* socket: who is known under which name, and to whom each of them talks.  *)
(* A connection is a stranger, then known under one name, then departed,   *)
(* and it never comes back: a private channel stays with the person it was *)
(* opened to, even when the name is taken again by somebody else.  The     *)
(* directory may be emptied, as a whole: everybody connected is a stranger *)
(* again, or, when the server is restarted, nobody is connected at all.    *)
(***************************************************************************)
EXTENDS Integers, FiniteSets

CONSTANTS
  Conn,       \* connections, numbered in the order of their arrival
  Name,       \* user names
  Capacity,   \* how many users may be logged in at once
  Everyone,   \* the general channel; not a connection
  Stranger,   \* connected but not logged in; not a name
  Departed    \* gone for good; not a name

VARIABLES
  who,        \* the name each connection is known under
  channel     \* the connection each user talks to, or Everyone

vars == <<who, channel>>

Known == {c \in Conn : who[c] \in Name}

Init ==
  /\ who = [c \in Conn |-> Stranger]
  /\ channel = [c \in Conn |-> Everyone]

LogIn(c, n) ==
  /\ who[c] = Stranger
  /\ \A d \in Conn : who[d] # n
  /\ Cardinality(Known) < Capacity
  /\ who' = [who EXCEPT ![c] = n]
  /\ UNCHANGED channel

Talk(c) ==
  /\ c \in Known
  /\ channel' = [channel EXCEPT ![c] = Everyone]
  /\ UNCHANGED who

Private(c, d) ==
  /\ c \in Known
  /\ d \in Known
  /\ channel' = [channel EXCEPT ![c] = d]
  /\ UNCHANGED who

\* The partner has left: the user is put back on the general channel.
PartnerGone(c) ==
  /\ c \in Known
  /\ channel[c] # Everyone
  /\ who[channel[c]] = Departed
  /\ channel' = [channel EXCEPT ![c] = Everyone]
  /\ UNCHANGED who

Leave(c) ==
  /\ who[c] # Departed
  /\ who' = [who EXCEPT ![c] = Departed]
  /\ channel' = [channel EXCEPT ![c] = Everyone]

ForgetAll ==
  /\ who' = [c \in Conn |-> IF c \in Known THEN Stranger ELSE who[c]]
  /\ channel' = [c \in Conn |-> Everyone]

StartOver ==
  /\ who' = [c \in Conn |-> Stranger]
  /\ channel' = [c \in Conn |-> Everyone]

Next ==
  \/ \E c \in Conn :
       \/ \E n \in Name : LogIn(c, n)
       \/ Talk(c)
       \/ \E d \in Conn : Private(c, d)
       \/ PartnerGone(c)
       \/ Leave(c)
  \/ ForgetAll
  \/ StartOver

Spec == Init /\ [][Next]_vars
=============================================================================
