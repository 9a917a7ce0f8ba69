------------------------- MODULE ServiceStart_proofs -------------------------
(***************************************************************************)
(* Proofs about the hand-off of a connection, for any number of them.      *)
(***************************************************************************)
EXTENDS ServiceStart, TLAPS

TypeInv ==
  /\ main \in {"accept", "fillSocket", "fillId", "create"}
  /\ user_id \in 0..MaxConn
  /\ info \in [socket : 0..MaxConn, id : 0..MaxConn]
  /\ at \in [Conn -> {"none", "readSocket", "readId", "serving"}]
  /\ got \in [Conn -> [socket : 0..MaxConn, id : 0..MaxConn]]
  /\ reused \in BOOLEAN

\* Threads exist for connections handed over so far only.
Born == \A c \in Conn : at[c] # "none" => c < user_id \/ (c = user_id /\ main = "accept")

\* The record, between two calls, is that of the last connection; while a call
\* is filling it, its fields are that one's or the one's before.
Record ==
  /\ info.socket \in {NoSocket, user_id}
  /\ main \in {"accept", "fillId", "create"} => info.socket = user_id
  /\ main \in {"accept", "create"} => info.id = user_id
  /\ main \in {"fillSocket", "fillId"} => info.id = user_id - 1

\* What a thread has read is not older than itself.
Read ==
  \A c \in Conn :
    /\ at[c] \in {"readId", "serving"} =>
         got[c].socket = NoSocket \/ (c <= got[c].socket /\ got[c].socket <= user_id)
    /\ at[c] = "serving" => c <= got[c].id /\ got[c].id <= user_id

\* Without reuse, only the last thread made may still be reading, and the
\* others have read their own record.
Prompt ==
  ~reused => \A c \in Conn :
    /\ at[c] \in {"readSocket", "readId"} => c = user_id /\ main = "accept"
    /\ at[c] \in {"readId", "serving"} => got[c].socket = c
    /\ at[c] = "serving" => got[c].id = c

IInv == TypeInv /\ Born /\ Record /\ Read /\ Prompt

LEMMA InitIInv == Init => IInv
<1> SUFFICES ASSUME Init PROVE IInv
  OBVIOUS
<1>1. TypeInv
  <2>1. [socket |-> 0, id |-> 0] \in [socket : 0..MaxConn, id : 0..MaxConn]
    BY MaxConnAssumption
  <2> QED
    BY <2>1, MaxConnAssumption DEF Init, TypeInv, NoSocket
<1>2. Born
  BY MaxConnAssumption DEF Init, Born, Conn
<1>3. Record
  BY DEF Init, Record, NoSocket
<1>4. Read /\ Prompt
  BY DEF Init, Read, Prompt
<1> QED
  BY <1>1, <1>2, <1>3, <1>4 DEF IInv

LEMMA StepIInv == IInv /\ [Next]_vars => IInv'
<1> SUFFICES ASSUME IInv, [Next]_vars PROVE IInv'
  OBVIOUS
<1> USE MaxConnAssumption DEF IInv, TypeInv, Conn, NoSocket
<1>1. CASE accepterClt
  <2> USE <1>1 DEF accepterClt
  <2>1. user_id + 1 \in 0..MaxConn /\ [info EXCEPT !.socket = 0] \in [socket : 0..MaxConn, id : 0..MaxConn]
    <3>1. user_id + 1 \in 0..MaxConn
      OBVIOUS
    <3>2. [info EXCEPT !.socket = 0] \in [socket : 0..MaxConn, id : 0..MaxConn]
      OBVIOUS
    <3> QED
      BY <3>1, <3>2
  <2>2. TypeInv'
    BY <2>1
  <2>3. Born'
    <3>1. \A c \in Conn : c < user_id' <=> c < user_id \/ c = user_id
      OBVIOUS
    <3>2. \A c \in Conn : at[c] # "none" => c < user_id'
      BY <3>1 DEF Born
    <3> QED
      BY <3>2 DEF Born
  <2>4. Record'
    BY DEF Record
  <2>5. Read'
    BY DEF Read
  <2>6. Prompt'
    BY DEF Prompt, Starting
  <2> QED
    BY <2>2, <2>3, <2>4, <2>5, <2>6
<1>2. CASE FillSocket
  <2> USE <1>2 DEF FillSocket
  <2>1. TypeInv'
    OBVIOUS
  <2>2. Born'
    BY DEF Born
  <2>3. Record'
    BY DEF Record
  <2>4. Read'
    BY DEF Read, Record
  <2>5. Prompt'
    BY DEF Prompt, Born, Record
  <2> QED
    BY <2>1, <2>2, <2>3, <2>4, <2>5
<1>3. CASE FillId
  <2> USE <1>3 DEF FillId
  <2>1. TypeInv'
    OBVIOUS
  <2>2. Born'
    BY DEF Born
  <2>3. Record'
    BY DEF Record
  <2>4. Read'
    BY DEF Read, Record
  <2>5. Prompt'
    BY DEF Prompt, Born, Record
  <2> QED
    BY <2>1, <2>2, <2>3, <2>4, <2>5
<1>4. CASE Create
  <2> USE <1>4 DEF Create
  <2>1. TypeInv'
    OBVIOUS
  <2>2. Born'
    BY DEF Born
  <2>3. Record'
    BY DEF Record
  <2>4. Read'
    BY DEF Read, Record
  <2>5. Prompt'
    BY DEF Prompt, Born, Record
  <2> QED
    BY <2>1, <2>2, <2>3, <2>4, <2>5
<1>5. ASSUME NEW c \in Conn, ReadSocket(c)
      PROVE  IInv'
  <2> USE <1>5 DEF ReadSocket
  <2>1. TypeInv'
    OBVIOUS
  <2>2. Born'
    BY DEF Born
  <2>3. Record'
    BY DEF Record
  <2>4. Read'
    BY DEF Read, Record, Born
  <2>5. Prompt'
    <3>1. ~reused => c = user_id /\ info.socket = c
      BY DEF Prompt, Record
    <3>2. at'[c] = "readId" /\ got'[c].socket = info.socket
      OBVIOUS
    <3>3. \A d \in Conn : d # c => at'[d] = at[d] /\ got'[d] = got[d]
      OBVIOUS
    <3>4. ~reused => main = "accept"
      BY DEF Prompt
    <3> QED
      BY <3>1, <3>2, <3>3, <3>4 DEF Prompt
  <2> QED
    BY <2>1, <2>2, <2>3, <2>4, <2>5
<1>6. ASSUME NEW c \in Conn, ReadId(c)
      PROVE  IInv'
  <2> USE <1>6 DEF ReadId
  <2>1. TypeInv'
    OBVIOUS
  <2>2. Born'
    BY DEF Born
  <2>3. Record'
    BY DEF Record
  <2>4. Read'
    <3>1. c <= info.id /\ info.id <= user_id
      <4>1. c < user_id \/ (c = user_id /\ main = "accept")
        BY DEF Born
      <4>2. main = "accept" \/ main = "create" => info.id = user_id
        BY DEF Record
      <4>3. info.id \in {user_id, user_id - 1}
        BY DEF Record
      <4> QED
        BY <4>1, <4>2, <4>3
    <3>2. at'[c] = "serving" /\ got'[c].socket = got[c].socket /\ got'[c].id = info.id
      OBVIOUS
    <3>3. \A d \in Conn : d # c => at'[d] = at[d] /\ got'[d] = got[d]
      OBVIOUS
    <3> QED
      BY <3>1, <3>2, <3>3 DEF Read
  <2>5. Prompt'
    <3>1. ~reused => got[c].socket = c /\ info.id = c
      BY DEF Prompt, Record
    <3>2. at'[c] = "serving" /\ got'[c].socket = got[c].socket /\ got'[c].id = info.id
      OBVIOUS
    <3>3. \A d \in Conn : d # c => at'[d] = at[d] /\ got'[d] = got[d]
      OBVIOUS
    <3> QED
      BY <3>1, <3>2, <3>3 DEF Prompt
  <2> QED
    BY <2>1, <2>2, <2>3, <2>4, <2>5
<1>7. CASE CreateFails
  <2> USE <1>7 DEF CreateFails
  <2>1. TypeInv'
    OBVIOUS
  <2>2. Born'
    BY DEF Born
  <2>3. Record' /\ Read'
    BY DEF Record, Read
  <2>4. Prompt'
    BY DEF Prompt, Born
  <2> QED
    BY <2>1, <2>2, <2>3, <2>4
<1>8. CASE UNCHANGED vars
  BY <1>8 DEF vars, Born, Record, Read, Prompt
<1> QED
  BY <1>1, <1>2, <1>3, <1>4, <1>5, <1>6, <1>7, <1>8 DEF Next

\* A thread never passes for the user of an earlier connection.
THEOREM NotEarlier == Spec => []NeverEarlier
<1>1. IInv => NeverEarlier
  BY MaxConnAssumption DEF IInv, TypeInv, Read, NeverEarlier, Serving, Conn, NoSocket
<1> QED
  BY <1>1, InitIInv, StepIInv, PTL DEF Spec

\* As long as no connection is accepted while a thread is still reading its
\* record, every thread serves its own client.
THEOREM PromptIsSafe == Spec => []PromptServesOwn
<1>1. IInv => PromptServesOwn
  BY DEF IInv, TypeInv, Prompt, PromptServesOwn, Serving, Own
<1> QED
  BY <1>1, InitIInv, StepIInv, PTL DEF Spec
=============================================================================
