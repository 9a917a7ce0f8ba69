--------------------------- MODULE Dialogue_proofs ---------------------------
(***************************************************************************)
(* Proofs about the dialogue of a client and its service thread, for any   *)
(* number of lines typed, of messages heard and of torn reads.             *)
(***************************************************************************)
EXTENDS Dialogue, SequenceTheorems, TLAPS

Line == [num : ReqNum, body : Body, line : 1..MaxTyped]
PieceOf(T) == [part : {"head", "tail"}, r : T]
Handled == [line : 1..MaxTyped, req : Request]

\* The two ends and the history.
Ends ==
  /\ atSrv \in {"open", "eof", "reset"} /\ atClt \in {"open", "eof", "reset"}
  /\ srv \in Serving \cup Finished \cup {"off"}
  /\ clt \in Gone \cup {"off", "open", "joined"}
  /\ got \in {MSG_NUM, CMD_BYE_NUM}
  /\ logged \in BOOLEAN /\ heard \in 0..MaxHeard
  /\ cuts \in 0..MaxCuts /\ merged \in BOOLEAN

\* The way down: the answers, and the pieces of those written.
Down ==
  /\ todo \in Seq(ReqNum) /\ Len(todo) <= 2
  /\ s2c \in Queue({0})

\* The way up: the lines, their pieces, the requests made of them.  A request
\* that is handled has taken at least one of the two pieces of a line.
Up ==
  /\ typed \in Seq(Line) /\ Len(typed) <= MaxTyped
  /\ \A j \in 1..Len(typed) : typed[j].line = j /\ typed[j].body \in {Empty, j}
  /\ c2s \in Queue(1..MaxTyped)
  /\ req \in Request
  /\ handled \in Seq(Handled) /\ Len(handled) + Len(c2s) <= 2 * Len(typed)

\* What waits in the stream is the lines m+1 to k, both pieces of each; k is the
\* last line as long as the client's writes arrive.
Waiting(m, k) ==
  /\ m <= k /\ k <= Len(typed) /\ (atClt = "open" => k = Len(typed))
  /\ Len(c2s) = 2 * (k - m)
  /\ \A i \in 1..(k - m) : /\ c2s[2 * i - 1] = [part |-> "head", r |-> typed[m + i]]
                           /\ c2s[2 * i] = [part |-> "tail", r |-> typed[m + i]]

\* The last body that was not empty among the first k lines.
BodyHeld(k) == Max({Unknown} \cup ({typed[j].body : j \in 1..k} \ {Empty}))

\* What was handled, to the letter: an empty line with the body that was held.
HandledAsHeld ==
  Whole =>
    \A k \in DOMAIN handled :
      /\ handled[k].line = k
      /\ handled[k].req = [num |-> typed[k].num, body |-> BodyHeld(k)]

\* What the service thread knows comes from the first m lines.
Known(m) ==
  /\ req.body <= m
  /\ \A h \in 1..Len(handled) : handled[h].line <= m
  /\ ~merged => m = Len(handled) /\ req.body = BodyHeld(m)

InStep == cuts = 0 => \E m, k \in Nat : Waiting(m, k) /\ Known(m)

IInv == Ends /\ Down /\ Up /\ InStep /\ InOrder /\ HandledAsHeld

-----------------------------------------------------------------------------
(* The body that is held. *)

LEMMA MaxIs ==
  ASSUME NEW S \in SUBSET Int, NEW x \in S, \A y \in S : x >= y
  PROVE  Max(S) = x
<1>1. \A z \in S : (\A y \in S : z >= y) => z = x
  OBVIOUS
<1> QED
  BY <1>1 DEF Max

LEMMA NothingHeld == BodyHeld(0) = Unknown
<1>1. {Unknown} \cup ({typed[j].body : j \in 1..0} \ {Empty}) = {Unknown}
  OBVIOUS
<1> QED
  BY <1>1, MaxIs DEF BodyHeld, Unknown

\* An empty line leaves the body, another one replaces it.
LEMMA HeldNext ==
  ASSUME Up, NEW m \in Nat, m < Len(typed)
  PROVE  BodyHeld(m + 1) = IF typed[m + 1].body = Empty THEN BodyHeld(m) ELSE typed[m + 1].body
<1> DEFINE S(k) == {Unknown} \cup ({typed[j].body : j \in 1..k} \ {Empty})
           b == typed[m + 1].body
<1>1. Len(typed) \in Nat /\ m + 1 \in 1..Len(typed) /\ 1..(m + 1) = 1..m \cup {m + 1}
  BY LenProperties DEF Up
<1>2. S(m + 1) = S(m) \cup ({b} \ {Empty})
  BY <1>1
<1>3. CASE b = Empty
  BY <1>2, <1>3 DEF BodyHeld
<1>4. CASE b # Empty
  <2>1. b = m + 1
    BY <1>1, <1>4 DEF Up
  <2>2. \A y \in S(m + 1) : y \in Int /\ b >= y
    BY <1>1, <2>1 DEF Up, Unknown, Empty
  <2>3. b \in S(m + 1)
    BY <1>2, <1>4
  <2>4. Max(S(m + 1)) = b
    <3> HIDE DEF S, b
    <3> QED
      BY <2>2, <2>3, MaxIs
  <2> QED
    BY <1>4, <2>4 DEF BodyHeld
<1> QED
  BY <1>3, <1>4

\* Lines typed since do not change it.
LEMMA HeldBefore ==
  ASSUME NEW m, \A j \in 1..m : typed'[j] = typed[j]
  PROVE  BodyHeld(m)' = BodyHeld(m)
BY DEF BodyHeld

-----------------------------------------------------------------------------
(* The stream from the client to the server. *)

\* Steps that neither type nor read keep what is known of the lines.
LEMMA LinesKeep ==
  ASSUME Up, InStep, InOrder, HandledAsHeld, UNCHANGED <<typed, c2s, req, handled>>,
         cuts' = 0 => cuts = 0, merged => merged', atClt' = "open" => atClt = "open"
  PROVE  Up' /\ InStep' /\ InOrder' /\ HandledAsHeld'
<1>1. Up'
  BY DEF Up
<1>2. \A m \in Nat : BodyHeld(m)' = BodyHeld(m)
  BY DEF BodyHeld
<1>3. InStep'
  BY <1>2 DEF InStep, Waiting, Known
<1>4. InOrder'
  BY DEF InOrder
<1>5. HandledAsHeld'
  BY DEF HandledAsHeld, Whole, BodyHeld
<1> QED
  BY <1>1, <1>3, <1>4, <1>5

\* The pieces of a line.
LEMMA TwoPieces ==
  ASSUME NEW r
  PROVE  Len(Pieces(r)) = 2 /\ Pieces(r)[1] = [part |-> "head", r |-> r]
                            /\ Pieces(r)[2] = [part |-> "tail", r |-> r]
BY DEF Pieces

\* What the reader finds when they are written behind what waits.
LEMMA Written ==
  ASSUME NEW r \in Line, NEW queue \in Seq(PieceOf(Line))
  PROVE  /\ queue \o Pieces(r) \in Seq(PieceOf(Line))
         /\ Len(queue) \in Nat /\ Len(queue \o Pieces(r)) = Len(queue) + 2
         /\ \A i \in 1..Len(queue) : (queue \o Pieces(r))[i] = queue[i]
         /\ (queue \o Pieces(r))[Len(queue) + 1] = [part |-> "head", r |-> r]
         /\ (queue \o Pieces(r))[Len(queue) + 2] = [part |-> "tail", r |-> r]
<1> DEFINE P == PieceOf(Line)
           p == Pieces(r)
<1>1. p \in Seq(P)
  BY DEF Pieces, PieceOf
<1>2. /\ Len(p) = 2
      /\ p[1] = [part |-> "head", r |-> r]
      /\ p[2] = [part |-> "tail", r |-> r]
  BY TwoPieces
<1>3. queue \in Seq(P)
  OBVIOUS
<1> HIDE DEF P, p
<1>4. /\ queue \o p \in Seq(P)
      /\ Len(queue \o p) = Len(queue) + Len(p)
      /\ \A i \in 1..(Len(queue) + Len(p)) :
           (queue \o p)[i] = IF i <= Len(queue) THEN queue[i] ELSE p[i - Len(queue)]
  BY <1>1, <1>3, ConcatProperties
<1>5. Len(queue) \in Nat
  BY <1>3, LenProperties
<1>6. (queue \o p)[Len(queue) + 1] = p[1] /\ (queue \o p)[Len(queue) + 2] = p[2]
  BY <1>2, <1>4, <1>5
<1>7. \A i \in 1..Len(queue) : (queue \o p)[i] = queue[i]
  BY <1>2, <1>4, <1>5
<1> QED
  BY <1>2, <1>4, <1>5, <1>6, <1>7 DEF P, p

\* One line more, and its pieces in the stream unless the server has closed.
LEMMA LineKeeps ==
  ASSUME Up, InStep, InOrder, HandledAsHeld, Len(typed) < MaxTyped,
         NEW r \in Line, r.line = Len(typed) + 1, r.body \in {Empty, Len(typed) + 1},
         typed' = Append(typed, r), UNCHANGED <<req, handled, cuts, merged>>,
         \/ atClt = "open" /\ c2s' = c2s \o Pieces(r)
         \/ atClt # "open" /\ atClt' # "open" /\ c2s' = c2s
  PROVE  Up' /\ InStep' /\ InOrder' /\ HandledAsHeld'
<1> DEFINE l == Len(typed) + 1
           Piece == PieceOf(Line)
<1>1. /\ Len(typed) \in Nat /\ Len(typed') = l /\ typed' \in Seq(Line) /\ typed'[l] = r
      /\ \A j \in 1..Len(typed) : typed'[j] = typed[j]
  BY DEF Up
<1>2. /\ Len(c2s) \in Nat /\ Len(c2s') \in Nat /\ c2s' \in Seq(Piece)
      /\ \A i \in 1..Len(c2s) : c2s'[i] = c2s[i]
      /\ Len(c2s') <= Len(c2s) + 2
  <2>1. c2s \in Seq(Piece)
    BY DEF Up, Queue, Line, PieceOf
  <2>2. CASE c2s' = c2s
    BY <2>1, <2>2, LenProperties
  <2>3. CASE c2s' = c2s \o Pieces(r)
    <3>1. c2s \in Seq(PieceOf(Line)) /\ Len(c2s) \in Nat
      BY <2>1, LenProperties
    <3>2. c2s' \in Seq(PieceOf(Line))
      BY <2>3, <3>1, Written
    <3>3. Len(c2s') = Len(c2s) + 2
      BY <2>3, <3>1, Written
    <3>4. \A i \in 1..Len(c2s) : c2s'[i] = c2s[i]
      BY <2>3, <3>1, Written
    <3> QED
      BY <3>1, <3>2, <3>3, <3>4
  <2> QED
    BY <2>2, <2>3
<1>3. Up'
  <2>1. Len(handled) + Len(c2s') <= 2 * l
    <3>1. Len(handled) \in Nat
      BY LenProperties DEF Up
    <3> QED
      BY <1>1, <1>2, <3>1 DEF Up
  <2>2. \A j \in 1..l : typed'[j].line = j /\ typed'[j].body \in {Empty, j}
    BY <1>1 DEF Up
  <2>3. c2s' \in Queue(1..MaxTyped)
    BY <1>2 DEF Queue, Line, PieceOf
  <2>4. l <= MaxTyped
    BY <1>1, DialogueAssumption
  <2> QED
    BY <1>1, <2>1, <2>2, <2>3, <2>4 DEF Up
<1>4. \A m \in Nat : m <= Len(typed) => BodyHeld(m)' = BodyHeld(m)
  BY <1>1, HeldBefore
<1>5. InStep'
  <2> SUFFICES ASSUME cuts = 0 PROVE \E m, k \in Nat : Waiting(m, k)' /\ Known(m)'
    BY DEF InStep
  <2>1. PICK m \in Nat, k \in Nat : Waiting(m, k) /\ Known(m)
    BY DEF InStep
  <2>2. Known(m)'
    BY <1>1, <1>4, <2>1 DEF Known, Waiting
  <2>3. CASE c2s' = c2s \o Pieces(r) /\ atClt = "open"
    <3>1. k = Len(typed) /\ Len(c2s) = 2 * (k - m) /\ m <= k
      BY <2>1, <2>3 DEF Waiting
    <3>2. /\ Len(c2s') = Len(c2s) + 2
          /\ c2s'[Len(c2s) + 1] = [part |-> "head", r |-> r]
          /\ c2s'[Len(c2s) + 2] = [part |-> "tail", r |-> r]
      <4>1. c2s \in Seq(Piece)
        BY DEF Up, Queue, Line, PieceOf
      <4> HIDE DEF Piece
      <4> QED
        BY <2>3, <4>1, Written DEF Piece
    <3>4. PICK q \in Nat : q = k + 1
      OBVIOUS
    <3>5. ASSUME NEW i \in 1..(q - m)
          PROVE  /\ c2s'[2 * i - 1] = [part |-> "head", r |-> typed'[m + i]]
                 /\ c2s'[2 * i] = [part |-> "tail", r |-> typed'[m + i]]
      <4>1. CASE i = q - m
        <5>1. 2 * i - 1 = Len(c2s) + 1 /\ 2 * i = Len(c2s) + 2 /\ m + i = l
          BY <3>1, <3>4, <4>1
        <5> QED
          BY <1>1, <3>2, <5>1
      <4>2. CASE i # q - m
        <5>1. /\ i \in 1..(k - m) /\ m + i \in 1..Len(typed)
              /\ 2 * i - 1 \in 1..Len(c2s) /\ 2 * i \in 1..Len(c2s)
          BY <3>1, <3>4, <4>2
        <5> QED
          BY <1>1, <1>2, <2>1, <5>1 DEF Waiting
      <4> QED
        BY <4>1, <4>2
    <3>6. m <= q /\ q = Len(typed') /\ Len(c2s') = 2 * (q - m)
      BY <1>1, <3>1, <3>2, <3>4
    <3>7. Waiting(m, q)'
      <4>1. \A i \in 1..(q - m) :
              /\ c2s'[2 * i - 1] = [part |-> "head", r |-> typed'[m + i]]
              /\ c2s'[2 * i] = [part |-> "tail", r |-> typed'[m + i]]
        BY <3>5
      <4>2. m <= q /\ q <= Len(typed') /\ (atClt' = "open" => q = Len(typed'))
        BY <1>1, <3>6
      <4> QED
        BY <3>6, <4>1, <4>2, Zenon DEF Waiting
    <3> QED
      BY <2>2, <3>7
  <2>4. CASE c2s' = c2s /\ atClt' # "open"
    <3>1. \A i \in 1..(k - m) : m + i \in 1..Len(typed)
      BY <1>1, <2>1 DEF Waiting
    <3>2. \A i \in 1..(k - m) :
            /\ c2s'[2 * i - 1] = [part |-> "head", r |-> typed'[m + i]]
            /\ c2s'[2 * i] = [part |-> "tail", r |-> typed'[m + i]]
      BY <1>1, <2>1, <2>4, <3>1 DEF Waiting
    <3>3. m <= k /\ k <= Len(typed') /\ Len(c2s') = 2 * (k - m)
      BY <1>1, <2>1, <2>4 DEF Waiting
    <3>4. Waiting(m, k)'
      BY <2>4, <3>2, <3>3 DEF Waiting
    <3> QED
      BY <2>2, <3>4
  <2> QED
    BY <2>3, <2>4
<1>6. cuts = 0 => /\ \A h \in DOMAIN handled : handled[h].line \in 1..Len(typed)
                  /\ ~merged => Len(handled) <= Len(typed)
  <2> SUFFICES ASSUME cuts = 0
               PROVE  /\ \A h \in DOMAIN handled : handled[h].line \in 1..Len(typed)
                      /\ ~merged => Len(handled) <= Len(typed)
    OBVIOUS
  <2>1. PICK m \in Nat, k \in Nat : Waiting(m, k) /\ Known(m)
    BY DEF InStep
  <2>2. \A h \in DOMAIN handled : handled[h].line \in Nat \ {0} /\ h \in 1..Len(handled)
    <3>1. handled \in [1..Len(handled) -> Handled] /\ DOMAIN handled = 1..Len(handled)
      BY LenProperties DEF Up
    <3>2. \A h \in DOMAIN handled : handled[h].line \in 1..MaxTyped
      BY <3>1 DEF Handled
    <3> QED
      BY <3>1, <3>2, DialogueAssumption
  <2> QED
    BY <1>1, <2>1, <2>2 DEF Waiting, Known
<1>7. InOrder'
  BY <1>1, <1>6 DEF InOrder
<1>8. HandledAsHeld'
  <2>1. \A k \in DOMAIN handled : k \in Nat /\ k \in 1..Len(handled)
    BY DEF Up
  <2>2. Whole => \A k \in DOMAIN handled : k \in 1..Len(typed)
    BY <1>1, <1>6, <2>1 DEF Whole
  <2> QED
    BY <1>1, <1>4, <2>1, <2>2 DEF HandledAsHeld, Whole
<1> QED
  BY <1>3, <1>5, <1>7, <1>8

\* A read that ends with a tail has taken the first waiting lines, whole.
LEMMA WholeLines ==
  ASSUME NEW m \in Nat, NEW k \in Nat, Waiting(m, k),
         NEW n \in 1..Len(c2s), c2s[n].part = "tail"
  PROVE  /\ c2s[1] = [part |-> "head", r |-> typed[m + 1]]
         /\ \E j \in 1..(k - m) : n = 2 * j
<1>1. Len(c2s) = 2 * (k - m) /\ k - m \in Nat /\ 1 \in 1..(k - m)
  BY DEF Waiting
<1>2. c2s[1] = [part |-> "head", r |-> typed[m + 1]]
  <2>1. c2s[2 * 1 - 1] = [part |-> "head", r |-> typed[m + 1]]
    BY <1>1 DEF Waiting
  <2> QED
    BY <2>1
<1>3. ASSUME NEW i \in 1..(k - m)
      PROVE  n # 2 * i - 1
  <2>1. c2s[2 * i - 1] = [part |-> "head", r |-> typed[m + i]]
    BY DEF Waiting
  <2> QED
    BY <2>1
<1>4. PICK d \in Nat : d = k - m
  BY <1>1
<1>5. PICK i \in 1..d : n = 2 * i - 1 \/ n = 2 * i
  <2>1. n \in Nat /\ 1 <= n /\ n <= 2 * d
    BY <1>1, <1>4
  <2>2. PICK i \in Nat : n = 2 * i - 1 \/ n = 2 * i
    <3>1. CASE n % 2 = 0
      <4>1. n = 2 * (n \div 2) /\ n \div 2 \in Nat
        BY <2>1, <3>1
      <4> QED
        BY <4>1
    <3>2. CASE n % 2 = 1
      <4>1. n = 2 * (n \div 2) + 1 /\ (n \div 2) + 1 \in Nat
        BY <2>1, <3>2
      <4>2. PICK i \in Nat : i = (n \div 2) + 1
        BY <4>1
      <4>3. n = 2 * i - 1
        BY <4>1, <4>2
      <4> QED
        BY <4>3
    <3> QED
      BY <2>1, <3>1, <3>2
  <2>3. i \in 1..d
    BY <2>1, <2>2
  <2> QED
    BY <2>2, <2>3
<1> QED
  BY <1>2, <1>3, <1>4, <1>5

\* What a read of n pieces does.
Read(n) ==
  /\ n \in Readable(c2s)
  /\ req' \in str2req(req, c2s, n)
  /\ Tear(c2s, n)
  /\ c2s' = Rest(c2s, n)
  /\ handled' = Append(handled, [line |-> c2s[1].r.line, req |-> req'])
  /\ UNCHANGED <<typed, atClt>>

LEMMA ReadUp ==
  ASSUME Up, NEW n, Read(n)
  PROVE  /\ Up'
         /\ n \in 1..Len(c2s) /\ Len(c2s) \in Nat /\ Len(handled) \in Nat
         /\ Len(c2s') = Len(c2s) - n
         /\ \A i \in 1..(Len(c2s) - n) : c2s'[i] = c2s[n + i]
         /\ Len(handled') = Len(handled) + 1
         /\ \A h \in 1..Len(handled) : handled'[h] = handled[h]
         /\ handled'[Len(handled) + 1] = [line |-> c2s[1].r.line, req |-> req']
<1> DEFINE P == [part : {"head", "tail"}, r : [num : ReqNum, body : Body, line : 1..MaxTyped]]
<1>1. Len(c2s) \in Nat /\ Len(handled) \in Nat /\ Len(typed) \in Nat
  BY LenProperties DEF Up, Queue
<1>2. n \in 1..Len(c2s)
  BY DEF Read, Readable
<1>3. c2s \in Seq(P)
  BY DEF Up, Queue
<1>4. c2s[1] \in P
  <2> HIDE DEF P
  <2> QED
    BY <1>1, <1>2, <1>3
<1>5. /\ c2s' \in Seq(P)
      /\ Len(c2s') = Len(c2s) - n
      /\ \A i \in 1..(Len(c2s) - n) : c2s'[i] = c2s[n + i]
  <2> HIDE DEF P
  <2>1. c2s' = SubSeq(c2s, n + 1, Len(c2s))
    BY DEF Read, Rest
  <2> QED
    BY <1>1, <1>2, <1>3, <2>1
<1>6. req' \in Request
  <2>1. CASE Cut(c2s, n)
    <3>1. req' \in [num : Stray \cup {req.num, c2s[1].r.num}, body : {req.body, Unknown}]
      BY <2>1 DEF Read, str2req
    <3>2. Unknown \in Body
      BY DialogueAssumption DEF Body, Unknown
    <3> QED
      BY <1>4, <3>1, <3>2 DEF Up, Request
  <2>2. CASE ~Cut(c2s, n)
    <3>1. req' = [num |-> c2s[1].r.num,
                  body |-> IF c2s[1].r.body = Empty THEN req.body ELSE c2s[1].r.body]
      BY <2>2 DEF Read, str2req
    <3> QED
      BY <1>4, <3>1 DEF Up, Request
  <2> QED
    BY <2>1, <2>2
<1>7. [line |-> c2s[1].r.line, req |-> req'] \in Handled
  BY <1>4, <1>6 DEF Handled
<1>8. /\ handled' \in Seq(Handled)
      /\ Len(handled') = Len(handled) + 1
      /\ \A h \in 1..Len(handled) : handled'[h] = handled[h]
      /\ handled'[Len(handled) + 1] = [line |-> c2s[1].r.line, req |-> req']
  BY <1>7 DEF Up, Read
<1>9. Up'
  <2>1. Len(handled') + Len(c2s') <= 2 * Len(typed)
    BY <1>1, <1>2, <1>5, <1>8 DEF Up
  <2>2. typed' = typed /\ c2s' \in Queue(1..MaxTyped)
    BY <1>5 DEF Queue, Read
  <2> QED
    BY <1>6, <1>8, <2>1, <2>2 DEF Up
<1> QED
  BY <1>1, <1>2, <1>5, <1>8, <1>9

\* What the first waiting line becomes.
LEMMA ReadFirst ==
  ASSUME Up, InStep, NEW n, Read(n), cuts' = 0, cuts \in Nat
  PROVE  /\ cuts = 0
         /\ \E m, k, j \in Nat :
              /\ j \in 1..(k - m)
              /\ Waiting(m, k) /\ Known(m) /\ n = 2 * j
              /\ c2s[1].r = typed[m + 1] /\ m + 1 \in 1..Len(typed)
              /\ req' = [num |-> typed[m + 1].num,
                         body |-> IF typed[m + 1].body = Empty THEN req.body
                                  ELSE typed[m + 1].body]
<1>1. cuts = 0 /\ c2s[n].part = "tail"
  <2> DEFINE P == [part : {"head", "tail"}, r : [num : ReqNum, body : Body, line : 1..MaxTyped]]
  <2>1. c2s[n] \in P
    <3>1. c2s \in Seq(P) /\ n \in 1..Len(c2s)
      BY DEF Up, Queue, Read, Readable
    <3> HIDE DEF P
    <3> QED
      BY <3>1
  <2>2. cuts' = IF c2s[n].part = "head" THEN cuts + 1 ELSE cuts
    BY DEF Read, Tear
  <2> QED
    BY <2>1, <2>2
<1>2. PICK m \in Nat, k \in Nat : Waiting(m, k) /\ Known(m)
  BY <1>1 DEF InStep
<1>3. n \in 1..Len(c2s)
  BY DEF Read, Readable
<1>4. c2s[1] = [part |-> "head", r |-> typed[m + 1]]
  BY <1>1, <1>2, <1>3, WholeLines
<1>5. PICK j \in 1..(k - m) : n = 2 * j
  BY <1>1, <1>2, <1>3, WholeLines
<1>6. ~Cut(c2s, n)
  BY <1>4, <1>5 DEF Cut
<1>7. c2s[1].r = typed[m + 1]
  BY <1>4
<1>8. req' = [num |-> typed[m + 1].num,
              body |-> IF typed[m + 1].body = Empty THEN req.body ELSE typed[m + 1].body]
  BY <1>6, <1>7 DEF Read, str2req
<1>9. m + 1 \in 1..Len(typed)
  <2>1. Len(typed) \in Nat
    BY LenProperties DEF Up
  <2> QED
    BY <1>2, <1>5, <2>1 DEF Waiting
<1>10. j \in Nat /\ j \in 1..(k - m)
  BY <1>5
<1> QED
  BY <1>1, <1>2, <1>5, <1>7, <1>8, <1>9, <1>10

LEMMA ReadKeeps ==
  ASSUME Up, InStep, InOrder, HandledAsHeld, NEW n, Read(n),
         cuts \in Nat, merged \in BOOLEAN
  PROVE  Up' /\ InStep' /\ InOrder' /\ HandledAsHeld'
<1>1. Up'
  BY ReadUp
<1>2. CASE cuts' # 0
  BY <1>1, <1>2 DEF InStep, InOrder, HandledAsHeld, Whole
<1>3. CASE cuts' = 0
  <2>1. cuts = 0
    BY <1>3, ReadFirst
  <2>2. PICK m \in Nat, k \in Nat, j \in Nat :
          /\ j \in 1..(k - m)
          /\ Waiting(m, k) /\ Known(m) /\ n = 2 * j
          /\ c2s[1].r = typed[m + 1] /\ m + 1 \in 1..Len(typed)
          /\ req' = [num |-> typed[m + 1].num,
                     body |-> IF typed[m + 1].body = Empty THEN req.body ELSE typed[m + 1].body]
    BY <1>3, ReadFirst
  <2>3. PICK q \in Nat : q = m + j
    OBVIOUS
  <2>4. PICK p \in Nat : p = m + 1
    OBVIOUS
  <2>5. typed' = typed /\ atClt' = atClt
    BY DEF Read
  <2>6. typed[p].line = p /\ typed[p].body \in {Empty, p} /\ Len(typed) \in Nat
    BY <2>2, <2>4, LenProperties DEF Up
  <2>7. /\ Len(handled) \in Nat /\ Len(handled') = Len(handled) + 1
        /\ \A h \in 1..Len(handled) : handled'[h] = handled[h]
        /\ handled'[Len(handled) + 1] = [line |-> p, req |-> req']
        /\ DOMAIN handled = 1..Len(handled) /\ DOMAIN handled' = 1..Len(handled')
    <3>1. handled'[Len(handled) + 1] = [line |-> c2s[1].r.line, req |-> req']
      BY ReadUp
    <3>2. DOMAIN handled = 1..Len(handled) /\ DOMAIN handled' = 1..Len(handled')
      BY <1>1, LenProperties DEF Up
    <3>3. Len(handled) \in Nat /\ Len(handled') = Len(handled) + 1
      BY ReadUp
    <3>4. \A h \in 1..Len(handled) : handled'[h] = handled[h]
      BY ReadUp
    <3>5. c2s[1].r.line = p
      BY <2>2, <2>4, <2>6
    <3> QED
      BY <3>1, <3>2, <3>3, <3>4, <3>5
  <2>8. req'.num = typed[p].num /\ req'.body <= p
    <3>1. req.body \in Int /\ req.body <= m
      BY <2>2 DEF Known, Up, Request, Body, Unknown
    <3>2. req'.num = typed[p].num /\ req'.body \in {req.body, typed[p].body}
      BY <2>2, <2>4
    <3>3. typed[p].body <= p
      BY <2>6 DEF Empty
    <3> QED
      BY <2>4, <3>1, <3>2, <3>3
  <2>9. ~merged' => ~merged /\ j = 1
    <3>1. merged' = (merged \/ n > 2)
      BY DEF Read, Tear
    <3>2. n > 2 \/ j = 1
      BY <2>2
    <3> QED
      BY <3>1, <3>2
  <2>10. ~merged' => p = Len(handled) + 1 /\ req'.body = BodyHeld(p)
    <3> SUFFICES ASSUME ~merged' PROVE p = Len(handled) + 1 /\ req'.body = BodyHeld(p)
      OBVIOUS
    <3>1. m = Len(handled) /\ req.body = BodyHeld(m)
      BY <2>2, <2>9 DEF Known
    <3>2. m < Len(typed)
      BY <2>2, <2>6
    <3>3. BodyHeld(m + 1) = IF typed[m + 1].body = Empty THEN BodyHeld(m) ELSE typed[m + 1].body
      BY <3>2, HeldNext
    <3> QED
      BY <2>2, <2>4, <3>1, <3>3
  <2>11. \A i \in Nat : BodyHeld(i)' = BodyHeld(i)
    BY <2>5 DEF BodyHeld
  <2>12. Waiting(q, k)'
    <3>1. q <= k /\ Len(c2s') = 2 * (k - q) /\ Len(c2s) = 2 * (k - m)
      BY <2>2, <2>3, ReadUp DEF Waiting
    <3>2. ASSUME NEW i \in 1..(k - q)
          PROVE  /\ c2s'[2 * i - 1] = [part |-> "head", r |-> typed'[q + i]]
                 /\ c2s'[2 * i] = [part |-> "tail", r |-> typed'[q + i]]
      <4>1. PICK d \in 1..(k - m) : d = j + i
        BY <2>3
      <4>2. /\ c2s[2 * d - 1] = [part |-> "head", r |-> typed[m + d]]
            /\ c2s[2 * d] = [part |-> "tail", r |-> typed[m + d]]
        BY <2>2 DEF Waiting
      <4>3. m + d = q + i /\ n + (2 * i - 1) = 2 * d - 1 /\ n + 2 * i = 2 * d
        BY <2>2, <2>3, <4>1
      <4>4. 2 * i - 1 \in 1..(Len(c2s) - n) /\ 2 * i \in 1..(Len(c2s) - n)
        <5>1. Len(c2s) - n = 2 * (k - q)
          <6>1. n = 2 * j
            BY <2>2
          <6> QED
            BY <2>3, <3>1, <6>1
        <5>2. i \in Int /\ 1 <= i /\ i <= k - q
          BY <2>3
        <5> QED
          BY <5>1, <5>2
      <4>5. \A e \in 1..(Len(c2s) - n) : c2s'[e] = c2s[n + e]
        BY ReadUp
      <4>6. c2s'[2 * i - 1] = c2s[2 * d - 1] /\ c2s'[2 * i] = c2s[2 * d]
        BY <4>3, <4>4, <4>5
      <4> QED
        BY <2>5, <4>2, <4>3, <4>6
    <3> QED
      BY <2>2, <2>5, <3>1, <3>2 DEF Waiting
  <2>13. Known(q)'
    <3>1. p <= q
      BY <2>2, <2>3, <2>4
    <3>2. req'.body <= q
      <4>1. req'.body \in Int
        BY <1>1 DEF Up, Request, Body, Unknown
      <4> QED
        BY <2>8, <3>1, <4>1
    <3>3. \A h \in 1..Len(handled') : handled'[h].line <= q
      <4>1. \A h \in 1..Len(handled) : handled[h].line <= m /\ handled[h].line \in Int
        <5>1. \A h \in 1..Len(handled) : handled[h] \in Handled
          BY DEF Up
        <5> QED
          BY <2>2, <5>1, DialogueAssumption DEF Known, Handled
      <4>2. \A h \in 1..Len(handled) : handled'[h].line <= q
        BY <2>3, <2>7, <4>1
      <4>3. handled'[Len(handled) + 1].line <= q
        BY <2>7, <3>1
      <4> QED
        BY <2>7, <4>2, <4>3
    <3>4. ~merged' => q = Len(handled') /\ req'.body = BodyHeld(q)
      BY <2>3, <2>4, <2>7, <2>9, <2>10
    <3> QED
      BY <2>11, <3>2, <3>3, <3>4 DEF Known
  <2>14. InStep'
    BY <2>12, <2>13 DEF InStep
  <2>15. InOrder'
    <3>1. ASSUME NEW h \in DOMAIN handled'
          PROVE  /\ handled'[h].req.num = typed[handled'[h].line].num
                 /\ handled'[h].req.body <= handled'[h].line
                 /\ \A i \in 1..(h - 1) : handled'[i].line < handled'[h].line
      <4>1. CASE h \in 1..Len(handled)
        <5>1. \A i \in 1..(h - 1) : handled'[i] = handled[i]
          BY <2>7, <4>1
        <5> QED
          BY <2>1, <2>7, <4>1, <5>1 DEF InOrder
      <4>2. CASE h = Len(handled) + 1
        <5>1. \A i \in 1..(h - 1) : handled'[i].line <= m /\ handled'[i].line \in Int
          <6>1. \A i \in 1..Len(handled) : handled[i] \in Handled
            BY DEF Up
          <6> QED
            BY <2>2, <2>7, <4>2, <6>1, DialogueAssumption DEF Known, Handled
        <5> QED
          BY <2>4, <2>7, <2>8, <4>2, <5>1
      <4> QED
        BY <2>7, <4>1, <4>2
    <3> QED
      BY <2>5, <3>1 DEF InOrder
  <2>16. HandledAsHeld'
    <3> SUFFICES ASSUME ~merged', NEW h \in DOMAIN handled'
                 PROVE  /\ handled'[h].line = h
                        /\ handled'[h].req = [num |-> typed[h].num, body |-> BodyHeld(h)']
      BY <2>5 DEF HandledAsHeld, Whole
    <3>1. Whole
      BY <2>1, <2>9 DEF Whole
    <3>2. h \in Nat
      BY <2>7
    <3>3. CASE h \in 1..Len(handled)
      BY <2>7, <2>11, <3>1, <3>2, <3>3 DEF HandledAsHeld
    <3>4. CASE h = Len(handled) + 1
      <4>1. h = p /\ handled'[h] = [line |-> p, req |-> req']
        BY <2>7, <2>10, <3>4
      <4>2. req' = [num |-> typed[p].num, body |-> BodyHeld(p)]
        BY <2>2, <2>4, <2>10
      <4> QED
        BY <2>11, <3>2, <4>1, <4>2
    <3> QED
      BY <2>7, <3>3, <3>4
  <2> QED
    BY <1>1, <2>14, <2>15, <2>16
<1> QED
  BY <1>2, <1>3

-----------------------------------------------------------------------------
(* The actions. *)

\* A step that neither types nor reads has only the ends and the answers to keep.
LEMMA OtherSteps ==
  ASSUME IInv, Ends', Down', UNCHANGED <<typed, c2s, req, handled>>,
         cuts' = 0 => cuts = 0, merged => merged', atClt' = "open" => atClt = "open"
  PROVE  IInv'
<1>1. Up' /\ InStep' /\ InOrder' /\ HandledAsHeld'
  BY LinesKeep DEF IInv
<1> QED
  BY <1>1 DEF IInv

LEMMA ServerEndsKeeps ==
  ASSUME IInv, NEW how \in Finished, ServerEnds(how)
  PROVE  IInv'
<1>1. Ends' /\ atClt' # "open"
  BY DEF IInv, Ends, ServerEnds, News, torn
<1>2. Down'
  BY DEF IInv, Down, ServerEnds
<1> QED
  BY <1>1, <1>2, OtherSteps DEF ServerEnds, torn

LEMMA ClientEndsKeeps ==
  ASSUME IInv, NEW how \in Gone, ClientEnds(how)
  PROVE  IInv'
<1>1. Ends'
  BY DEF IInv, Ends, ClientEnds, News, torn, server
<1>2. Down'
  BY DEF IInv, Down, ClientEnds, server
<1> QED
  BY <1>1, <1>2, OtherSteps DEF ClientEnds, torn, server

\* What is written to the client is an answer or a message, and the client's
\* own writes are not touched.
LEMMA Sent ==
  ASSUME s2c \in Queue({0}), atSrv \in {"open", "eof", "reset"}, NEW num, SendToClient(num)
  PROVE  s2c' \in Queue({0}) /\ atSrv' \in {"open", "eof", "reset"} /\ UNCHANGED <<c2s, atClt>>
<1>1. CASE atSrv = "eof"
  BY <1>1 DEF SendToClient
<1>2. CASE s2c' = s2c \o Pieces([num |-> Seen(num), body |-> Unknown, line |-> 0])
  <2> DEFINE R == [num : ReqNum, body : Body, line : {0}]
             r == [num |-> Seen(num), body |-> Unknown, line |-> 0]
             P == [part : {"head", "tail"}, r : R]
  <2>1. Unknown \in Body /\ Seen(num) \in ReqNum
    BY DialogueAssumption DEF Unknown, Body, Seen, ReqNum, MSG_NUM, CMD_BYE_NUM
  <2>2. r \in R
    BY <2>1
  <2>3. Pieces(r) \in Seq(P)
    <3> HIDE DEF R, r
    <3> QED
      BY <2>2 DEF Pieces
  <2>4. s2c \in Seq(P)
    BY DEF Queue
  <2>5. s2c \o Pieces(r) \in Seq(P)
    <3> HIDE DEF P, r
    <3> QED
      BY <2>3, <2>4
  <2>6. s2c' \in Queue({0})
    BY <1>2, <2>5 DEF Queue
  <2> QED
    BY <1>2, <2>6 DEF SendToClient
<1> QED
  BY <1>1, <1>2 DEF SendToClient

LEMMA TypeKeeps ==
  ASSUME IInv, NEW input, Type(input)
  PROVE  IInv'
<1> DEFINE line == Len(typed) + 1
           buff == custom_read(input)
           r == [num |-> NumberOf(buff), body |-> IF buff = "" THEN Empty ELSE line,
                 line |-> line]
<1>1. /\ Len(typed) < MaxTyped
      /\ \/ /\ atClt = "open"
            /\ typed' = Append(typed, r)
            /\ c2s' = c2s \o Pieces(r)
            /\ UNCHANGED <<s2c, atSrv, atClt, server, clt, got, torn>>
         \/ /\ atClt = "eof"
            /\ typed' = Append(typed, r)
            /\ atClt' = "reset"
            /\ UNCHANGED <<c2s, s2c, atSrv, server, clt, got, torn>>
         \/ /\ atClt = "reset"
            /\ ClientEnds("failed")
  BY DEF Type
<1>2. CASE ClientEnds("failed")
  BY <1>2, ClientEndsKeeps DEF Gone
<1>3. CASE ~ClientEnds("failed")
  <2>1. Len(typed) \in Nat /\ line \in 1..MaxTyped
    <3>1. Len(typed) \in Nat
      BY LenProperties DEF IInv, Up
    <3>2. MaxTyped \in Nat
      BY DialogueAssumption
    <3>3. Len(typed) < MaxTyped
      BY <1>1
    <3> HIDE DEF buff, r
    <3> QED
      BY <3>1, <3>2, <3>3
  <2>2. NumberOf(buff) \in ReqNum
    <3> HIDE DEF buff
    <3> QED
      BY DEF NumberOf, ReqNum, CMD_BYE_NUM, CMD_LOGIN_NUM, CMD_LIST_NUM, CMD_TALK_NUM,
             CMD_PRIVATE_NUM, CMD_ERROR_UNKNOW_NUM, MSG_NUM
  <2>3. r.line = line /\ r.body \in {Empty, line}
    OBVIOUS
  <2>4. Empty \in Body /\ line \in Body
    BY <2>1, DialogueAssumption DEF Empty, Body, Unknown
  <2>5. r \in Line
    BY <2>1, <2>2, <2>4 DEF Line
  <2>6. UNCHANGED <<req, handled, cuts, merged>>
    BY <1>1, <1>3 DEF server, torn
  <2>7. typed' = Append(typed, r)
    BY <1>1, <1>3
  <2>8. \/ atClt = "open" /\ c2s' = c2s \o Pieces(r)
        \/ atClt # "open" /\ atClt' # "open" /\ c2s' = c2s
    BY <1>1, <1>3
  <2>9. Up' /\ InStep' /\ InOrder' /\ HandledAsHeld'
    <3> HIDE DEF r
    <3> QED
      BY <1>1, <2>3, <2>5, <2>6, <2>7, <2>8, LineKeeps DEF IInv
  <2>10. Ends'
    BY <1>1, <1>3 DEF IInv, Ends, server, torn
  <2>11. Down'
    BY <1>1, <1>3 DEF IInv, Down, server
  <2> QED
    BY <2>9, <2>10, <2>11 DEF IInv
<1> QED
  BY <1>2, <1>3

\* A torn read is counted within its bound.
LEMMA TornWithin ==
  ASSUME Ends, NEW queue, NEW n \in Readable(queue), queue[n].part \in {"head", "tail"},
         Tear(queue, n)
  PROVE  cuts' \in 0..MaxCuts /\ (cuts' = 0 => cuts = 0)
         /\ merged' \in BOOLEAN /\ (merged => merged')
BY DialogueAssumption DEF Ends, Readable, Tear

LEMMA ReceiveKeeps ==
  ASSUME IInv, Receive
  PROVE  IInv'
<1> DEFINE P == [part : {"head", "tail"}, r : [num : ReqNum, body : Body, line : {0}]]
<1>1. PICK n \in Readable(s2c) :
        /\ \E r \in str2req([num |-> got, body |-> Unknown], s2c, n) : got' = Seen(r.num)
        /\ Tear(s2c, n)
        /\ s2c' = Rest(s2c, n)
  BY DEF Receive
<1>2. s2c \in Seq(P) /\ n \in 1..Len(s2c)
  BY DEF IInv, Down, Queue, Readable
<1>3. s2c[n].part \in {"head", "tail"}
  <2>1. s2c[n] \in P
    <3> HIDE DEF P
    <3> QED
      BY <1>2
  <2> QED
    BY <2>1
<1>4. s2c' \in Queue({0})
  <2>1. s2c' \in Seq(P)
    <3> HIDE DEF P
    <3> QED
      BY <1>1, <1>2 DEF Rest
  <2> QED
    BY <2>1 DEF Queue
<1>5. /\ cuts' \in 0..MaxCuts /\ merged' \in BOOLEAN
      /\ cuts' = 0 => cuts = 0
      /\ merged => merged'
  BY <1>1, <1>3, TornWithin DEF IInv
<1>6. got' \in {MSG_NUM, CMD_BYE_NUM}
  BY <1>1 DEF Seen
<1>7. Ends'
  BY <1>5, <1>6 DEF Receive, IInv, Ends, server
<1>8. Down'
  BY <1>4 DEF Receive, IInv, Down, server
<1> QED
  BY <1>5, <1>7, <1>8, OtherSteps DEF Receive, server

LEMMA RequestKeeps ==
  ASSUME IInv, recevoirRequete
  PROVE  IInv'
<1>1. PICK n : Read(n)
  BY DEF recevoirRequete, Read, client
<1>2. c2s[n].part \in {"head", "tail"}
  <2> DEFINE P == [part : {"head", "tail"}, r : [num : ReqNum, body : Body, line : 1..MaxTyped]]
  <2>1. c2s \in Seq(P) /\ n \in 1..Len(c2s)
    BY <1>1 DEF IInv, Up, Queue, Read, Readable
  <2>2. c2s[n] \in P
    <3> HIDE DEF P
    <3> QED
      BY <2>1
  <2> QED
    BY <2>2
<1>3. cuts' \in 0..MaxCuts /\ merged' \in BOOLEAN
  BY <1>1, <1>2, TornWithin DEF IInv, Read
<1>4. Up' /\ InStep' /\ InOrder' /\ HandledAsHeld'
  BY <1>1, ReadKeeps, DialogueAssumption DEF IInv, Ends
<1>5. Ends'
  BY <1>3 DEF recevoirRequete, IInv, Ends, client, Serving
<1>6. Down'
  BY DEF recevoirRequete, IInv, Down
<1> QED
  BY <1>4, <1>5, <1>6 DEF IInv

LEMMA Answers ==
  ASSUME NEW a \in ReqNum, NEW b \in ReqNum
  PROVE  /\ <<a>> \in Seq(ReqNum) /\ Len(<<a>>) <= 2
         /\ <<a, b>> \in Seq(ReqNum) /\ Len(<<a, b>>) <= 2
OBVIOUS

\* A handler answers at most twice, with numbers of data.h.
Answering(S) ==
  \A o \in S : o.logged \in BOOLEAN /\ o.answers \in Seq(ReqNum) /\ Len(o.answers) <= 2

LEMMA StayAnswers ==
  ASSUME logged \in BOOLEAN, NEW nums \in SUBSET ReqNum
  PROVE  Answering(Stay(nums))
<1> SUFFICES ASSUME NEW n \in nums
             PROVE  /\ [logged |-> logged, answers |-> <<n>>].logged \in BOOLEAN
                    /\ [logged |-> logged, answers |-> <<n>>].answers \in Seq(ReqNum)
                    /\ Len([logged |-> logged, answers |-> <<n>>].answers) <= 2
  BY DEF Answering, Stay
<1>1. <<n>> \in Seq(ReqNum) /\ Len(<<n>>) <= 2
  BY Answers
<1> QED
  BY <1>1

LEMMA OutcomesAnswer ==
  ASSUME logged \in BOOLEAN, NEW num
  PROVE  Answering(Outcomes(num))
<1>1. /\ {CMD_BYE_NUM, CMD_LOGIN_NUM, CMD_LIST_NUM, CMD_TALK_NUM} \subseteq ReqNum
      /\ {CMD_ERROR_SERVER_FULL_NUM, CMD_ERROR_UNKNOW_ERROR_NUM} \subseteq ReqNum
      /\ {CMD_ERROR_USER_NOT_LOOGED_IN_NUM, CMD_ERROR_UNKNOW_NUM} \subseteq ReqNum
      /\ {CMD_ERROR_ALREADY_LOGGED_IN_NUM} \subseteq ReqNum
      /\ {CMD_ERROR_MISSING_ARGUMENT_NUM, CMD_ERROR_USERNAME_ALREADY_TAKEN_NUM} \subseteq ReqNum
      /\ {MSG_NUM, CMD_ERROR_USER_DISCONNECTED_SWAP_TO_EVERYONE_NUM} \subseteq ReqNum
      /\ {CMD_PRIVATE_NUM, CMD_ERROR_MISSING_ARGUMENT_NUM, CMD_ERROR_USER_DISCONNECTED_NUM}
           \subseteq ReqNum
  BY DEF ReqNum, MSG_NUM, CMD_BYE_NUM, CMD_LOGIN_NUM, CMD_LIST_NUM, CMD_TALK_NUM,
         CMD_PRIVATE_NUM, CMD_ERROR_UNKNOW_NUM, CMD_ERROR_ALREADY_LOGGED_IN_NUM,
         CMD_ERROR_USERNAME_ALREADY_TAKEN_NUM, CMD_ERROR_MISSING_ARGUMENT_NUM,
         CMD_ERROR_USER_DISCONNECTED_SWAP_TO_EVERYONE_NUM,
         CMD_ERROR_USER_DISCONNECTED_NUM, CMD_ERROR_SERVER_FULL_NUM,
         CMD_ERROR_USER_NOT_LOOGED_IN_NUM, CMD_ERROR_UNKNOW_ERROR_NUM
<1>2. ASSUME NEW S, Answering(S)
      PROVE  Answering(IfLogged(S))
  <2>1. Answering(Stay({CMD_ERROR_USER_NOT_LOOGED_IN_NUM}))
    BY <1>1, StayAnswers
  <2> QED
    BY <1>2, <2>1 DEF IfLogged
<1>3. ASSUME NEW in \in BOOLEAN, NEW answers \in Seq(ReqNum), Len(answers) <= 2
      PROVE  Answering({[logged |-> in, answers |-> answers]})
  BY <1>3 DEF Answering
<1>4. ASSUME NEW S, NEW T, Answering(S), Answering(T)
      PROVE  Answering(S \cup T)
  BY <1>4 DEF Answering
<1>5. Answering(traitementLogin)
  <2> DEFINE full == {[logged |-> FALSE,
                       answers |-> <<CMD_ERROR_SERVER_FULL_NUM, CMD_ERROR_UNKNOW_ERROR_NUM>>]}
             in == {[logged |-> TRUE, answers |-> <<CMD_LOGIN_NUM>>]}
             not == Stay({CMD_ERROR_MISSING_ARGUMENT_NUM, CMD_ERROR_USERNAME_ALREADY_TAKEN_NUM})
  <2>1. Answering(Stay({CMD_ERROR_ALREADY_LOGGED_IN_NUM})) /\ Answering(not)
    BY <1>1, StayAnswers
  <2>2. Answering(full)
    <3>1. /\ <<CMD_ERROR_SERVER_FULL_NUM, CMD_ERROR_UNKNOW_ERROR_NUM>> \in Seq(ReqNum)
          /\ Len(<<CMD_ERROR_SERVER_FULL_NUM, CMD_ERROR_UNKNOW_ERROR_NUM>>) <= 2
      BY <1>1, Answers
    <3> QED
      BY <1>3, <3>1
  <2>3. Answering(in)
    <3>1. <<CMD_LOGIN_NUM>> \in Seq(ReqNum) /\ Len(<<CMD_LOGIN_NUM>>) <= 2
      BY <1>1, Answers
    <3> QED
      BY <1>3, <3>1
  <2>4. traitementLogin = IF logged THEN Stay({CMD_ERROR_ALREADY_LOGGED_IN_NUM})
                                    ELSE not \cup (full \cup in)
    BY DEF traitementLogin
  <2> HIDE DEF not, full, in
  <2>5. Answering(not \cup (full \cup in))
    BY <1>4, <2>1, <2>2, <2>3
  <2> QED
    BY <2>1, <2>4, <2>5
<1>6. Answering(traitementMessage)
  BY <1>1, <1>2, StayAnswers DEF traitementMessage
<1>7. Answering(traitementBye)
  <2>1. <<CMD_BYE_NUM>> \in Seq(ReqNum) /\ Len(<<CMD_BYE_NUM>>) <= 2
    BY <1>1, Answers
  <2>2. Answering({[logged |-> FALSE, answers |-> <<CMD_BYE_NUM>>]})
    BY <1>3, <2>1
  <2> QED
    BY <1>2, <2>2 DEF traitementBye
<1>8. Answering(Stay({CMD_LIST_NUM})) /\ Answering(Stay({CMD_ERROR_UNKNOW_NUM}))
  BY <1>1, StayAnswers
<1>9. Answering(IfLogged(Stay({CMD_TALK_NUM})))
  BY <1>1, <1>2, StayAnswers
<1>10. Answering(IfLogged(Stay({CMD_PRIVATE_NUM, CMD_ERROR_MISSING_ARGUMENT_NUM,
                                CMD_ERROR_USER_DISCONNECTED_NUM})))
  BY <1>1, <1>2, StayAnswers
<1> QED
  BY <1>5, <1>6, <1>7, <1>8, <1>9, <1>10 DEF Outcomes

LEMMA HandleKeeps ==
  ASSUME IInv, Handle
  PROVE  IInv'
<1>1. PICK o \in Outcomes(req.num) : logged' = o.logged /\ todo' = o.answers
  BY DEF Handle
<1>2. logged' \in BOOLEAN /\ todo' \in Seq(ReqNum) /\ Len(todo') <= 2
  BY <1>1, OutcomesAnswer DEF IInv, Ends, Answering
<1>3. Ends'
  BY <1>2 DEF IInv, Ends, Handle, stream, client, torn, Serving
<1>4. Down'
  BY <1>2 DEF IInv, Down, Handle, stream
<1> QED
  BY <1>3, <1>4, OtherSteps DEF Handle, stream, client, torn

LEMMA AnswerKeeps ==
  ASSUME IInv, envoyerMessage
  PROVE  IInv'
<1>1. CASE ServerEnds("down")
  BY <1>1, ServerEndsKeeps DEF Finished
<1>2. CASE ~ServerEnds("down")
  <2>1. /\ srv = "write" /\ todo # <<>>
        /\ SendToClient(Head(todo))
        /\ todo' = Tail(todo)
        /\ UNCHANGED <<client, srv, req, logged, heard, handled, torn>>
    BY <1>2 DEF envoyerMessage
  <2>2. s2c' \in Queue({0}) /\ atSrv' \in {"open", "eof", "reset"} /\ UNCHANGED <<c2s, atClt>>
    BY <2>1, Sent DEF IInv, Ends, Down
  <2>3. todo' \in Seq(ReqNum) /\ Len(todo') <= 2
    <3>1. todo \in Seq(ReqNum) /\ Len(todo) <= 2 /\ Len(todo) \in Nat
      BY LenProperties DEF IInv, Down
    <3> QED
      BY <2>1, <3>1, HeadTailProperties
  <2>4. Ends'
    BY <2>1, <2>2 DEF IInv, Ends, client, torn
  <2>5. Down'
    BY <2>2, <2>3 DEF Down
  <2> QED
    BY <2>1, <2>2, <2>4, <2>5, OtherSteps DEF client, torn
<1> QED
  BY <1>1, <1>2

LEMMA HearKeeps ==
  ASSUME IInv, Hear
  PROVE  IInv'
<1>1. CASE ServerEnds("down")
  BY <1>1, ServerEndsKeeps DEF Finished
<1>2. CASE ~ServerEnds("down")
  <2>1. /\ heard < MaxHeard /\ heard' = heard + 1
        /\ SendToClient(MSG_NUM)
        /\ UNCHANGED <<client, srv, req, todo, logged, handled, torn>>
    BY <1>2 DEF Hear
  <2>2. s2c' \in Queue({0}) /\ atSrv' \in {"open", "eof", "reset"} /\ UNCHANGED <<c2s, atClt>>
    BY <2>1, Sent DEF IInv, Ends, Down
  <2>3. heard' \in 0..MaxHeard
    BY <2>1, DialogueAssumption DEF IInv, Ends
  <2>4. Ends'
    BY <2>1, <2>2, <2>3 DEF IInv, Ends, client, torn
  <2>5. Down'
    BY <2>1, <2>2 DEF IInv, Down
  <2> QED
    BY <2>1, <2>2, <2>4, <2>5, OtherSteps DEF client, torn
<1> QED
  BY <1>1, <1>2

LEMMA TurnKeeps ==
  ASSUME IInv, EndOfTurn
  PROVE  IInv'
<1>1. atClt' \in {"open", "eof", "reset"} /\ (atClt' = "open" => atClt = "open")
      /\ srv' \in Serving \cup Finished \cup {"off"}
  BY DEF IInv, Ends, EndOfTurn, News, Serving, Finished
<1>2. Ends'
  BY <1>1 DEF IInv, Ends, EndOfTurn, client, torn
<1>3. Down'
  BY DEF IInv, Down, EndOfTurn
<1> QED
  BY <1>1, <1>2, <1>3, OtherSteps DEF EndOfTurn, client, torn

\* Steps that only move the two ends.
LEMMA MovesKeep ==
  ASSUME IInv, \/ Listen \/ Connect \/ Accept \/ ReadNothing \/ ReceiveNothing
  PROVE  IInv'
<1> USE DEF Listen, Connect, Accept, ReadNothing, ReceiveNothing, stream, server, client, torn
<1>1. /\ srv' \in Serving \cup Finished \cup {"off"}
      /\ clt' \in Gone \cup {"off", "open", "joined"}
  BY DEF IInv, Ends, Serving, Gone
<1>2. UNCHANGED <<atSrv, atClt, got, logged, heard, cuts, merged>>
  OBVIOUS
<1>3. UNCHANGED <<todo, s2c>>
  OBVIOUS
<1>4. UNCHANGED <<typed, c2s, req, handled>>
  OBVIOUS
<1>5. Ends'
  BY <1>1, <1>2 DEF IInv, Ends
<1>6. Down'
  BY <1>3 DEF IInv, Down
<1> QED
  BY <1>2, <1>4, <1>5, <1>6, OtherSteps

LEMMA IdleKeeps ==
  ASSUME IInv, UNCHANGED vars
  PROVE  IInv'
<1>1. Ends' /\ Down'
  BY DEF IInv, Ends, Down, vars, stream, server, client, torn
<1> QED
  BY <1>1, OtherSteps DEF vars, stream, server, client, torn

-----------------------------------------------------------------------------
(* The invariant and the theorems. *)

LEMMA InitIInv == Init => IInv
<1> SUFFICES ASSUME Init PROVE IInv
  OBVIOUS
<1>1. Ends
  <2>1. got \in {MSG_NUM, CMD_BYE_NUM}
    BY DEF Init, Seen
  <2>2. heard \in 0..MaxHeard /\ cuts \in 0..MaxCuts
    BY DialogueAssumption DEF Init
  <2>3. srv \in Serving \cup Finished \cup {"off"} /\ logged \in BOOLEAN /\ merged \in BOOLEAN
    BY DEF Init
  <2>4. clt \in Gone \cup {"off", "open", "joined"}
    BY DEF Init
  <2>5. atSrv \in {"open", "eof", "reset"} /\ atClt \in {"open", "eof", "reset"}
    BY DEF Init
  <2> QED
    BY <2>1, <2>2, <2>3, <2>4, <2>5 DEF Ends
<1>2. Down
  BY DEF Init, Down, Queue
<1>3. Up
  <2>1. req \in Request
    BY DialogueAssumption DEF Init, Request, Body, Unknown
  <2>2. typed \in Seq(Line) /\ c2s \in Queue(1..MaxTyped) /\ handled \in Seq(Handled)
    BY DEF Init, Queue
  <2>3. Len(typed) = 0 /\ Len(c2s) = 0 /\ Len(handled) = 0
    BY DEF Init
  <2> QED
    BY <2>1, <2>2, <2>3, DialogueAssumption DEF Up
<1>4. InStep
  <2>1. Waiting(0, 0)
    BY DEF Init, Waiting
  <2>2. Known(0)
    BY NothingHeld DEF Init, Known, Unknown
  <2> QED
    BY <2>1, <2>2 DEF InStep
<1>5. InOrder /\ HandledAsHeld
  BY DEF Init, InOrder, HandledAsHeld
<1> QED
  BY <1>1, <1>2, <1>3, <1>4, <1>5 DEF IInv

LEMMA StepIInv == IInv /\ [Next]_vars => IInv'
<1> SUFFICES ASSUME IInv, [Next]_vars PROVE IInv'
  OBVIOUS
<1>1. CASE Interrupt
  BY <1>1, ServerEndsKeeps DEF Interrupt, Finished
<1>2. CASE ReadFails
  BY <1>2, ServerEndsKeeps DEF ReadFails, Finished
<1>3. CASE Kill
  BY <1>3, ClientEndsKeeps DEF Kill, Gone
<1>4. CASE ReceiveFails
  BY <1>4, ClientEndsKeeps DEF ReceiveFails, Gone
<1>5. CASE CloseClient
  BY <1>5, ClientEndsKeeps DEF CloseClient, Gone
<1>6. CASE \E input \in Input : Type(input)
  BY <1>6, TypeKeeps
<1>7. CASE Listen \/ Connect \/ Accept \/ ReadNothing \/ ReceiveNothing
  BY <1>7, MovesKeep
<1> QED
  BY <1>1, <1>2, <1>3, <1>4, <1>5, <1>6, <1>7, ReceiveKeeps, RequestKeeps, HandleKeeps,
     AnswerKeeps, HearKeeps, TurnKeeps, IdleKeeps
     DEF Next, User, Reception, Service

LEMMA Invariant == Spec => []IInv
<1>1. Init => IInv
  BY InitIInv
<1>2. IInv /\ [Next]_vars => IInv'
  BY StepIInv
<1> QED
  BY <1>1, <1>2, PTL DEF Spec

LEMMA IInvTypes == IInv => TypeOK
<1> SUFFICES ASSUME IInv PROVE TypeOK
  OBVIOUS
<1>1. Len(handled) \in Nat /\ Len(typed) \in Nat /\ Len(c2s) \in Nat
  BY LenProperties DEF IInv, Up, Queue
<1>2. Len(handled) <= 2 * MaxTyped
  BY <1>1, DialogueAssumption DEF IInv, Up
<1>3. typed \in Seq([num : ReqNum, body : Body, line : 1..MaxTyped])
  BY DEF IInv, Up, Line
<1>4. handled \in Seq([line : 1..MaxTyped, req : Request])
  BY DEF IInv, Up, Handled
<1> QED
  BY <1>2, <1>3, <1>4 DEF TypeOK, IInv, Ends, Down, Up

\* Every variable has its type: the stream carries whole pieces of requests, a
\* request that is handled has taken one of them, and no handler answers more
\* than twice (the buffers and the stream of session.c, the handlers of proto.c).
THEOREM TypeCorrect == Spec => []TypeOK
BY Invariant, IInvTypes, PTL

\* However many requests a read brings, and whenever either end stops: as long as
\* no read ends inside a request, what is handled is in the order of the lines,
\* none twice, each under its own number and with no text that was typed later
\* (recevoirMessage, str2req).
THEOREM HandledInOrder == Spec => []InOrder
<1>1. IInv => InOrder
  BY DEF IInv
<1> QED
  BY <1>1, Invariant, PTL

\* With reads that bring one whole request each, the service thread handles the
\* lines typed, each once, under its number and, if it has one, with its text
\* (envoyerRequete to recevoirRequete).
THEOREM AsTyped == Spec => []HandledAsTyped
<1>1. IInv => HandledAsTyped
  <2> SUFFICES ASSUME IInv, Whole, NEW h \in DOMAIN handled
               PROVE  /\ handled[h].line = h
                      /\ handled[h].req.num = typed[h].num
                      /\ typed[h].body # Empty => handled[h].req.body = typed[h].body
    BY DEF HandledAsTyped
  <2>1. Up /\ InStep /\ HandledAsHeld /\ cuts = 0 /\ ~merged
    BY DEF IInv, Whole
  <2>2. handled[h].line = h /\ handled[h].req = [num |-> typed[h].num, body |-> BodyHeld(h)]
    BY <2>1 DEF HandledAsHeld
  <2>3. h \in 1..Len(handled) /\ Len(handled) \in Nat /\ Len(typed) \in Nat
    BY <2>1 DEF Up
  <2>4. Len(handled) <= Len(typed)
    BY <2>1, <2>3 DEF InStep, Waiting, Known
  <2>5. h - 1 \in Nat /\ h - 1 < Len(typed) /\ (h - 1) + 1 = h
    BY <2>3, <2>4
  <2>6. BodyHeld(h) = IF typed[h].body = Empty THEN BodyHeld(h - 1) ELSE typed[h].body
    BY <2>1, <2>5, HeldNext
  <2> QED
    BY <2>2, <2>6
<1> QED
  BY <1>1, Invariant, PTL
=============================================================================
