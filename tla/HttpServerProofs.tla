--------------------------- MODULE HttpServerProofs ---------------------------
(***************************************************************************)
(* Proofs about HttpServer for every set of clients and every text they    *)
(* may send, in one part or in two, cut anywhere.                          *)
(***************************************************************************)
EXTENDS HttpServer, TLAPS, WellFoundedInduction

Parsing == {"parse", "url", "body", "handle"}
LastLine(c) == Text[c][Len(Text[c])]

\* What there may be of a text: whole lines, and the beginning of the next one.
PieceOK(c, piece) ==
  /\ piece \in Pieces /\ piece.whole <= Len(Text[c])
  /\ piece.tail # None =>
       piece.whole < Len(Text[c]) /\ piece.tail \in Beginnings(Text[c][piece.whole + 1])

QueueOK ==
  /\ \A i \in 1..Len(queue) : conn[queue[i]] = "queue"
  /\ \A i, j \in 1..Len(queue) : queue[i] = queue[j] => i = j

\* Nobody is answered before or twice, and what was received is the slave's.
ServingOK ==
  /\ \A c \in Clients : conn[c] \in {"new", "queue"} => answer[c] = None
  /\ \A c \in Clients : PieceOK(c, sent[c]) /\ PieceOK(c, received[c])
  /\ server \in Busy => conn[slave] = "slave"
  /\ server \in Busy \ {"send"} => answer[slave] = None
  /\ server \in Parsing => received[slave] # Nothing /\ next >= 1

\* What the parser knows of the start line: without a newline behind it the
\* loop ends before the url is read, otherwise url and version have been read.
UrlRead ==
  IF HadStart(slave) THEN url = Text[slave][1].url /\ Text[slave][1].version
                     ELSE url = None
MethodRead ==
  IF HadStart(slave) THEN Started(slave) /\ Text[slave][1].method = type
                     ELSE /\ received[slave].tail.method = type
                          /\ Text[slave][1].method \in {type, None}
\* Nothing is read behind a start line that is cut.
CutOK ==
  server \in Parsing /\ ~HadStart(slave) =>
    /\ body = << >>
    /\ server = "parse" /\ state # "STARTLINE" => eof
    /\ server \in {"body", "handle"} => params = {}
ParsedOK ==
  /\ server \in Parsing /\ type # "ERROR" => MethodRead
  /\ server = "parse" /\ state = "STARTLINE" =>
       next = 1 /\ ~eof /\ type = "ERROR" /\ url = None
  /\ server = "parse" /\ state = "STARTLINE_INFO" => url = None /\ (eof <=> ~HadStart(slave))
  /\ server \in Parsing /\ type # "ERROR" /\ ~(server = "parse" /\ state = "STARTLINE_INFO") => UrlRead
  /\ CutOK

\* The line behind the blank one is the body; of a body that is there, or its
\* beginning, the names with a "=" are the client's.
Names(parts) == {parts[k].name : k \in {i \in DOMAIN parts : parts[i].eq}}
BodyOK ==
  /\ server = "parse" /\ state = "BODY" /\ next <= received[slave].whole + 1 =>
       next >= 2 /\ Text[slave][next - 1].kind = "blank"
  /\ server \in Parsing => Names(body) \subseteq Given(slave)
  /\ server = "url" => params = {}
  /\ server \in {"body", "handle"} => params \subseteq Given(slave)

AnswersOK == RightAnswer /\ PostsStored

IInv == TypeOK /\ QueueOK /\ ServingOK /\ ParsedOK /\ BodyOK /\ AnswersOK

------------------------------------------------------------------------------
(* Lemmas about the data *)

LEMMA NoneIs == None \notin Clients \cup Types \cup LineType /\ None # 200 /\ None # 404
  BY TextAssumption

LEMMA TextIs ==
  ASSUME NEW c \in Clients
  PROVE  /\ Len(Text[c]) \in Nat /\ Len(Text[c]) >= 1
         /\ \A i \in 1..Len(Text[c]) : Text[c][i] \in LineType
         /\ Text[c][1] \in LineType /\ LastLine(c) \in LineType
<1>1. Text[c] \in Seq(LineType) /\ Len(Text[c]) >= 1
  BY TextAssumption
<1>2. Len(Text[c]) \in Nat /\ \A i \in 1..Len(Text[c]) : Text[c][i] \in LineType
  BY <1>1
<1>3. 1 \in 1..Len(Text[c]) /\ Len(Text[c]) \in 1..Len(Text[c])
  BY <1>1, <1>2
<1> QED
  BY <1>1, <1>2, <1>3 DEF LastLine

LEMMA NoLineIs ==
  NoLine \in LineType /\ NoLine.kind = "blank" /\ Bare \in PartType /\ Names(NoLine.parts) = {}
<1>1. Bare \in PartType /\ Bare.eq = FALSE
  BY DEF PartType, Bare
<1>2. <<Bare>> \in Seq(PartType) /\ DOMAIN <<Bare>> = {1} /\ <<Bare>>[1] = Bare
  BY <1>1
<1>3. Names(<<Bare>>) = {}
  BY <1>1, <1>2 DEF Names
<1> QED
  BY <1>1, <1>2, <1>3 DEF NoLine, LineType

\* A beginning of a body has no names but those of the body.
LEMMA NamesCut ==
  ASSUME NEW ps \in Seq(PartType), NEW k \in DOMAIN ps, NEW p \in {Bare, ps[k]}
  PROVE  /\ Append(SubSeq(ps, 1, k - 1), p) \in Seq(PartType)
         /\ Names(Append(SubSeq(ps, 1, k - 1), p)) \subseteq Names(ps)
<1> DEFINE q == SubSeq(ps, 1, k - 1)
           t == Append(q, p)
<1>1. k \in 1..Len(ps) /\ DOMAIN ps = 1..Len(ps) /\ Len(ps) \in Nat
  OBVIOUS
<1>2. q \in Seq(PartType) /\ Len(q) = k - 1 /\ \A i \in 1..k - 1 : q[i] = ps[i]
  BY <1>1
<1>3. p \in PartType
  BY <1>1, NoLineIs
<1> HIDE DEF q
<1>4. t \in Seq(PartType) /\ Len(t) = k /\ DOMAIN t = 1..k /\ t[k] = p
      /\ \A i \in 1..k - 1 : t[i] = ps[i]
  BY <1>1, <1>2, <1>3
<1> HIDE DEF t
<1>5. ASSUME NEW i \in DOMAIN t, t[i].eq PROVE t[i].name \in Names(ps)
  <2>1. i \in DOMAIN ps
    BY <1>1, <1>4
  <2>2. t[i] = ps[i]
    <3>1. CASE i = k
      BY <3>1, <1>4, <1>5 DEF Bare
    <3>2. CASE i # k
      BY <3>2, <1>1, <1>4
    <3> QED
      BY <3>1, <3>2
  <2> QED
    BY <2>1, <2>2, <1>5 DEF Names
<1>6. Names(t) \subseteq Names(ps)
  BY <1>5 DEF Names
<1> QED
  BY <1>4, <1>6 DEF q, t

\* What the beginning of a line tells of the line.
LEMMA BeginningIs ==
  ASSUME NEW l \in LineType, NEW b \in Beginnings(l)
  PROVE  /\ b \in LineType
         /\ b.kind = "start" => l.kind = "start"
         /\ b.kind = "start" /\ b.method # None => l.method \in {b.method, None}
         /\ l.kind = "body" => Names(b.parts) \subseteq Names(l.parts)
<1>1. CASE b = l
  BY <1>1
<1>2. CASE l.kind = "start" /\ b # l
  <2>1. PICK m \in Methods \cup {None} :
          b = [l EXCEPT !.method = m] /\ (l.method = None \/ m = None)
    BY <1>2 DEF Beginnings
  <2> QED
    BY <2>1, <1>2 DEF LineType
<1>3. CASE l.kind = "field" /\ b # l
  <2>1. b = [l EXCEPT !.kind = "plain"]
    BY <1>3 DEF Beginnings
  <2> QED
    BY <2>1, <1>3 DEF LineType
<1>4. CASE l.kind = "body" /\ b # l
  <2>1. b \in CutBodies(l)
    BY <1>4 DEF Beginnings
  <2>2. PICK k \in DOMAIN l.parts : \E p \in {Bare, l.parts[k]} : b = CutBody(l, k, p)
    BY <2>1 DEF CutBodies
  <2>3. PICK p \in {Bare, l.parts[k]} : b = CutBody(l, k, p)
    BY <2>2
  <2> DEFINE t == Append(SubSeq(l.parts, 1, k - 1), p)
  <2>4. l.parts \in Seq(PartType)
    BY DEF LineType
  <2>5. t \in Seq(PartType) /\ Names(t) \subseteq Names(l.parts)
    BY <2>4, NamesCut
  <2>6. b = [l EXCEPT !.parts = t]
    BY <2>3 DEF CutBody
  <2> HIDE DEF t
  <2> QED
    BY <2>5, <2>6, <1>4 DEF LineType
<1>5. CASE l.kind \notin {"start", "field", "body"}
  BY <1>5, <1>1 DEF Beginnings
<1> QED
  BY <1>1, <1>2, <1>3, <1>4, <1>5

LEMMA PieceIs ==
  ASSUME NEW c \in Clients, NEW piece \in {Whole(c)} \cup Cuts(c)
  PROVE  PieceOK(c, piece)
<1> DEFINE n == Len(Text[c])
<1>1. n \in Nat /\ n >= 1 /\ Text[c][n] \in LineType /\ \A i \in 1..n : Text[c][i] \in LineType
  BY TextIs DEF LastLine
<1>2. CASE piece = Whole(c)
  <2>1. Text[c][n] \in Beginnings(Text[c][n]) /\ (n - 1) + 1 = n
    BY <1>1 DEF Beginnings
  <2> QED
    BY <1>1, <1>2, <2>1 DEF Whole, PieceOK, Pieces
<1>3. CASE piece \in Cuts(c)
  <2>1. CASE \E k \in 1..n : piece = [whole |-> k, tail |-> None]
    BY <1>1, <2>1 DEF PieceOK, Pieces
  <2>2. CASE \E k \in 1..n : \E b \in Beginnings(Text[c][k]) : piece = [whole |-> k - 1, tail |-> b]
    <3>4. PICK k \in 1..n : \E b \in Beginnings(Text[c][k]) : piece = [whole |-> k - 1, tail |-> b]
      BY <2>2
    <3>1. PICK b \in Beginnings(Text[c][k]) : piece = [whole |-> k - 1, tail |-> b]
      BY <3>4
    <3>2. b \in LineType /\ (k - 1) + 1 = k /\ k - 1 \in Nat /\ k - 1 < n
      BY <3>1, <1>1, BeginningIs
    <3> QED
      BY <3>1, <3>2, <1>1 DEF PieceOK, Pieces
  <2> QED
    BY <1>3, <2>1, <2>2 DEF Cuts
<1> QED
  BY <1>2, <1>3

\* The line that getline returns.
LEMMA LineIs ==
  ASSUME TypeOK, ServingOK, server = "parse"
  PROVE  /\ Line \in LineType /\ slave \in Clients /\ received[slave] \in Pieces
         /\ received[slave].whole <= Len(Text[slave]) /\ Len(Text[slave]) \in Nat
         /\ next \in Nat /\ next >= 1
         /\ next <= received[slave].whole => next \in 1..Len(Text[slave]) /\ Line = Text[slave][next]
         /\ next = received[slave].whole + 1 /\ received[slave].tail # None =>
              /\ next \in 1..Len(Text[slave]) /\ Line = received[slave].tail
              /\ Line \in Beginnings(Text[slave][next])
         /\ next > received[slave].whole + 1 \/ (next > received[slave].whole /\ received[slave].tail = None) =>
              Line = NoLine
<1>1. slave \in Clients /\ next \in Nat /\ next >= 1 /\ PieceOK(slave, received[slave])
  BY DEF TypeOK, Busy, ServingOK, Parsing
<1>2. Len(Text[slave]) \in Nat /\ \A i \in 1..Len(Text[slave]) : Text[slave][i] \in LineType
  BY <1>1, TextIs
<1> DEFINE w == received[slave].whole
           t == received[slave].tail
           n == Len(Text[slave])
<1>3. w \in Nat /\ w <= n /\ t \in LineType \cup {None} /\ n \in Nat
      /\ (t # None => w < n /\ t \in Beginnings(Text[slave][w + 1]))
  BY <1>1, <1>2 DEF PieceOK, Pieces
<1>4. Line = IF next <= w THEN Text[slave][next]
             ELSE IF next = w + 1 /\ t # None THEN t ELSE NoLine
  BY DEF Line
<1>5. received[slave] \in Pieces
  BY <1>1 DEF PieceOK
<1> HIDE DEF w, t, n
<1>6. next <= w => next \in 1..n /\ Line = Text[slave][next]
  BY <1>1, <1>3, <1>4
<1>7. next = w + 1 /\ t # None => next \in 1..n /\ Line = t /\ Line \in Beginnings(Text[slave][next])
  BY <1>1, <1>3, <1>4
<1>8. next > w + 1 \/ (next > w /\ t = None) => Line = NoLine
  BY <1>1, <1>3, <1>4
<1>9. Line \in LineType
  BY <1>2, <1>3, <1>4, <1>6, NoLineIs DEF n
<1> QED
  BY <1>1, <1>3, <1>5, <1>6, <1>7, <1>8, <1>9 DEF w, t, n

LEMMA MinExists ==
  ASSUME NEW T, T \subseteq Nat, T # {}
  PROVE  \E x \in T : \A y \in T : x <= y
<1> DEFINE R == OpToRel(<, Nat)
<1>1. PICK x \in T : \A y \in T : ~ (<<y, x>> \in R)
  <2>1. IsWellFoundedOn(R, Nat)
    BY NatLessThanWellFounded
  <2> HIDE DEF R
  <2> QED
    BY <2>1, WFMin
<1>2. \A y \in T : <<y, x>> \in Nat \X Nat
  OBVIOUS
<1>3. \A y \in T : <<y, x>> \in R <=> y < x
  BY <1>2 DEF OpToRel
<1> HIDE DEF R
<1>4. \A y \in T : ~ (y < x)
  BY <1>1, <1>3, Zenon
<1>5. \A y \in T : x <= y
  BY <1>4
<1> QED
  BY <1>5

\* One iteration of parse_params stays inside the string.
LEMMA BehindIs ==
  ASSUME at \in Nat, at >= 1, at <= Len(Parts), Len(Parts) \in Nat
  PROVE  Behind \in 1..Len(Parts) + 1
<1>1. CASE WithEq = {}
  BY <1>1 DEF Behind
<1>2. CASE WithEq # {}
  <2>1. WithEq \subseteq at..Len(Parts)
    BY DEF WithEq
  <2>2. WithEq \subseteq Nat
    BY <2>1
  <2>3. \E k \in WithEq : \A j \in WithEq : k <= j
    BY <1>2, <2>2, MinExists
  <2>4. FirstWithEq \in WithEq
    BY <2>3 DEF FirstWithEq
  <2> QED
    BY <1>2, <2>1, <2>4 DEF Behind
<1> QED
  BY <1>1, <1>2

------------------------------------------------------------------------------
(* Steps that leave a part of the state alone *)

LEMMA QueueKept == ASSUME QueueOK, UNCHANGED <<conn, queue>> PROVE QueueOK'
  BY DEF QueueOK

LEMMA AnswersKept == ASSUME AnswersOK, UNCHANGED <<received, answer, data>> PROVE AnswersOK'
  BY DEF AnswersOK, RightAnswer, PostsStored, HadStart

LEMMA ParserKept ==
  ASSUME ParsedOK, BodyOK, UNCHANGED <<server, slave, received, parser, params>>
  PROVE  ParsedOK' /\ BodyOK'
  BY DEF ParsedOK, BodyOK, parser, UrlRead, MethodRead, CutOK, HadStart

\* Outside of a request the parser's fields mean nothing.
LEMMA ParserIdle ==
  ASSUME server' \notin Parsing
  PROVE  ParsedOK' /\ BodyOK'
  BY DEF ParsedOK, BodyOK, CutOK, Parsing

LEMMA InitIInv == Init => IInv
<1> SUFFICES ASSUME Init PROVE IInv
  OBVIOUS
<1>1. TypeOK
  <2>1. << >> \in Seq(PartType) /\ << >> \in Seq(Clients)
    OBVIOUS
  <2>2. "ERROR" \in Types /\ "END" \in States /\ FALSE \in BOOLEAN /\ 1 \in Nat /\ 0 \in Nat
    BY DEF Types, States
  <2>3. conn \in [Clients -> {"new", "queue", "slave", "closed"}] /\ sent \in [Clients -> Pieces]
        /\ received \in [Clients -> Pieces] /\ answer \in [Clients -> {None, 200, 404}]
    BY DEF Init, Pieces, Nothing
  <2> QED
    BY <2>1, <2>2, <2>3 DEF Init, TypeOK, Busy
<1>2. QueueOK /\ ParsedOK /\ BodyOK
  BY DEF Init, QueueOK, ParsedOK, BodyOK, CutOK, Parsing
<1>3. ServingOK
  BY TextIs DEF Init, ServingOK, Busy, Parsing, PieceOK, Pieces, Nothing
<1>4. AnswersOK
  BY NoneIs DEF Init, AnswersOK, RightAnswer, PostsStored
<1> QED
  BY <1>1, <1>2, <1>3, <1>4 DEF IInv

------------------------------------------------------------------------------
(* The clients *)

LEMMA ConnectIInv == ASSUME IInv, NEW c \in Clients, Connect(c) PROVE IInv'
<1> USE DEF IInv, Connect
<1>1. TypeOK'
  <2>1. queue' \in Seq(Clients) /\ conn' \in [Clients -> {"new", "queue", "slave", "closed"}]
    BY DEF TypeOK
  <2> QED
    BY <2>1 DEF TypeOK, parser, Parts
<1>2. QueueOK'
  <2> DEFINE n == Len(queue)
  <2>1. n \in Nat /\ \A i \in 1..n : queue[i] \in Clients
    BY DEF TypeOK
  <2>2. \A i \in 1..n : conn[queue[i]] = "queue"
    BY DEF QueueOK
  <2>3. \A i, j \in 1..n : queue[i] = queue[j] => i = j
    BY DEF QueueOK
  <2>4. queue \in Seq(Clients) /\ queue' = Append(queue, c)
    BY DEF TypeOK
  <2>5. Len(queue') = n + 1 /\ queue'[n + 1] = c /\ \A i \in 1..n : queue'[i] = queue[i]
    BY <2>4
  <2> HIDE DEF n
  <2>6. \A i \in 1..n : queue[i] # c
    BY <2>2
  <2>7. \A i \in 1..n + 1 : conn'[queue'[i]] = "queue"
    BY <2>1, <2>2, <2>5 DEF TypeOK
  <2>8. \A i, j \in 1..n + 1 : queue'[i] = queue'[j] => i = j
    BY <2>1, <2>3, <2>5, <2>6
  <2> QED
    BY <2>5, <2>7, <2>8 DEF QueueOK
<1>3. ServingOK'
  BY DEF ServingOK, TypeOK, Busy, parser
<1>4. ParsedOK' /\ BodyOK' /\ AnswersOK'
  BY ParserKept, AnswersKept
<1> QED
  BY <1>1, <1>2, <1>3, <1>4

LEMMA SpeakIInv == ASSUME IInv, NEW c \in Clients, Speak(c) PROVE IInv'
<1> USE DEF IInv, Speak
<1>1. PICK piece \in {Whole(c)} \cup Cuts(c) : sent' = [sent EXCEPT ![c] = piece]
  OBVIOUS
<1>2. PieceOK(c, piece) /\ piece \in Pieces
  BY PieceIs DEF PieceOK
<1>3. TypeOK'
  BY <1>1, <1>2 DEF TypeOK, parser, Parts
<1>4. QueueOK' /\ ParsedOK' /\ BodyOK' /\ AnswersOK'
  BY QueueKept, ParserKept, AnswersKept
<1>5. ServingOK'
  <2>1. \A d \in Clients : PieceOK(d, sent'[d])
    BY <1>1, <1>2 DEF ServingOK, TypeOK
  <2> QED
    BY <2>1 DEF ServingOK, parser
<1> QED
  BY <1>3, <1>4, <1>5

LEMMA LeaveIInv == ASSUME IInv, NEW c \in Clients, Leave(c) PROVE IInv'
<1> USE DEF IInv, Leave
<1>1. TypeOK'
  BY DEF TypeOK, parser, Parts
<1>2. QueueOK' /\ ParsedOK' /\ BodyOK' /\ AnswersOK'
  BY QueueKept, ParserKept, AnswersKept
<1>3. ServingOK'
  BY DEF ServingOK, parser
<1> QED
  BY <1>1, <1>2, <1>3

------------------------------------------------------------------------------
(* Accepting and receiving *)

LEMMA AcceptIInv == ASSUME IInv, Accept PROVE IInv'
<1> USE DEF IInv, Accept
<1> DEFINE c == Head(queue)
           n == Len(queue)
<1>1. queue \in Seq(Clients) /\ queue # << >>
  BY DEF TypeOK
<1>2. n \in Nat /\ n >= 1 /\ c \in Clients /\ c = queue[1]
      /\ \A i \in 1..n : queue[i] \in Clients
  BY <1>1
<1>3. queue' \in Seq(Clients) /\ Len(queue') = n - 1
      /\ \A i \in 1..n - 1 : queue'[i] = queue[i + 1]
  BY <1>1
<1>4. \A i, j \in 1..n : queue[i] = queue[j] => i = j
  BY DEF QueueOK
<1>5. \A i \in 1..n : conn[queue[i]] = "queue"
  BY DEF QueueOK
<1>6. slave' = c /\ conn' = [conn EXCEPT ![c] = "slave"] /\ server' = "receive"
  OBVIOUS
<1> HIDE DEF c, n
<1>7. TypeOK'
  <2>1. conn' \in [Clients -> {"new", "queue", "slave", "closed"}] /\ queue' \in Seq(Clients)
        /\ slave' \in Clients
    BY <1>2, <1>3, <1>6 DEF TypeOK
  <2>2. slave' # None
    BY <2>1, NoneIs
  <2> QED
    BY <2>1, <2>2, <1>6 DEF TypeOK, parser, Busy
<1>8. QueueOK'
  <2>1. \A i \in 1..n - 1 : i + 1 \in 1..n /\ i + 1 # 1 /\ 1 \in 1..n
    BY <1>2
  <2>2. \A i \in 1..n - 1 : queue'[i] # c /\ queue'[i] \in Clients
    BY <1>2, <1>3, <1>4, <2>1
  <2>3. \A i \in 1..n - 1 : conn'[queue'[i]] = "queue"
    BY <1>3, <1>5, <1>6, <2>1, <2>2 DEF TypeOK
  <2>4. \A i, j \in 1..n - 1 : queue'[i] = queue'[j] => i = j
    BY <1>2, <1>3, <1>4, <2>1
  <2> QED
    BY <1>3, <2>3, <2>4 DEF QueueOK
<1>9. ServingOK'
  <2>1. conn[c] = "queue"
    BY <1>2, <1>5
  <2>2. conn'[c] = "slave" /\ answer[c] = None
    BY <1>2, <1>6, <2>1 DEF TypeOK, ServingOK
  <2>3. \A d \in Clients : conn'[d] \in {"new", "queue"} => answer[d] = None
    BY <1>2, <1>6, <2>2 DEF TypeOK, ServingOK
  <2> QED
    BY <1>6, <2>2, <2>3 DEF ServingOK, Parsing
<1>10. ParsedOK' /\ BodyOK' /\ AnswersOK'
  BY ParserIdle, AnswersKept DEF Parsing
<1> QED
  BY <1>7, <1>8, <1>9, <1>10

LEMMA ReceiveIInv == ASSUME IInv, Receive PROVE IInv'
<1> USE DEF IInv, Receive
<1>1. slave \in Clients /\ answer[slave] = None /\ slave \notin data
  BY NoneIs DEF TypeOK, Busy, ServingOK, AnswersOK, PostsStored
<1>2. received' = [received EXCEPT ![slave] = sent[slave]] /\ received'[slave] # Nothing
      /\ sent[slave] \in Pieces /\ PieceOK(slave, sent[slave])
  BY <1>1 DEF TypeOK, ServingOK
<1>3. TypeOK'
  <2>1. received' \in [Clients -> Pieces]
    BY <1>2 DEF TypeOK
  <2>2. << >> \in Seq(PartType)
    OBVIOUS
  <2> QED
    BY <2>1, <2>2 DEF TypeOK, net, Busy, States, Types
<1>4. QueueOK'
  BY QueueKept DEF net
<1>5. AnswersOK'
  <2>1. \A c \in Clients : c # slave => received'[c] = received[c]
    BY <1>2 DEF TypeOK
  <2> QED
    BY <1>1, <2>1, NoneIs DEF AnswersOK, RightAnswer, PostsStored, HadStart
<1>6. ServingOK'
  <2>1. \A c \in Clients : PieceOK(c, received'[c])
    BY <1>2 DEF ServingOK, TypeOK
  <2> QED
    BY <1>2, <2>1 DEF ServingOK, net, Busy, Parsing
<1>7. ParsedOK'
  BY DEF ParsedOK, CutOK, Parsing
<1>8. BodyOK'
  BY DEF BodyOK, Parsing, Names
<1> QED
  BY <1>3, <1>4, <1>5, <1>6, <1>7, <1>8

LEMMA ReceiveFailsIInv == ASSUME IInv, ReceiveFails PROVE IInv'
<1> USE DEF IInv, ReceiveFails
<1>1. slave \in Clients /\ conn[slave] = "slave"
  BY DEF TypeOK, Busy, ServingOK
<1>2. conn' = [conn EXCEPT ![slave] = "closed"] /\ server' = "accept" /\ slave' = None
  OBVIOUS
<1>3. TypeOK'
  BY <1>1 DEF TypeOK, parser, Busy
<1>4. QueueOK'
  <2>1. \A i \in 1..Len(queue) : queue[i] # slave /\ queue[i] \in Clients
    BY <1>1 DEF QueueOK, TypeOK
  <2> QED
    BY <2>1 DEF QueueOK, TypeOK
<1>5. ServingOK'
  BY <1>1 DEF ServingOK, TypeOK, Busy, Parsing
<1>6. ParsedOK' /\ BodyOK' /\ AnswersOK'
  BY ParserIdle, AnswersKept DEF Parsing
<1> QED
  BY <1>3, <1>4, <1>5, <1>6

------------------------------------------------------------------------------
(* Parsing *)

\* What a step of the parser leaves alone.
LEMMA ParsedKept ==
  ASSUME IInv, Parsed, server = "parse",
         next' \in Nat, next' >= 1
  PROVE  QueueOK' /\ ServingOK' /\ AnswersOK' /\ slave \in Clients
<1>1. QueueOK' /\ AnswersOK'
  BY QueueKept, AnswersKept DEF IInv, Parsed, net
<1>2. ServingOK'
  BY DEF IInv, ServingOK, Parsed, net, Parsing
<1> QED
  BY <1>1, <1>2 DEF IInv, TypeOK, Busy

\* The types of the fields a step of the parser writes.
LEMMA ParsedTypes ==
  ASSUME TypeOK, Parsed, server = "parse",
         next' \in Nat, eof' \in BOOLEAN, state' \in States, type' \in Types,
         url' \in STRING \cup {None}, query' \in Seq(PartType), body' \in Seq(PartType)
  PROVE  TypeOK'
  BY DEF TypeOK, Parsed, net, Busy

LEMMA StartLineIInv == ASSUME IInv, StartLine PROVE IInv'
<1> USE DEF IInv, StartLine, InState, GetLine
<1>1. TypeOK /\ ServingOK /\ server = "parse" /\ state = "STARTLINE" /\ server' = "parse"
      /\ slave' = slave /\ received' = received /\ params' = params
  BY DEF Parsed
<1>2. next = 1 /\ ~eof /\ type = "ERROR" /\ url = None
  BY <1>1 DEF ParsedOK
<1> DEFINE w == received[slave].whole
           t == received[slave].tail
<1>3. /\ slave \in Clients /\ w \in Nat /\ Line \in LineType /\ t \in LineType \cup {None}
      /\ 1 <= w => Line = Text[slave][1]
      /\ w = 0 => t # None
  <2>1. slave \in Clients /\ received[slave] \in Pieces /\ received[slave] # Nothing /\ Line \in LineType
    BY <1>1, LineIs DEF ServingOK, Parsing
  <2> QED
    BY <2>1, <1>1, <1>2, LineIs DEF Pieces, Nothing
<1>4. w = 0 => Line = t /\ Line \in Beginnings(Text[slave][1]) /\ Text[slave][1] \in LineType
  <2> SUFFICES ASSUME w = 0 PROVE Line = t /\ Line \in Beginnings(Text[slave][1]) /\ Text[slave][1] \in LineType
    OBVIOUS
  <2>1. next = w + 1 /\ t # None
    BY <1>2, <1>3
  <2>2. Line = t /\ Line \in Beginnings(Text[slave][next])
    BY <2>1, <1>1, LineIs
  <2> QED
    BY <2>2, <1>2, <1>3, TextIs
<1>5. next' = 2 /\ url' = None /\ body' = body /\ query' = query
  BY <1>2
<1>6. AtEof <=> ~HadStart(slave)
  BY <1>2, <1>3 DEF AtEof, HadStart
<1>7. type' \in Types /\ (type' # "ERROR" => MethodRead')
  <2>1. type' \in Types /\ (type' # "ERROR" => Line.kind = "start" /\ Line.method = type' /\ type' # None)
    BY <1>3, NoneIs DEF LineType, Types
  <2>2. ASSUME type' # "ERROR", w = 0 PROVE Text[slave][1].method \in {type', None} /\ t.method = type'
    BY <2>1, <2>2, <1>4, BeginningIs
  <2>3. ASSUME type' # "ERROR", w >= 1 PROVE Started(slave) /\ Text[slave][1].method = type'
    BY <2>1, <2>3, <1>3 DEF Started
  <2> QED
    BY <2>1, <2>2, <2>3, <1>1, <1>3 DEF MethodRead, HadStart, Started
<1>8. state' = IF type' = "ERROR" THEN "ERROR" ELSE "STARTLINE_INFO"
  OBVIOUS
<1>9. eof' \in BOOLEAN /\ (eof' <=> ~HadStart(slave))
  <2>1. AtEof \in BOOLEAN
    BY DEF AtEof
  <2>2. eof' = AtEof
    OBVIOUS
  <2> QED
    BY <2>1, <2>2, <1>6, Zenon
<1>10. TypeOK'
  <2>1. url' \in STRING \cup {None} /\ query' \in Seq(PartType) /\ body' \in Seq(PartType)
    BY <1>5 DEF TypeOK
  <2>2. state' \in States /\ next' \in Nat
    BY <1>5, <1>8 DEF States
  <2> QED
    BY <2>1, <2>2, <1>1, <1>7, <1>9, ParsedTypes
<1>11. QueueOK' /\ ServingOK' /\ AnswersOK'
  <2>1. next' \in Nat /\ next' >= 1
    BY <1>5
  <2> QED
    BY <2>1, <1>1, ParsedKept
<1>12. ParsedOK'
  <2>1. HadStart(slave)' <=> HadStart(slave)
    BY <1>1 DEF HadStart
  <2>2. state' \in {"ERROR", "STARTLINE_INFO"} /\ (state' = "ERROR" => type' = "ERROR")
    BY <1>8
  <2>3. CutOK'
    BY <1>1, <1>5, <1>9, <2>1 DEF ParsedOK, CutOK, Parsing
  <2> QED
    BY <1>1, <1>5, <1>7, <1>9, <2>1, <2>2, <2>3 DEF ParsedOK
<1>13. BodyOK'
  BY <1>1, <1>5, <1>8 DEF BodyOK, Given, Parsing
<1> QED
  BY <1>10, <1>11, <1>12, <1>13

LEMMA StartLineInfoIInv == ASSUME IInv, StartLineInfo PROVE IInv'
<1> USE DEF IInv, StartLineInfo, InState
<1>1. TypeOK /\ ServingOK /\ server = "parse" /\ state = "STARTLINE_INFO" /\ server' = "parse"
      /\ slave' = slave /\ received' = received /\ params' = params /\ ~eof
  BY DEF Parsed
<1>2. slave \in Clients /\ Text[slave][1] \in LineType
  BY <1>1, LineIs, TextIs
<1>3. HadStart(slave)
  BY <1>1 DEF ParsedOK
<1>4. received' = received /\ url' = Text[slave][1].url /\ query' = Text[slave][1].parts /\ state' = "HEADER"
      /\ next' = next /\ eof' = eof /\ body' = body
  BY DEF Parsed
<1>5. type' \in Types /\ (type' # "ERROR" => type' = type /\ Text[slave][1].version)
  BY <1>1 DEF TypeAfter, TypeOK, Types
<1>6. TypeOK'
  <2>1. url' \in STRING \cup {None} /\ query' \in Seq(PartType)
    BY <1>2, <1>4 DEF LineType
  <2>2. body' \in Seq(PartType) /\ next' \in Nat /\ eof' \in BOOLEAN /\ state' \in States
    BY <1>4 DEF TypeOK, States
  <2> QED
    BY <2>1, <2>2, <1>1, <1>5, ParsedTypes
<1>7. QueueOK' /\ ServingOK' /\ AnswersOK'
  <2>1. next' \in Nat /\ next' >= 1
    BY <1>1, <1>4 DEF TypeOK, ServingOK, Parsing
  <2> QED
    BY <2>1, <1>1, ParsedKept
<1>8. ParsedOK'
  BY <1>1, <1>3, <1>4, <1>5 DEF ParsedOK, UrlRead, MethodRead, CutOK, HadStart, Started, Parsing
<1>9. BodyOK'
  BY <1>1, <1>4 DEF BodyOK, Given, Parsing
<1> QED
  BY <1>6, <1>7, <1>8, <1>9

LEMMA HeaderLineIInv == ASSUME IInv, HeaderLine PROVE IInv'
<1> USE DEF IInv, HeaderLine, InState, GetLine
<1>1. TypeOK /\ ServingOK /\ server = "parse" /\ state = "HEADER" /\ server' = "parse"
      /\ slave' = slave /\ received' = received /\ params' = params
      /\ type' = type /\ url' = url /\ query' = query /\ body' = body
  BY DEF Parsed
<1>2. /\ slave \in Clients /\ received[slave].whole \in Nat
      /\ next <= received[slave].whole => Line = Text[slave][next]
  BY <1>1, LineIs DEF Pieces
<1>3. next \in Nat /\ next >= 1 /\ next' = next + 1
  BY <1>1 DEF TypeOK, ServingOK, Parsing
<1>4. state' \in {"BODY", "ERROR", "HEADER"} /\ (state' = "BODY" => Line.kind = "blank")
  OBVIOUS
<1>5. TypeOK'
  <2>1. url' \in STRING \cup {None} /\ query' \in Seq(PartType) /\ body' \in Seq(PartType)
        /\ type' \in Types
    BY <1>1 DEF TypeOK
  <2>2. next' \in Nat /\ eof' \in BOOLEAN /\ state' \in States
    BY <1>3, <1>4 DEF AtEof, States
  <2> QED
    BY <2>1, <2>2, <1>1, ParsedTypes
<1>6. QueueOK' /\ ServingOK' /\ AnswersOK'
  <2>1. next' \in Nat /\ next' >= 1
    BY <1>3
  <2> QED
    BY <2>1, <1>1, ParsedKept
<1>7. ParsedOK'
  BY <1>1, <1>4 DEF ParsedOK, UrlRead, MethodRead, CutOK, HadStart, Started, Parsing
<1>8. BodyOK'
  <2>1. state' = "BODY" /\ next' <= received'[slave'].whole + 1 =>
          next' >= 2 /\ Text[slave'][next' - 1].kind = "blank"
    <3> SUFFICES ASSUME state' = "BODY", next' <= received[slave].whole + 1
                 PROVE  next' >= 2 /\ Text[slave][next' - 1].kind = "blank"
      BY <1>1
    <3>1. next' - 1 = next /\ next <= received[slave].whole /\ next' >= 2
      BY <1>1, <1>2, <1>3
    <3> QED
      BY <3>1, <1>2, <1>4
  <2> QED
    BY <2>1, <1>1 DEF BodyOK, Given, Parsing
<1> QED
  BY <1>5, <1>6, <1>7, <1>8

LEMMA BodyIInv == ASSUME IInv, Body PROVE IInv'
<1> USE DEF IInv, Body, InState
<1>1. TypeOK /\ ServingOK /\ server = "parse" /\ state = "BODY" /\ server' = "parse"
      /\ slave' = slave /\ received' = received /\ params' = params
      /\ type' = type /\ url' = url /\ query' = query
  BY DEF Parsed
<1>2. Line \in LineType /\ slave \in Clients /\ received[slave].whole \in Nat /\ next \in Nat
  BY <1>1, LineIs DEF Pieces
<1>3. next' = received[slave].whole + 2 /\ next' \in Nat /\ next' >= 1 /\ eof' = TRUE
      /\ state' = "END" /\ body' = Line.parts
  BY <1>2
<1>4. TypeOK'
  <2>1. url' \in STRING \cup {None} /\ query' \in Seq(PartType) /\ type' \in Types
    BY <1>1 DEF TypeOK
  <2>2. body' \in Seq(PartType)
    BY <1>2, <1>3 DEF LineType
  <2>3. next' \in Nat /\ eof' \in BOOLEAN /\ state' \in States
    BY <1>3 DEF States
  <2> QED
    BY <2>1, <2>2, <2>3, <1>1, ParsedTypes
<1>5. QueueOK' /\ ServingOK' /\ AnswersOK'
  <2>1. next' \in Nat /\ next' >= 1
    BY <1>3
  <2> QED
    BY <2>1, <1>1, ParsedKept
<1>6. ParsedOK'
  BY <1>1, <1>3 DEF ParsedOK, UrlRead, MethodRead, CutOK, HadStart, Started, Parsing
<1>7. Names(Line.parts) \subseteq Given(slave)
  <2> DEFINE w == received[slave].whole
  <2>1. CASE next > w + 1 \/ (next > w /\ received[slave].tail = None)
    <3>1. Line = NoLine
      BY <2>1, <1>1, LineIs
    <3> QED
      BY <3>1, NoLineIs
  <2>2. CASE next <= w \/ (next = w + 1 /\ received[slave].tail # None)
    <3> DEFINE n == Len(Text[slave])
    <3>1. next \in 1..n /\ n \in Nat /\ (Line = Text[slave][next] \/ Line \in Beginnings(Text[slave][next]))
      BY <2>2, <1>1, LineIs
    <3>2. next >= 2 /\ Text[slave][next - 1].kind = "blank"
      BY <2>2, <1>1, <1>2 DEF BodyOK
    <3> HIDE DEF w
    <3>3. next - 1 \in 1..n /\ (next - 1) + 1 = next /\ n # next - 1
      BY <3>1, <3>2
    <3>4. n = next - 1 \/ (n = (next - 1) + 1 /\ Text[slave][(next - 1) + 1].kind = "body")
      BY <3>2, <3>3, <1>2, TextAssumption
    <3>5. Text[slave][next] = LastLine(slave) /\ LastLine(slave).kind = "body"
      BY <3>3, <3>4 DEF LastLine
    <3>6. LastLine(slave) \in LineType
      BY <1>2, TextIs
    <3>7. Names(Line.parts) \subseteq Names(LastLine(slave).parts)
      BY <3>1, <3>5, <3>6, BeginningIs
    <3> QED
      BY <3>5, <3>7 DEF Given, LastLine, Names
  <2> QED
    BY <2>1, <2>2, <1>2
<1>8. BodyOK'
  BY <1>1, <1>3, <1>7 DEF BodyOK, Given, Parsing
<1> QED
  BY <1>4, <1>5, <1>6, <1>8

LEMMA ParserEndsIInv == ASSUME IInv, ParserEnds PROVE IInv'
<1> USE DEF IInv, ParserEnds
<1>1. TypeOK /\ ServingOK /\ server = "parse" /\ slave' = slave /\ UNCHANGED parser
      /\ params' = {} /\ at' = 1 /\ UNCHANGED <<conn, sent, queue, answer, data, gone, received>>
  BY DEF net, ClearedParams
<1>2. server' \in {"handle", "url"} /\ (server' = "handle" => type = "ERROR")
  OBVIOUS
<1>3. TypeOK'
  <2>1. Len(query) \in Nat
    BY DEF TypeOK
  <2>2. server' = "url" => at' \in 1..Len(Parts') + 1
    BY <2>1, <1>1 DEF Parts, parser
  <2> QED
    BY <2>2, <1>1, <1>2 DEF TypeOK, Busy, parser
<1>4. QueueOK' /\ AnswersOK'
  BY <1>1, QueueKept, AnswersKept
<1>5. ServingOK'
  BY <1>1, <1>2 DEF ServingOK, Busy, Parsing, parser
<1>6. ParsedOK'
  <2>1. state # "STARTLINE"
    BY DEF ParsedOK
  <2>2. type # "ERROR" => UrlRead
    BY <1>1 DEF ParsedOK, UrlRead, Parsing
  <2>3. type # "ERROR" => MethodRead
    BY <1>1 DEF ParsedOK, Parsing
  <2>4. CutOK'
    BY <1>1, <1>2 DEF ParsedOK, CutOK, HadStart, Parsing, parser
  <2> QED
    BY <2>2, <2>3, <2>4, <1>1, <1>2 DEF ParsedOK, UrlRead, MethodRead, HadStart, Started, parser
<1>7. BodyOK'
  BY <1>1, <1>2 DEF BodyOK, Given, Parsing, parser
<1> QED
  BY <1>3, <1>4, <1>5, <1>6, <1>7

------------------------------------------------------------------------------
(* The parameters *)

LEMMA PartsIs == ASSUME TypeOK PROVE Parts \in Seq(PartType) /\ Len(Parts) \in Nat
  BY DEF Parts, TypeOK

LEMMA ParamIInv == ASSUME IInv, Param PROVE IInv'
<1> USE DEF IInv, Param
<1>1. TypeOK /\ server' = server /\ slave' = slave /\ UNCHANGED parser
      /\ UNCHANGED <<conn, sent, queue, answer, data, gone, received>> /\ server \in {"url", "body"}
  BY DEF net
<1>2. Parts \in Seq(PartType) /\ Len(Parts) \in Nat /\ at \in 1..Len(Parts) /\ at \in Nat
  BY <1>1, PartsIs DEF TypeOK
<1>3. Behind \in 1..Len(Parts) + 1
  BY <1>2, BehindIs
<1>4. slave \in Clients
  BY <1>1 DEF TypeOK, Busy
<1>5. Name \subseteq STRING \cup {None}
  <2>1. Parts[at] \in PartType
    BY <1>2
  <2> QED
    BY <2>1 DEF Name, PartType
<1>6. server = "body" => Name \subseteq Given(slave) /\ HadStart(slave)
  <2> SUFFICES ASSUME server = "body" PROVE Name \subseteq Given(slave) /\ HadStart(slave)
    OBVIOUS
  <2>1. Parts = body /\ at \in DOMAIN body /\ body # << >>
    BY <1>2 DEF Parts
  <2>2. HadStart(slave)
    BY <2>1 DEF ParsedOK, CutOK, Parsing
  <2>3. Name \subseteq Names(body)
    BY <2>1 DEF Name, Names, WithEq
  <2> QED
    BY <2>2, <2>3 DEF BodyOK, Parsing
<1>7. TypeOK'
  <2>1. Parts' = Parts /\ at' = Behind
    BY <1>1 DEF Parts, parser
  <2>2. params' \subseteq STRING \cup {None}
    BY <1>5 DEF TypeOK
  <2>3. at' \in Nat
    BY <2>1, <1>2, <1>3
  <2> QED
    BY <2>1, <2>2, <2>3, <1>1, <1>3 DEF TypeOK, parser
<1>8. QueueOK' /\ AnswersOK'
  BY <1>1, QueueKept, AnswersKept
<1>9. ServingOK'
  BY <1>1 DEF ServingOK, parser
<1>10. ParsedOK'
  BY <1>1, <1>6 DEF ParsedOK, UrlRead, MethodRead, CutOK, HadStart, parser
<1>11. BodyOK'
  BY <1>1, <1>6 DEF BodyOK, Given, parser
<1> QED
  BY <1>7, <1>8, <1>9, <1>10, <1>11

LEMMA ParamsEndIInv == ASSUME IInv, ParamsEnd PROVE IInv'
<1> USE DEF IInv, ParamsEnd
<1>1. TypeOK /\ slave' = slave /\ UNCHANGED parser /\ at' = 1 /\ params' = params
      /\ UNCHANGED <<conn, sent, queue, answer, data, gone, received>> /\ server \in {"url", "body"}
      /\ server' \in {"body", "handle"} /\ (server' = "body" => server = "url")
  BY DEF net
<1>2. TypeOK'
  <2>1. Len(body) \in Nat
    BY DEF TypeOK
  <2>2. server' = "body" => at' \in 1..Len(Parts') + 1
    BY <2>1, <1>1 DEF Parts, parser
  <2> QED
    BY <2>2, <1>1 DEF TypeOK, Busy, parser
<1>3. QueueOK' /\ AnswersOK'
  BY <1>1, QueueKept, AnswersKept
<1>4. ServingOK'
  BY <1>1 DEF ServingOK, Busy, Parsing, parser
<1>5. ParsedOK'
  <2>1. CutOK'
    BY <1>1 DEF ParsedOK, CutOK, BodyOK, HadStart, Parsing, parser
  <2> QED
    BY <2>1, <1>1 DEF ParsedOK, UrlRead, MethodRead, HadStart, Parsing, parser
<1>6. BodyOK'
  BY <1>1 DEF BodyOK, Given, Parsing, parser
<1> QED
  BY <1>2, <1>3, <1>4, <1>5, <1>6

------------------------------------------------------------------------------
(* Handling *)

\* A step out of "handle": what it leaves alone, and what it knows.
LEMMA Handling ==
  ASSUME IInv, server = "handle", Handled, server' \in {"send", "undefined", "ended"},
         answer' \in [Clients -> {None, 200, 404}], data' \subseteq Clients,
         \A c \in Clients : c # slave => answer'[c] = answer[c]
  PROVE  TypeOK' /\ QueueOK' /\ ServingOK' /\ ParsedOK' /\ BodyOK'
<1>1. slave \in Clients /\ conn[slave] = "slave"
  BY DEF IInv, TypeOK, Busy, ServingOK
<1>2. TypeOK'
  BY DEF IInv, TypeOK, Handled, net, parser, Busy
<1>3. QueueOK'
  BY QueueKept DEF IInv, Handled, net
<1>4. ServingOK'
  BY <1>1 DEF IInv, ServingOK, Handled, net, parser, Busy, Parsing
<1>5. ParsedOK' /\ BodyOK'
  BY ParserIdle DEF Parsing
<1> QED
  BY <1>2, <1>3, <1>4, <1>5

LEMMA Known ==
  ASSUME IInv, server = "handle"
  PROVE  /\ slave \in Clients /\ answer[slave] = None /\ slave \notin data
         /\ params \subseteq Given(slave)
         /\ type # "ERROR" => MethodRead /\ UrlRead
         /\ ~HadStart(slave) => params = {}
<1>1. slave \in Clients /\ answer[slave] = None
  BY DEF IInv, TypeOK, Busy, ServingOK
<1>2. slave \notin data
  BY <1>1, NoneIs DEF IInv, AnswersOK, PostsStored
<1> QED
  BY <1>1, <1>2 DEF IInv, ParsedOK, CutOK, BodyOK, Parsing

\* A file is found exactly when RightAnswer says so.
LEMMA FoundIs ==
  ASSUME IInv, server = "handle", type # "ERROR"
  PROVE  IF HadStart(slave) THEN (Found <=> Text[slave][1].url \in Files) /\ Text[slave][1].version
                            ELSE Found
<1>1. slave \in Clients /\ MethodRead /\ UrlRead
  BY Known
<1>2. CASE HadStart(slave)
  <2>1. 1 \in 1..Len(Text[slave])
    BY <1>1, TextIs
  <2>2. Text[slave][1].url # None
    BY <2>1, <1>1, <1>2, TextAssumption DEF MethodRead, Started
  <2> QED
    BY <2>2, <1>1, <1>2 DEF UrlRead, Found
<1>3. CASE ~HadStart(slave)
  BY <1>1, <1>3 DEF UrlRead, Found
<1> QED
  BY <1>2, <1>3

LEMMA NoReturnIInv == ASSUME IInv, NoReturn PROVE IInv'
<1>1. server = "handle" /\ Handled /\ server' = "undefined" /\ answer' = answer /\ data' = data
  BY DEF NoReturn
<1>2. answer \in [Clients -> {None, 200, 404}] /\ data \subseteq Clients
  BY DEF IInv, TypeOK
<1>3. AnswersOK'
  BY <1>1, AnswersKept DEF IInv, Handled
<1> QED
  BY <1>1, <1>2, <1>3, Handling DEF IInv

\* A step that answers the slave: status and data fit its request.
LEMMA Answering ==
  ASSUME IInv, server = "handle", Handled, type # "ERROR", NEW status \in {200, 404},
         Answered(status),
         type # "POST" => (status = 200 <=> Found) /\ data' = data,
         type = "POST" => IF status = 200 THEN data' = data \cup {slave} /\ Needed \subseteq params
                                          ELSE data' = data
  PROVE  IInv'
<1>1. /\ slave \in Clients /\ answer[slave] = None /\ slave \notin data
      /\ params \subseteq Given(slave) /\ MethodRead /\ (~HadStart(slave) => params = {})
      /\ received' = received
  BY Known DEF Handled
<1>2. answer \in [Clients -> {None, 200, 404}] /\ data \subseteq Clients
  BY DEF IInv, TypeOK
<1>3. answer' = [answer EXCEPT ![slave] = status] /\ server' = "send"
  BY DEF Answered
<1>4. answer' \in [Clients -> {None, 200, 404}] /\ answer'[slave] = status
      /\ \A c \in Clients : c # slave => answer'[c] = answer[c]
  BY <1>1, <1>2, <1>3
<1>5. data' \subseteq Clients /\ \A c \in Clients : c # slave => (c \in data' <=> c \in data)
  BY <1>1, <1>2
<1>6. slave \in data' <=> status = 200 /\ type = "POST"
  BY <1>1
<1>9. /\ HadStart(slave) => Started(slave) /\ Text[slave][1].method = type
      /\ ~HadStart(slave) => received[slave].tail.method = type /\ Text[slave][1].method \in {type, None}
  BY <1>1 DEF MethodRead
<1>10. status = 200 /\ type = "POST" => HadStart(slave)
  BY <1>1 DEF Needed
<1>11. type # "POST" => Text[slave][1].method # "POST"
  BY <1>9, NoneIs DEF Types, Methods
<1>7. RightAnswer'
  <2> SUFFICES ASSUME NEW c \in Clients, answer'[c] # None
               PROVE  IF HadStart(c)
                      THEN /\ Started(c) /\ Text[c][1].version
                           /\ Text[c][1].method # "POST" => (answer'[c] = 200 <=> Text[c][1].url \in Files)
                      ELSE received[c].tail.method # "POST" => answer'[c] = 200
    BY <1>1 DEF RightAnswer, HadStart
  <2>1. CASE c = slave
    BY <2>1, <1>4, <1>9, FoundIs
  <2>2. CASE c # slave
    BY <2>2, <1>4 DEF IInv, AnswersOK, RightAnswer
  <2> QED
    BY <2>1, <2>2
<1>8. PostsStored'
  <2> SUFFICES ASSUME NEW c \in Clients
               PROVE  /\ c \in data' <=> answer'[c] = 200 /\ Text[c][1].method = "POST"
                      /\ c \in data' => Needed \subseteq Given(c)
    BY DEF PostsStored
  <2>1. CASE c = slave
    BY <2>1, <1>1, <1>4, <1>6, <1>9, <1>10, <1>11
  <2>2. CASE c # slave
    BY <2>2, <1>4, <1>5 DEF IInv, AnswersOK, PostsStored
  <2> QED
    BY <2>1, <2>2
<1> QED
  BY <1>3, <1>4, <1>5, <1>7, <1>8, Handling DEF IInv, AnswersOK

LEMMA GetOrHeadIInv == ASSUME IInv, GetOrHead PROVE IInv'
<1> DEFINE status == IF Found THEN 200 ELSE 404
<1>1. status \in {200, 404} /\ (status = 200 <=> Found)
  OBVIOUS
<1>2. server = "handle" /\ Handled /\ type # "ERROR" /\ type # "POST" /\ Answered(status)
      /\ data' = data
  BY DEF GetOrHead
<1> HIDE DEF status
<1> QED
  BY <1>1, <1>2, Answering

LEMMA PostDeniedIInv == ASSUME IInv, PostDenied PROVE IInv'
<1>1. server = "handle" /\ Handled /\ type = "POST" /\ Answered(404) /\ data' = data
  BY DEF PostDenied
<1> QED
  BY <1>1, Answering

LEMMA PostIInv == ASSUME IInv, Post PROVE IInv'
<1>1. server = "handle" /\ Handled /\ type = "POST"
  BY DEF Post
<1>2. CASE Needed \subseteq params
  <2>1. Answered(200) /\ data' = data \cup {slave}
    BY <1>2 DEF Post
  <2> QED
    BY <2>1, <1>1, <1>2, Answering
<1>3. CASE ~(Needed \subseteq params)
  <2>1. server' = "ended" /\ answer' = answer /\ data' = data
    BY <1>3 DEF Post
  <2>2. answer \in [Clients -> {None, 200, 404}] /\ data \subseteq Clients
    BY DEF IInv, TypeOK
  <2>3. AnswersOK'
    BY <1>1, <2>1, AnswersKept DEF IInv, Handled
  <2> QED
    BY <2>1, <2>2, <2>3, <1>1, Handling DEF IInv
<1> QED
  BY <1>2, <1>3

LEMMA SendIInv == ASSUME IInv, Send PROVE IInv'
<1> USE DEF IInv, Send
<1>1. slave \in Clients /\ conn[slave] = "slave"
  BY DEF TypeOK, Busy, ServingOK
<1>2. server' \in {"accept", "ended"} /\ conn' \in {conn, [conn EXCEPT ![slave] = "closed"]}
      /\ slave' \in {slave, None}
  OBVIOUS
<1>3. TypeOK'
  <2>1. conn' \in [Clients -> {"new", "queue", "slave", "closed"}]
    BY <1>2 DEF TypeOK
  <2>2. server' \notin Busy /\ server' \notin {"url", "body"}
    BY <1>2 DEF Busy
  <2>3. slave' \in Clients \cup {None} /\ server' \in Busy \cup {"accept", "undefined", "ended"}
    BY <1>1, <1>2
  <2> QED
    BY <2>1, <2>2, <2>3 DEF TypeOK, parser
<1>4. QueueOK'
  <2>1. \A i \in 1..Len(queue) : queue[i] # slave /\ queue[i] \in Clients
    BY <1>1 DEF QueueOK, TypeOK
  <2>2. \A i \in 1..Len(queue) : conn'[queue[i]] = conn[queue[i]]
    BY <1>2, <2>1 DEF TypeOK
  <2> QED
    BY <2>2 DEF QueueOK
<1>5. ServingOK'
  BY <1>1, <1>2 DEF ServingOK, TypeOK, Busy, Parsing
<1>6. ParsedOK' /\ BodyOK' /\ AnswersOK'
  BY <1>2, ParserIdle, AnswersKept DEF Parsing
<1> QED
  BY <1>3, <1>4, <1>5, <1>6

------------------------------------------------------------------------------
(* The theorems *)

LEMMA StepIInv == IInv /\ [Next]_vars => IInv'
<1> SUFFICES ASSUME IInv, [Next]_vars PROVE IInv'
  OBVIOUS
<1>1. CASE ServerStep
  BY <1>1, AcceptIInv, ReceiveIInv, ReceiveFailsIInv, StartLineIInv, StartLineInfoIInv,
     HeaderLineIInv, BodyIInv, ParserEndsIInv, ParamIInv, ParamsEndIInv, NoReturnIInv,
     GetOrHeadIInv, PostDeniedIInv, PostIInv, SendIInv DEF ServerStep, Parse
<1>2. ASSUME NEW c \in Clients, Connect(c) \/ Speak(c) \/ Leave(c) PROVE IInv'
  BY <1>2, ConnectIInv, SpeakIInv, LeaveIInv
<1>3. CASE UNCHANGED vars
  <2>1. QueueOK' /\ ParsedOK' /\ BodyOK' /\ AnswersOK'
    BY <1>3, QueueKept, ParserKept, AnswersKept DEF IInv, vars, net
  <2>2. TypeOK' /\ ServingOK'
    BY <1>3 DEF IInv, vars, net, parser, TypeOK, ServingOK, Parts
  <2> QED
    BY <2>1, <2>2 DEF IInv
<1> QED
  BY <1>1, <1>2, <1>3 DEF Next

LEMMA AlwaysIInv == Spec => []IInv
  BY InitIInv, StepIInv, PTL DEF Spec

\* For all texts, cut anywhere: the fields keep their types, and the walk of
\* parse_params never leaves its string.
THEOREM TypeCorrect == Spec => []TypeOK
  BY AlwaysIInv, PTL DEF IInv

\* For all texts, cut anywhere: with the start line whole an answer is to the
\* client's own request, and 404 exactly for a file that is not there, although
\* the state set for a bad version is overwritten and a bad header leaves the
\* type as it is; with the start line cut every GET and HEAD is answered 200.
THEOREM AnswersRight == Spec => []RightAnswer
  BY AlwaysIInv, PTL DEF IInv, AnswersOK

\* For all texts, cut anywhere: what is stored was posted under names that the
\* client which was answered 200 has given itself.
THEOREM PostsAreStored == Spec => []PostsStored
  BY AlwaysIInv, PTL DEF IInv, AnswersOK
==============================================================================
