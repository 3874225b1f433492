------------------------ MODULE DirectCommandsProofs ------------------------
(***************************************************************************)
(* Theorems about DirectCommands for every number of clients, commands and *)
(* words: what a client makes of an answer of the naming server is about   *)
(* the command that it is at, and a command that was not carried out does  *)
(* not end as if it had been, unless two sends came in one buffer; and a   *)
(* word runs a function just when it hashes to its slot.                   *)
(***************************************************************************)
EXTENDS DirectCommands, SequenceTheorems, WellFoundedInduction, TLAPS

NoOrFunction == Runnable \cup {NULL} \cup {Function[w] : w \in DOMAIN Characters}
Verdict == {"refused", "listing", "forwarded", "server"}
Issued == Client \X Nat
Message == [about : Issued, op : NoOrFunction]
Answer == [about : Issued, verdict : Verdict]
Position == Returned \cup {"poll", "prompt", "repeats", "ask", "answer", "ack", "connect", "stop",
                           "data", "typing", "response", "info", "spins"}

\* How many commands a client gets to.
MaxRounds == [c \in Client |-> Len(Word[c])]

LEMMA RoundsOf == MaxRounds \in [Client -> Nat \ {0}]
  BY WordAssumption DEF MaxRounds

LEMMA WordsOf ==
  ASSUME NEW c \in Client, NEW n \in 1 .. MaxRounds[c]
  PROVE  Word[c][n] \subseteq DOMAIN Characters
  BY WordAssumption DEF MaxRounds

\* The variables of the exchange have their types.
ExchangeTypeOK ==
  /\ round \in [Client -> Nat] /\ \A c \in Client : round[c] \in 1 .. MaxRounds[c]
  /\ answered \in [Client -> Issued]
  /\ cmd \in [Client -> NoOrFunction] /\ cpc \in [Client -> Position]
  /\ requests \in [Client -> Seq(Message)] /\ answers \in [Client -> Seq(Answer)]
  /\ nsUp \in [Client -> BOOLEAN] /\ interrupted \cup torn \cup mixed \subseteq Client

(* What is under way for a client that was never interrupted, nor mixed up *)
(* with another: nothing, unless it waits; then its request or the answer  *)
(* to it, and not both.  (What a naming server that has gone did not read  *)
(* will not be answered.)                                                  *)
OneUnderWay(c) ==
  /\ c \notin torn
  /\ \A i \in 1 .. Len(answers[c]) : answers[c][i].about = conn(c)
  /\ Len(answers[c]) <= 1 /\ (cpc[c] # "answer" => Len(answers[c]) = 0)
  /\ nsUp[c] =>
       /\ \A i \in 1 .. Len(requests[c]) : requests[c][i].about = conn(c)
       /\ Len(requests[c]) + Len(answers[c]) <= 1
       /\ cpc[c] # "answer" => Len(requests[c]) = 0

Own == {"ack", "connect", "stop", "data", "typing", "response", "info", "ok"}

UsesOwn(c) == cpc[c] \in Own => answered[c] = conn(c)

ExchangeInv ==
  ExchangeTypeOK /\ \A c \in Client : c \in interrupted \cup mixed \/ (OneUnderWay(c) /\ UsesOwn(c))

-----------------------------------------------------------------------------
LEMMA InitExchange == Init => ExchangeInv
<1> SUFFICES ASSUME Init PROVE ExchangeInv
  OBVIOUS
<1>1. round \in [Client -> Nat] /\ \A c \in Client : round[c] \in 1 .. MaxRounds[c]
  BY RoundsOf DEF Init
<1>2. answered \in [Client -> Issued]
  BY DEF Init, Issued
<1> QED BY <1>1, <1>2 DEF Init, ExchangeInv, ExchangeTypeOK, OneUnderWay, UsesOwn, Own, Position, NoOrFunction

(* A step of one client that leaves the messages alone preserves the       *)
(* invariant, if that client neither waits before or after it nor comes by *)
(* it to use an answer.                                                    *)
LEMMA MessagesAlone ==
  ASSUME ExchangeInv, ExchangeTypeOK', UNCHANGED nsVars, NEW b \in Client,
         \A c \in Client : c # b => cpc'[c] = cpc[c] /\ round'[c] = round[c],
         cpc[b] # "answer", cpc'[b] # "answer",
         cpc'[b] \in Own => cpc[b] \in Own /\ round'[b] = round[b]
  PROVE  ExchangeInv'
<1> SUFFICES ASSUME NEW c \in Client, c \notin interrupted \cup mixed PROVE (OneUnderWay(c) /\ UsesOwn(c))'
  BY DEF ExchangeInv, nsVars
<1> USE DEF ExchangeInv, ExchangeTypeOK, nsVars, OneUnderWay, UsesOwn, conn
<1>1. CASE c # b
  BY <1>1
<1>2. CASE c = b
  BY <1>2
<1> QED BY <1>1, <1>2

\* So does a step that leaves clients and messages alone.
LEMMA ExchangeAlone ==
  ASSUME ExchangeInv, UNCHANGED <<round, cmd, cpc, nsVars>>
  PROVE  ExchangeInv'
  BY DEF ExchangeInv, ExchangeTypeOK, nsVars, OneUnderWay, UsesOwn, conn

-----------------------------------------------------------------------------
LEMMA AtMostOne ==
  \A i, j \in Nat : /\ i >= 1 /\ i + j <= 1 => i = 1 /\ j = 0
                    /\ i >= 1 /\ j + i <= 1 => i = 1 /\ j = 0
                    /\ i >= 1 /\ i <= 1 => i = 1
  OBVIOUS

(* The steps in which a client handles messages of the naming server.      *)

LEMMA AsksStep ==
  ASSUME ExchangeInv, NEW b \in Client, Asks(b)
  PROVE  ExchangeInv'
<1> USE DEF ExchangeInv, ExchangeTypeOK
<1>1. Request(b) \in Message /\ Request(b).about = conn(b)
  BY DEF Request, Message, conn, Issued
<1>2. ExchangeTypeOK'
  BY <1>1 DEF Asks, CGo, loopVars, Position
<1>3. ASSUME NEW c \in Client, c \notin interrupted' \cup mixed' PROVE (OneUnderWay(c) /\ UsesOwn(c))'
  <2>1. CASE c # b
    BY <1>3, <2>1 DEF Asks, CGo, loopVars, OneUnderWay, UsesOwn, conn
  <2>2. CASE c = b
    <3>1. cpc[b] = "ask" /\ cpc'[b] = "answer" /\ requests'[b] = Append(requests[b], Request(b))
      BY DEF Asks, CGo
    <3>2. UNCHANGED <<answers, round, nsUp, interrupted, torn, mixed>>
      BY DEF Asks, loopVars
    <3>3. Len(answers[b]) = 0 /\ (nsUp[b] => Len(requests[b]) = 0)
      BY <1>3, <2>2, <3>1, <3>2 DEF OneUnderWay
    <3>4. /\ Len(requests'[b]) = Len(requests[b]) + 1
          /\ requests'[b][Len(requests[b]) + 1] = Request(b)
      BY <1>1, <3>1, AppendProperties
    <3>5. nsUp[b] => Len(requests'[b]) = 1 /\ requests'[b][1].about = conn(b)
      BY <1>1, <3>3, <3>4
    <3>6. conn(b)' = conn(b) /\ nsUp' = nsUp /\ torn' = torn /\ answers' = answers
      BY <3>2 DEF conn
    <3>7. cpc'[b] = "answer" /\ b \notin torn
      BY <1>3, <2>2, <3>1, <3>2 DEF OneUnderWay
    <3>8. OneUnderWay(b)'
      <4>1. nsUp'[b] => /\ Len(requests'[b]) = 1 /\ Len(answers'[b]) = 0
                        /\ requests'[b][1].about = conn(b)'
        BY <3>3, <3>5, <3>6
      <4>2. b \notin torn' /\ Len(answers'[b]) = 0 /\ cpc'[b] = "answer"
        BY <3>3, <3>6, <3>7
      <4>3. ASSUME nsUp'[b]
            PROVE  /\ \A i \in 1 .. Len(requests'[b]) : requests'[b][i].about = conn(b)'
                   /\ Len(requests'[b]) + Len(answers'[b]) <= 1
        <5>1. Len(requests'[b]) = 1 /\ Len(answers'[b]) = 0 /\ requests'[b][1].about = conn(b)'
          BY <4>1, <4>3, Zenon
        <5>2. \A i \in 1 .. Len(requests'[b]) : i = 1
          BY <5>1
        <5>3. Len(requests'[b]) + Len(answers'[b]) <= 1
          BY <5>1
        <5> QED BY <5>1, <5>2, <5>3
      <4> QED BY <4>2, <4>3 DEF OneUnderWay
    <3>9. UsesOwn(b)'
      BY <3>7 DEF UsesOwn, Own
    <3> QED BY <2>2, <3>8, <3>9
  <2> QED BY <2>1, <2>2
<1> QED BY <1>2, <1>3

LEMMA NSAnswersStep ==
  ASSUME ExchangeInv, NEW b \in Client, NSAnswers(b)
  PROVE  ExchangeInv'
<1> USE DEF ExchangeInv, ExchangeTypeOK
<1> DEFINE r == Head(requests[b])
<1>1. r \in Message /\ r = requests[b][1] /\ Len(requests[b]) >= 1 /\ nsUp[b]
  BY HeadTailProperties DEF NSAnswers
<1>2. PICK d \in Client \cup {NoClient}, v \in Verdict :
        /\ answers' = [e \in Client |-> IF e # d THEN answers[e]
                         ELSE Append(answers[e], [about |-> r.about, verdict |-> v])]
        /\ mixed' = IF d = b THEN mixed ELSE mixed \cup ({b, d} \ {NoClient})
  <2>1. PICK d \in Receivers(b), v \in Verdicts(r.op) :
          /\ answers' = [e \in Client |-> IF e # d THEN answers[e]
                           ELSE Append(answers[e], [about |-> r.about, verdict |-> v])]
          /\ mixed' = IF d = b THEN mixed ELSE mixed \cup ({b, d} \ {NoClient})
    BY DEF NSAnswers
  <2>2. d \in Client \cup {NoClient} /\ v \in Verdict
    BY DEF Receivers, Verdicts, Verdict
  <2> QED BY <2>1, <2>2
<1> DEFINE Reply == [about |-> r.about, verdict |-> v]
<1>3. Reply \in Answer
  BY <1>1 DEF Message, Answer
<1>4. requests' = [requests EXCEPT ![b] = Tail(@)]
      /\ UNCHANGED <<round, cmd, cpc, nsUp, answered, interrupted, torn>>
  BY DEF NSAnswers, loopVars
<1> HIDE DEF r
<1>5. ExchangeTypeOK'
  <2>1. requests' \in [Client -> Seq(Message)]
    BY <1>1, <1>4, HeadTailProperties
  <2>2. ASSUME NEW e \in Client PROVE answers'[e] \in Seq(Answer)
    <3>1. answers[e] \in Seq(Answer) /\ Append(answers[e], Reply) \in Seq(Answer)
      BY <1>3, AppendProperties
    <3> QED BY <1>2, <3>1
  <2>3. answers' \in [Client -> Seq(Answer)]
    <3>1. answers' = [e \in Client |-> answers'[e]]
      BY <1>2
    <3> QED BY <2>2, <3>1
  <2>4. mixed' \subseteq Client
    BY <1>2
  <2> QED BY <1>4, <2>1, <2>3, <2>4
<1>6. ASSUME NEW c \in Client, c \notin interrupted' \cup mixed' PROVE (OneUnderWay(c) /\ UsesOwn(c))'
  <2>1. UsesOwn(c)' /\ conn(c)' = conn(c) /\ OneUnderWay(c)
    BY <1>2, <1>4, <1>6 DEF UsesOwn, conn
  <2>2. CASE c # b
    <3>1. c # d
      BY <1>2, <1>6, <2>2, ClientsAssumption
    <3> QED BY <1>2, <1>4, <2>1, <2>2, <3>1 DEF OneUnderWay
  <2>3. CASE c = b
    <3>0. d = b
      BY <1>2, <1>6, <2>3, ClientsAssumption
    <3>1. /\ Len(requests[b]) = 1 /\ Len(answers[b]) = 0
          /\ cpc[b] = "answer" /\ r.about = conn(b)
      <4>1. Len(requests[b]) \in Nat /\ Len(answers[b]) \in Nat /\ OneUnderWay(b)
        BY <2>1, <2>3, LenProperties
      <4>2. 1 \in 1 .. Len(requests[b]) => requests[b][1].about = conn(b)
        BY <1>1, <4>1 DEF OneUnderWay
      <4>3. Len(requests[b]) + Len(answers[b]) <= 1 /\ (cpc[b] # "answer" => Len(requests[b]) = 0)
        BY <1>1, <4>1 DEF OneUnderWay
      <4>4. Len(requests[b]) = 1 /\ Len(answers[b]) = 0
        BY <1>1, <4>1, <4>3, AtMostOne
      <4> QED BY <1>1, <4>2, <4>3, <4>4
    <3>2. Len(requests'[b]) = 0
      BY <1>1, <1>4, <3>1, HeadTailProperties
    <3>3. Len(answers'[b]) = 1 /\ answers'[b][1].about = r.about
      <4>1. /\ Len(Append(answers[b], Reply)) = Len(answers[b]) + 1
            /\ Append(answers[b], Reply)[Len(answers[b]) + 1] = Reply
        BY <1>3, AppendProperties
      <4>2. answers'[b] = Append(answers[b], Reply)
        BY <1>2, <3>0
      <4> QED BY <3>1, <4>1, <4>2
    <3>4. OneUnderWay(b)'
      <4>1. answers'[b][1].about = conn(b)' /\ cpc'[b] = "answer" /\ b \notin torn'
        BY <1>4, <2>1, <2>3, <3>1, <3>3 DEF OneUnderWay
      <4> HIDE DEF Reply
      <4> QED BY <3>2, <3>3, <4>1 DEF OneUnderWay
    <3> QED BY <2>1, <2>3, <3>4
  <2> QED BY <2>2, <2>3
<1> QED BY <1>5, <1>6

\* What is received is typed.
LEMMA FirstAnswer ==
  ASSUME ExchangeInv, NEW b \in Client, answers[b] # <<>>
  PROVE  /\ Head(answers[b]).about \in Issued /\ Tail(answers[b]) \in Seq(Answer)
         /\ Len(answers[b]) >= 1 /\ Head(answers[b]) = answers[b][1]
<1>1. answers[b] \in Seq(Answer)
  BY DEF ExchangeInv, ExchangeTypeOK
<1>2. Head(answers[b]) \in Answer /\ Tail(answers[b]) \in Seq(Answer)
  BY <1>1, HeadTailProperties
<1>3. Len(answers[b]) >= 1 /\ Head(answers[b]) = answers[b][1]
  BY <1>1, HeadTailProperties
<1>4. \A a \in Answer : a.about \in Issued
  BY DEF Answer
<1> QED BY <1>2, <1>3, <1>4

LEMMA ReceivesAnswerStep ==
  ASSUME ExchangeInv, NEW b \in Client, ReceivesAnswer(b)
  PROVE  ExchangeInv'
<1> USE DEF ExchangeInv, ExchangeTypeOK
<1>1. /\ Head(answers[b]).about \in Issued /\ Tail(answers[b]) \in Seq(Answer)
      /\ Len(answers[b]) >= 1 /\ Head(answers[b]) = answers[b][1]
  BY FirstAnswer DEF ReceivesAnswer
<1>2. /\ cpc[b] = "answer" /\ \E p \in {"ok", "connect", "failed", "ack"} : cpc' = [cpc EXCEPT ![b] = p]
      /\ answers' = [answers EXCEPT ![b] = Tail(@)]
      /\ answered' = [answered EXCEPT ![b] = Head(answers[b]).about]
      /\ UNCHANGED <<round, cmd, nsUp, requests, interrupted, torn, mixed>>
  <2>1. PICK v : \E to \in AfterAnswer(cmd[b], v) : CGo(b, "answer", to)
    BY DEF ReceivesAnswer
  <2>2. cpc[b] = "answer" /\ \E p \in {"ok", "connect", "failed", "ack"} : cpc' = [cpc EXCEPT ![b] = p]
    BY <2>1 DEF AfterAnswer, CGo
  <2> QED BY <2>2 DEF ReceivesAnswer, loopVars
<1>3. ExchangeTypeOK'
  BY <1>1, <1>2 DEF Position, Returned
<1>4. ASSUME NEW c \in Client, c \notin interrupted' \cup mixed' PROVE (OneUnderWay(c) /\ UsesOwn(c))'
  <2>0. OneUnderWay(c) /\ UsesOwn(c) /\ conn(c)' = conn(c)
    BY <1>2, <1>4 DEF conn
  <2>1. CASE c # b
    BY <1>2, <2>0, <2>1 DEF OneUnderWay, UsesOwn
  <2>2. CASE c = b
    <3>1. Len(answers[b]) = 1 /\ answers[b][1].about = conn(b) /\ (nsUp[b] => Len(requests[b]) = 0)
      <4>1. Len(requests[b]) \in Nat /\ Len(answers[b]) \in Nat /\ OneUnderWay(b)
        BY <2>0, <2>2, LenProperties
      <4>2. 1 \in 1 .. Len(answers[b]) => answers[b][1].about = conn(b)
        BY <4>1 DEF OneUnderWay
      <4>3. Len(answers[b]) <= 1 /\ (nsUp[b] => Len(requests[b]) + Len(answers[b]) <= 1)
        BY <4>1 DEF OneUnderWay
      <4>4. Len(answers[b]) = 1 /\ (nsUp[b] => Len(requests[b]) = 0)
        BY <1>1, <4>1, <4>3, AtMostOne
      <4> QED BY <4>2, <4>4
    <3>2. Len(answers'[b]) = 0 /\ answered'[b] = conn(b)
      BY <1>1, <1>2, <3>1, HeadTailProperties
    <3>3. UsesOwn(b)'
      BY <2>0, <2>2, <3>2 DEF UsesOwn
    <3>4. OneUnderWay(b)'
      <4>1. b \notin torn' /\ requests'[b] = requests[b] /\ nsUp'[b] = nsUp[b]
        BY <1>2, <2>0, <2>2 DEF OneUnderWay
      <4> QED BY <3>1, <3>2, <4>1 DEF OneUnderWay
    <3> QED BY <2>2, <3>3, <3>4
  <2> QED BY <2>1, <2>2
<1> QED BY <1>3, <1>4

(* Nothing is there for the ack of a client that was neither interrupted   *)
(* nor mixed up with another.                                              *)
LEMMA ReceivesAckStep ==
  ASSUME ExchangeInv, NEW b \in Client, ReceivesAck(b)
  PROVE  ExchangeInv'
<1> USE DEF ExchangeInv, ExchangeTypeOK
<1>1. /\ Head(answers[b]).about \in Issued /\ Tail(answers[b]) \in Seq(Answer) /\ Len(answers[b]) >= 1
  BY FirstAnswer DEF ReceivesAck
<1>2. /\ cpc[b] = "ack" /\ \E p \in {"ok", "failed"} : cpc' = [cpc EXCEPT ![b] = p]
      /\ answers' = [answers EXCEPT ![b] = Tail(@)]
      /\ answered' = [answered EXCEPT ![b] = Head(answers[b]).about]
      /\ torn' = torn \cup {b}
      /\ UNCHANGED <<round, cmd, nsUp, requests, interrupted, mixed>>
  BY DEF ReceivesAck, CGo, loopVars
<1>3. ExchangeTypeOK'
  BY <1>1, <1>2 DEF Position, Returned
<1>4. b \in interrupted \cup mixed
  <2>1. ~OneUnderWay(b)
    BY <1>1, <1>2 DEF OneUnderWay
  <2> QED BY <2>1
<1>5. ASSUME NEW c \in Client, c \notin interrupted' \cup mixed' PROVE (OneUnderWay(c) /\ UsesOwn(c))'
  <2>1. OneUnderWay(c) /\ UsesOwn(c) /\ conn(c)' = conn(c) /\ c # b
    BY <1>2, <1>4, <1>5 DEF conn
  <2> QED BY <1>2, <2>1 DEF OneUnderWay, UsesOwn
<1> QED BY <1>3, <1>5

LEMMA ReceivesRemnantStep ==
  ASSUME ExchangeInv, NEW b \in Client, ReceivesRemnant(b)
  PROVE  ExchangeInv'
<1> USE DEF ExchangeInv, ExchangeTypeOK
<1>1. /\ b \in torn /\ cpc' = [cpc EXCEPT ![b] = "failed"] /\ torn' = torn \ {b}
      /\ UNCHANGED <<round, cmd, nsUp, requests, answers, answered, interrupted, mixed>>
  BY DEF ReceivesRemnant, CGo, loopVars
<1>2. ExchangeTypeOK'
  BY <1>1 DEF Position, Returned
<1>3. ASSUME NEW c \in Client, c \notin interrupted' \cup mixed' PROVE (OneUnderWay(c) /\ UsesOwn(c))'
  <2>1. OneUnderWay(c) /\ UsesOwn(c) /\ conn(c)' = conn(c) /\ c # b
    BY <1>1, <1>3 DEF conn, OneUnderWay
  <2> QED BY <1>1, <2>1 DEF OneUnderWay, UsesOwn
<1> QED BY <1>2, <1>3

LEMMA FindsNSGoneStep ==
  ASSUME ExchangeInv, NEW b \in Client, FindsNSGone(b)
  PROVE  ExchangeInv'
<1> USE DEF ExchangeInv, ExchangeTypeOK
<1>1. /\ ~nsUp[b] /\ answers[b] = <<>> /\ cpc' = [cpc EXCEPT ![b] = "failed"]
      /\ UNCHANGED <<round, cmd, nsVars>>
  BY DEF FindsNSGone, CGo, loopVars
<1>2. ExchangeTypeOK'
  BY <1>1 DEF nsVars, Position, Returned
<1>3. ASSUME NEW c \in Client, c \notin interrupted' \cup mixed' PROVE (OneUnderWay(c) /\ UsesOwn(c))'
  <2>1. OneUnderWay(c) /\ UsesOwn(c) /\ conn(c)' = conn(c)
    BY <1>1, <1>3 DEF conn, nsVars
  <2>2. cpc'[c] = cpc[c] \/ (c = b /\ cpc'[c] = "failed")
    BY <1>1
  <2> QED BY <1>1, <2>1, <2>2 DEF OneUnderWay, UsesOwn, Own, nsVars
<1> QED BY <1>2, <1>3

LEMMA NSEndsStep ==
  ASSUME ExchangeInv, NEW b \in Client, NSEnds(b)
  PROVE  ExchangeInv'
<1> USE DEF ExchangeInv, ExchangeTypeOK
<1>1. /\ nsUp' = [nsUp EXCEPT ![b] = FALSE] /\ requests' = [requests EXCEPT ![b] = <<>>]
      /\ UNCHANGED <<round, cmd, cpc, answers, answered, interrupted, torn, mixed>>
  BY DEF NSEnds, loopVars
<1>2. ExchangeTypeOK'
  <2>1. requests' \in [Client -> Seq(Message)]
    BY <1>1, EmptySeq
  <2>2. nsUp' \in [Client -> BOOLEAN]
    BY <1>1
  <2> QED BY <1>1, <2>1, <2>2
<1>3. ASSUME NEW c \in Client, c \notin interrupted' \cup mixed' PROVE (OneUnderWay(c) /\ UsesOwn(c))'
  <2>1. OneUnderWay(c) /\ UsesOwn(c) /\ conn(c)' = conn(c)
    BY <1>1, <1>3 DEF conn
  <2>2. nsUp'[c] => c # b
    BY <1>1
  <2> QED BY <1>1, <2>1, <2>2 DEF OneUnderWay, UsesOwn
<1> QED BY <1>2, <1>3

(* An interrupted client is one of which nothing is claimed, if it waited  *)
(* for an answer.                                                          *)
LEMMA InterruptsStep ==
  ASSUME ExchangeInv, NEW b \in Client, Interrupts(b)
  PROVE  ExchangeInv'
<1> USE DEF ExchangeInv, ExchangeTypeOK
<1>1. /\ cpc' = [cpc EXCEPT ![b] = "failed"]
      /\ interrupted' = IF cpc[b] = "answer" THEN interrupted \cup {b} ELSE interrupted
      /\ UNCHANGED <<round, cmd, nsUp, requests, answers, answered, torn, mixed>>
  BY DEF Interrupts, loopVars
<1>2. ExchangeTypeOK'
  BY <1>1 DEF Position, Returned
<1>3. ASSUME NEW c \in Client, c \notin interrupted' \cup mixed' PROVE (OneUnderWay(c) /\ UsesOwn(c))'
  <2>1. OneUnderWay(c) /\ UsesOwn(c) /\ conn(c)' = conn(c)
    BY <1>1, <1>3 DEF conn
  <2>2. cpc'[c] = cpc[c] \/ (c = b /\ cpc'[c] = "failed" /\ cpc[c] # "answer")
    BY <1>1, <1>3
  <2> QED BY <1>1, <2>1, <2>2 DEF OneUnderWay, UsesOwn, Own
<1> QED BY <1>2, <1>3

-----------------------------------------------------------------------------
LEMMA CommandStep ==
  ASSUME ExchangeInv, NEW b \in Client, Command(b)
  PROVE  ExchangeInv'
<1>1. CASE Asks(b)
  BY <1>1, AsksStep
<1>2. CASE ReceivesAnswer(b)
  BY <1>2, ReceivesAnswerStep
<1>3. CASE FindsNSGone(b) \/ ReceivesAck(b) \/ ReceivesRemnant(b)
  BY <1>3, FindsNSGoneStep, ReceivesAckStep, ReceivesRemnantStep
<1> DEFINE Positioned == /\ UNCHANGED <<nsVars, round, cmd>> /\ cpc[b] # "answer"
                         /\ \E p \in Position \ {"answer"} :
                              /\ cpc' = [cpc EXCEPT ![b] = p]
                              /\ p \in Own => cpc[b] \in Own
<1> HIDE DEF Positioned
<1>4. ASSUME Positioned PROVE ExchangeInv'
  <2>1. ExchangeTypeOK'
    BY <1>4 DEF Positioned, ExchangeInv, ExchangeTypeOK, nsVars
  <2>2. \A c \in Client : c # b => cpc'[c] = cpc[c] /\ round'[c] = round[c]
    BY <1>4 DEF Positioned, ExchangeInv, ExchangeTypeOK
  <2>3. /\ UNCHANGED nsVars /\ cpc[b] # "answer" /\ cpc'[b] # "answer"
        /\ cpc'[b] \in Own => cpc[b] \in Own /\ round'[b] = round[b]
    BY <1>4 DEF Positioned, ExchangeInv, ExchangeTypeOK
  <2> QED BY <2>1, <2>2, <2>3, MessagesAlone
<1> USE DEF Positioned, CGo, loopVars, Position, Returned, Own
<1>5. CASE pollServer(b) \/ AskFails(b) \/ Connects(b) \/ ConnectFails(b)
  BY <1>4, <1>5 DEF pollServer, AskFails, Connects, ConnectFails
<1>6. CASE ReceivesStop(b)
  BY <1>4, <1>6 DEF ReceivesStop
<1>7. CASE ReceivesData(b)
  <2>1. UNCHANGED cpc => cpc' = [cpc EXCEPT ![b] = "data"]
    BY <1>7 DEF ReceivesData, ExchangeInv, ExchangeTypeOK
  <2> QED BY <1>4, <1>7, <2>1 DEF ReceivesData
<1>8. CASE ReceivesResponse(b)
  BY <1>4, <1>8 DEF ReceivesResponse
<1>9. CASE FindsEnd(b)
  BY <1>4, <1>9 DEF FindsEnd
<1> QED BY <1>1, <1>2, <1>3, <1>5, <1>6, <1>7, <1>8, <1>9 DEF Command

LEMMA UserStep ==
  ASSUME ExchangeInv, NEW b \in Client, User(b)
  PROVE  ExchangeInv'
<1> USE DEF ExchangeInv, ExchangeTypeOK
<1>1. ASSUME NEW w \in Word[b][round[b]], Types(b, w) PROVE ExchangeInv'
  <2>1. Function[w] \in NoOrFunction
    BY WordsOf DEF NoOrFunction
  <2>2. /\ UNCHANGED <<nsVars, round>> /\ cmd' = [cmd EXCEPT ![b] = Function[w]]
        /\ cpc[b] = "prompt"
        /\ \E p \in {"unknown", "ask", "failed", "ran"} : cpc' = [cpc EXCEPT ![b] = p]
    BY <1>1 DEF Types, CGo, Starts
  <2>3. ExchangeTypeOK'
    BY <2>1, <2>2 DEF nsVars, Position, Returned
  <2> QED BY <2>2, <2>3, MessagesAlone DEF Own
<1>2. CASE PressesEnter(b) \/ TypesBlanks(b)
  <2>1. PICK f \in NoOrFunction, p \in {"ran", "repeats", "killed"} :
          /\ UNCHANGED <<nsVars, round>> /\ cmd' = [cmd EXCEPT ![b] = f]
          /\ cpc[b] = "prompt" /\ cpc' = [cpc EXCEPT ![b] = p]
    <3>1. CASE PressesEnter(b)
      <4>1. PICK f \in IF typed[b] = NULL THEN Runnable ELSE {cmd[b]} :
              /\ cmd' = [cmd EXCEPT ![b] = f]
              /\ CGo(b, "prompt", IF f \in {"HELP", "EXIT"} THEN "ran" ELSE "repeats")
        BY <3>1 DEF PressesEnter
      <4>2. f \in NoOrFunction
        <5>1. CASE typed[b] = NULL
          BY <4>1, <5>1 DEF NoOrFunction
        <5>2. CASE typed[b] # NULL
          BY <4>1, <5>2
        <5> QED BY <5>1, <5>2
      <4> QED BY <3>1, <4>1, <4>2 DEF PressesEnter, CGo
    <3>2. CASE TypesBlanks(b)
      <4>1. cmd' = [cmd EXCEPT ![b] = cmd[b]] /\ cmd[b] \in NoOrFunction
        BY <3>2 DEF TypesBlanks, loopVars
      <4> QED BY <3>2, <4>1 DEF TypesBlanks, CGo, loopVars
    <3> QED BY <1>2, <3>1, <3>2
  <2>2. ExchangeTypeOK'
    BY <2>1 DEF nsVars, Position, Returned
  <2> QED BY <2>1, <2>2, MessagesAlone DEF Own
<1>3. CASE NextRound(b)
  <2>1. /\ cpc[b] \in {"unknown", "failed", "ok", "ran"} /\ cpc' = [cpc EXCEPT ![b] = "poll"]
        /\ round' = [round EXCEPT ![b] = @ + 1] /\ round[b] < MaxRounds[b]
        /\ UNCHANGED <<nsVars, cmd>>
    BY <1>3 DEF NextRound, MaxRounds
  <2>2. ExchangeTypeOK'
    <3>0. round[b] \in Nat /\ round[b] \in 1 .. MaxRounds[b] /\ MaxRounds[b] \in Nat
      BY RoundsOf
    <3>1. round[b] + 1 \in 1 .. MaxRounds[b] /\ round[b] + 1 \in Nat
      BY <2>1, <3>0
    <3>2. round' \in [Client -> Nat] /\ \A c \in Client : round'[c] \in 1 .. MaxRounds[c]
      BY <2>1, <3>1
    <3> QED BY <2>1, <3>2 DEF nsVars, Position
  <2> QED BY <2>1, <2>2, MessagesAlone DEF Own
<1>4. CASE EndsText(b)
  <2>1. ExchangeTypeOK'
    BY <1>4 DEF EndsText, CGo, loopVars, nsVars, Position, Returned
  <2> QED BY <1>4, <2>1, MessagesAlone DEF EndsText, CGo, loopVars, Own
<1>5. CASE Interrupts(b)
  BY <1>5, InterruptsStep
<1> QED BY <1>1, <1>2, <1>3, <1>4, <1>5 DEF User

LEMMA HandlerStep ==
  ASSUME ExchangeInv, NEW h \in Conn, Handler(h)
  PROVE  ExchangeInv'
<1>1. UNCHANGED <<loopVars, cpc, nsVars>>
  BY DEF Handler, SendsStop, Searches, LocksFile, OpenFails, SendsError, SendsEnd, Responds
<1> QED BY <1>1, ExchangeAlone DEF loopVars

\* The messages between each client and the naming server agree with the client's command.
THEOREM ExchangeInvariant == Spec => []ExchangeInv
<1>1. Init => ExchangeInv
  BY InitExchange
<1>2. ExchangeInv /\ [Next]_vars => ExchangeInv'
  <2> SUFFICES ASSUME ExchangeInv, [Next]_vars PROVE ExchangeInv'
    OBVIOUS
  <2>1. ASSUME NEW c \in Client, Command(c) PROVE ExchangeInv'
    BY <2>1, CommandStep
  <2>2. ASSUME NEW c \in Client, User(c) PROVE ExchangeInv'
    BY <2>2, UserStep
  <2>3. ASSUME NEW c \in Client, NSAnswers(c) PROVE ExchangeInv'
    BY <2>3, NSAnswersStep
  <2>4. ASSUME NEW h \in Conn, Handler(h) PROVE ExchangeInv'
    BY <2>4, HandlerStep
  <2>5. ASSUME NEW c \in Client, NSEnds(c) PROVE ExchangeInv'
    BY <2>5, NSEndsStep
  <2>6. CASE ServerEnds \/ UNCHANGED vars
    BY <2>6, ExchangeAlone DEF ServerEnds, vars, loopVars
  <2> QED BY <2>1, <2>2, <2>3, <2>4, <2>5, <2>6 DEF Next
<1> QED BY <1>1, <1>2, PTL DEF Spec

(* What a command makes of the naming server's answer is about that        *)
(* command, unless its client was interrupted while it waited for one, or  *)
(* the naming server has once sent its answer to another client, or        *)
(* another's to it: for any number of clients at a time.                   *)
THEOREM AnswerOfOwnCommand == Spec => []AnswerIsOwn
<1>1. ExchangeInv => AnswerIsOwn
  BY DEF ExchangeInv, UsesOwn, Own, AnswerIsOwn
<1> QED BY <1>1, ExchangeInvariant, PTL

-----------------------------------------------------------------------------
(* Natural numbers                                                         *)

LEMMA MinimalOf ==
  ASSUME NEW R, IsWellFoundedOn(R, Nat), NEW T, T \subseteq Nat, T # {}
  PROVE  \E m \in T : \A k \in T : <<k, m>> \notin R
  BY WFMin

LEMMA SomeOrder == \E R : IsWellFoundedOn(R, Nat) /\ \A k, m \in Nat : k < m => <<k, m>> \in R
<1>1. IsWellFoundedOn(OpToRel(<, Nat), Nat)
  BY NatLessThanWellFounded, Zenon
<1>2. \A k, m \in Nat : k < m => <<k, m>> \in OpToRel(<, Nat)
  BY DEF OpToRel
<1> QED BY <1>1, <1>2, Zenon

\* Every set of natural numbers that is not empty has a least one.
LEMMA LeastNumber ==
  ASSUME NEW T, T \subseteq Nat, T # {}
  PROVE  \E m \in T : \A k \in T : m <= k
<1>1. PICK R : IsWellFoundedOn(R, Nat) /\ \A k, m \in Nat : k < m => <<k, m>> \in R
  BY SomeOrder
<1>2. PICK m \in T : \A k \in T : <<k, m>> \notin R
  BY <1>1, MinimalOf
<1>3. \A k \in T : ~(k < m)
  BY <1>1, <1>2
<1> QED BY <1>3

\* A set of natural numbers that holds 0 and every successor of a member holds all.
LEMMA Induction ==
  ASSUME NEW S, 0 \in S, \A n \in Nat : n \in S => n + 1 \in S
  PROVE  Nat \subseteq S
<1> DEFINE T == Nat \ S
<1> SUFFICES ASSUME T # {} PROVE FALSE
  OBVIOUS
<1>1. PICK m \in T : \A k \in T : m <= k
  BY LeastNumber
<1> QED BY <1>1

(* What a function defined step by step computes: there is one that starts *)
(* at x0 and takes N steps of G.                                           *)
Walks(f, X, x0, N, G) ==
  /\ f \in [0 .. N -> X] /\ f[0] = x0
  /\ \A i \in 1 .. N : f[i - 1] \in X /\ f[i] = G[<<i, f[i - 1]>>]

LEMMA StepsExist ==
  ASSUME NEW X, NEW x0 \in X, NEW N \in Nat, NEW G \in [(1 .. N) \X X -> X]
  PROVE  \E f : Walks(f, X, x0, N, G)
<1> DEFINE Steps(f, n) == f[0] = x0 /\ \A i \in 1 .. n : f[i] = G[<<i, f[i - 1]>>]
           Taken(n) == \E f \in [0 .. n -> X] : Steps(f, n)
           S == {n \in Nat : n <= N => Taken(n)}
<1>1. Taken(0)
  <2>1. [i \in 0 .. 0 |-> x0] \in [0 .. 0 -> X] /\ Steps([i \in 0 .. 0 |-> x0], 0)
    OBVIOUS
  <2> QED BY <2>1
<1>2. ASSUME NEW n \in Nat, n + 1 <= N, Taken(n) PROVE Taken(n + 1)
  <2>1. PICK f \in [0 .. n -> X] : Steps(f, n)
    BY <1>2
  <2>2. n + 1 \in 1 .. N /\ f[n] \in X
    BY <1>2
  <2>3. G[<<n + 1, f[n]>>] \in X
    BY <2>2
  <2> DEFINE g == [i \in 0 .. n + 1 |-> IF i = n + 1 THEN G[<<n + 1, f[n]>>] ELSE f[i]]
  <2>4. g \in [0 .. n + 1 -> X]
    BY <2>3
  <2>5. g[0] = x0 /\ g[n + 1] = G[<<n + 1, g[n]>>]
    <3>1. 0 \in 0 .. n + 1 /\ n \in 0 .. n + 1 /\ n + 1 \in 0 .. n + 1 /\ 0 # n + 1 /\ n # n + 1
      OBVIOUS
    <3>2. g[0] = f[0] /\ g[n] = f[n] /\ g[n + 1] = G[<<n + 1, f[n]>>]
      BY <3>1
    <3> QED BY <2>1, <3>2
  <2>6. ASSUME NEW i \in 1 .. n PROVE g[i] = G[<<i, g[i - 1]>>]
    <3>1. g[i] = f[i] /\ g[i - 1] = f[i - 1]
      OBVIOUS
    <3> QED BY <2>1, <3>1
  <2> HIDE DEF g
  <2>7. \A i \in 1 .. n + 1 : i \in 1 .. n \/ (i = n + 1 /\ i - 1 = n)
    OBVIOUS
  <2>8. \A i \in 1 .. n + 1 : g[i] = G[<<i, g[i - 1]>>]
    BY <2>5, <2>6, <2>7
  <2> QED BY <2>4, <2>5, <2>8
<1>3. Taken(N)
  <2> HIDE DEF Taken
  <2>1. 0 \in S
    BY <1>1
  <2>2. ASSUME NEW n \in Nat, n \in S PROVE n + 1 \in S
    BY <1>2, <2>2
  <2> HIDE DEF S
  <2>3. Nat \subseteq S
    BY <2>1, <2>2, Induction
  <2> QED BY <2>3 DEF S
<1>4. PICK f \in [0 .. N -> X] : f[0] = x0 /\ \A i \in 1 .. N : f[i] = G[<<i, f[i - 1]>>]
  BY <1>3
<1>5. \A i \in 1 .. N : f[i - 1] \in X
  OBVIOUS
<1> QED BY <1>4, <1>5 DEF Walks

\* A set of numbers up to n that is not empty has a greatest one, which Max finds.
LEMMA MaxOf ==
  ASSUME NEW n \in Nat, NEW T, T \subseteq 0 .. n, T # {}
  PROVE  Max(T) \in T /\ \A k \in T : k <= Max(T)
<1> DEFINE Below == {n - k : k \in T}
<1>1. Below \subseteq Nat /\ Below # {}
  <2>1. \A k \in T : n - k \in Nat
    OBVIOUS
  <2> QED BY <2>1
<1>2. PICK m \in Below : \A k \in Below : m <= k
  BY <1>1, LeastNumber
<1>3. PICK k \in T : m = n - k
  BY <1>2
<1>4. \A j \in T : k >= j
  BY <1>2, <1>3
<1>5. \E x \in T : \A y \in T : x >= y
  BY <1>3, <1>4
<1>6. Max(T) \in T /\ \A y \in T : Max(T) >= y
  BY <1>5 DEF Max
<1> QED BY <1>6

LEMMA MinOf ==
  ASSUME NEW a \in Int, NEW b \in Int
  PROVE  Min({a, b}) = IF a <= b THEN a ELSE b
<1>1. \E x \in {a, b} : \A y \in {a, b} : x =< y
  OBVIOUS
<1> QED BY <1>1 DEF Min

-----------------------------------------------------------------------------
Send == {"error", "stop", "response"}

LEMMA SizeType == \A x \in Send : Size(x) \in Nat \ {0}
  BY DEF Send, Size, MAX_BUFFER_SIZE, SIZE_RESPONSE

\* The number of bytes of the first i sends, as the function in Bytes.
Counts(s, f) ==
  f = [i \in 0 .. Len(s) |-> IF i = 0 THEN 0 ELSE f[i - 1] + Size(s[i])]

CountsUpTo(s, f, n) == f[0] = 0 /\ \A i \in 1 .. n : f[i] = f[i - 1] + Size(s[i])

LEMMA CountsExist ==
  ASSUME NEW s \in Seq(Send)
  PROVE  \E f \in [0 .. Len(s) -> Nat] : Counts(s, f)
<1> PICK n \in Nat : n = Len(s)
  BY LenProperties
<1>1. \A i \in 1 .. n : Size(s[i]) \in Nat
  BY ElementOfSeq, SizeType
<1>2. [p \in (1 .. n) \X Nat |-> p[2] + Size(s[p[1]])] \in [(1 .. n) \X Nat -> Nat]
  BY <1>1
<1> PICK G \in [(1 .. n) \X Nat -> Nat] : G = [p \in (1 .. n) \X Nat |-> p[2] + Size(s[p[1]])]
  BY <1>2
<1>3. PICK f : Walks(f, Nat, 0, n, G)
  BY StepsExist
<1>4. ASSUME NEW i \in 1 .. n PROVE f[i] = f[i - 1] + Size(s[i])
  <2>1. f[i - 1] \in Nat /\ f[i] = G[<<i, f[i - 1]>>]
    BY <1>3 DEF Walks
  <2> QED BY <2>1
<1>5. f \in [0 .. n -> Nat] /\ f[0] = 0
  BY <1>3 DEF Walks
<1> QED BY <1>4, <1>5 DEF Counts

LEMMA CountsAgree ==
  ASSUME NEW s, NEW f, NEW g, NEW n \in Nat, CountsUpTo(s, f, n), CountsUpTo(s, g, n)
  PROVE  \A j \in 0 .. n : f[j] = g[j]
<1> DEFINE S == {j \in Nat : j <= n => f[j] = g[j]}
<1>1. 0 \in S
  BY DEF CountsUpTo
<1>2. ASSUME NEW j \in Nat, j \in S PROVE j + 1 \in S
  <2> SUFFICES ASSUME j + 1 <= n PROVE f[j + 1] = g[j + 1]
    OBVIOUS
  <2>1. j + 1 \in 1 .. n /\ (j + 1) - 1 = j /\ f[j] = g[j]
    BY <1>2
  <2> QED BY <2>1 DEF CountsUpTo
<1> HIDE DEF S
<1>3. Nat \subseteq S
  BY <1>1, <1>2, Induction
<1> QED BY <1>3 DEF S

LEMMA BytesCount ==
  ASSUME NEW s \in Seq(Send)
  PROVE  \E f \in [0 .. Len(s) -> Nat] : Bytes(s) = f[Len(s)] /\ CountsUpTo(s, f, Len(s))
<1> DEFINE b == CHOOSE f : Counts(s, f)
<1>1. Counts(s, b)
  BY CountsExist
<1>2. Bytes(s) = b[Len(s)]
  BY DEF Bytes, Counts
<1> HIDE DEF b
<1>3. PICK f \in [0 .. Len(s) -> Nat] : Counts(s, f)
  BY CountsExist
<1>4. CountsUpTo(s, b, Len(s)) /\ CountsUpTo(s, f, Len(s))
  <2> SUFFICES ASSUME NEW h, Counts(s, h) PROVE CountsUpTo(s, h, Len(s))
    BY <1>1, <1>3
  <2>1. \A i \in 0 .. Len(s) : h[i] = IF i = 0 THEN 0 ELSE h[i - 1] + Size(s[i])
    BY DEF Counts
  <2> QED BY <2>1, LenProperties DEF CountsUpTo
<1>5. \A j \in 0 .. Len(s) : b[j] = f[j]
  BY <1>4, CountsAgree, LenProperties
<1> QED BY <1>2, <1>3, <1>4, <1>5, LenProperties

(* One function counts the bytes of every prefix of s, and each prefix has *)
(* more than those before it.                                              *)
LEMMA PrefixBytes ==
  ASSUME NEW s \in Seq(Send)
  PROVE  \E f \in [0 .. Len(s) -> Nat] :
           /\ CountsUpTo(s, f, Len(s)) /\ Bytes(s) = f[Len(s)]
           /\ \A j \in 0 .. Len(s) : Bytes(SubSeq(s, 1, j)) = f[j]
           /\ \A i, j \in 0 .. Len(s) : i < j => f[i] < f[j]
<1>1. PICK f \in [0 .. Len(s) -> Nat] : Bytes(s) = f[Len(s)] /\ CountsUpTo(s, f, Len(s))
  BY BytesCount
<1>2. ASSUME NEW j \in 0 .. Len(s) PROVE Bytes(SubSeq(s, 1, j)) = f[j]
  <2> DEFINE p == SubSeq(s, 1, j)
  <2>1. p \in Seq(Send) /\ Len(p) = j /\ \A i \in 1 .. j : p[i] = s[i]
    BY SubSeqProperties, LenProperties
  <2> HIDE DEF p
  <2>2. PICK g \in [0 .. j -> Nat] : Bytes(p) = g[j] /\ CountsUpTo(p, g, j)
    BY <2>1, BytesCount
  <2>3. CountsUpTo(s, g, j) /\ CountsUpTo(s, f, j)
    BY <1>1, <2>1, <2>2, LenProperties DEF CountsUpTo
  <2>4. g[j] = f[j]
    BY <2>3, CountsAgree, LenProperties
  <2> QED BY <2>2, <2>4 DEF p
<1>3. ASSUME NEW i \in 0 .. Len(s), NEW j \in 0 .. Len(s), i < j PROVE f[i] < f[j]
  <2>1. Len(s) \in Nat /\ \A k \in 1 .. Len(s) : Size(s[k]) \in Nat \ {0}
    BY ElementOfSeq, SizeType, LenProperties
  <2> DEFINE S == {n \in Nat : i + n + 1 <= Len(s) => f[i] < f[i + n + 1]}
  <2>2. 0 \in S
    <3> SUFFICES ASSUME i + 1 <= Len(s) PROVE f[i] < f[i + 1]
      OBVIOUS
    <3>1. i + 1 \in 1 .. Len(s) /\ (i + 1) - 1 = i
      BY <2>1
    <3>2. f[i + 1] = f[i] + Size(s[i + 1]) /\ f[i] \in Nat
      BY <1>1, <3>1 DEF CountsUpTo
    <3> QED BY <2>1, <3>1, <3>2
  <2>3. ASSUME NEW n \in Nat, n \in S PROVE n + 1 \in S
    <3> SUFFICES ASSUME i + (n + 1) + 1 <= Len(s) PROVE f[i] < f[i + (n + 1) + 1]
      OBVIOUS
    <3> DEFINE m == i + n + 1
    <3>1. m + 1 \in 1 .. Len(s) /\ (m + 1) - 1 = m /\ i + (n + 1) + 1 = m + 1 /\ m \in 0 .. Len(s)
      BY <2>1
    <3>2. f[i] < f[m]
      BY <2>1, <2>3
    <3> HIDE DEF m
    <3>3. f[m + 1] = f[m] + Size(s[m + 1]) /\ f[m] \in Nat /\ f[i] \in Nat /\ Size(s[m + 1]) \in Nat
      BY <1>1, <2>1, <3>1 DEF CountsUpTo
    <3>4. \A a, b, c \in Nat : a < b /\ c >= 0 => a < b + c
      OBVIOUS
    <3>5. f[i] < f[m + 1]
      BY <3>2, <3>3, <3>4
    <3> QED BY <3>1, <3>5
  <2> HIDE DEF S
  <2>4. Nat \subseteq S
    BY <2>2, <2>3, Induction
  <2>5. j - i - 1 \in Nat /\ i + (j - i - 1) + 1 = j
    BY <1>3, <2>1
  <2>6. (j - i - 1) \in S /\ j <= Len(s)
    BY <2>1, <2>4, <2>5
  <2>7. ASSUME NEW n \in Nat, n \in S, i + n + 1 = j PROVE f[i] < f[j]
    BY <2>6, <2>7 DEF S
  <2> QED BY <2>5, <2>6, <2>7
<1> QED BY <1>1, <1>2, <1>3

(* What Whole finds, with the function that counts the bytes of prefixes. *)
PrefixCounts(s, f) ==
  /\ f \in [0 .. Len(s) -> Nat] /\ CountsUpTo(s, f, Len(s)) /\ Bytes(s) = f[Len(s)]
  /\ \A j \in 0 .. Len(s) : Bytes(SubSeq(s, 1, j)) = f[j]
  /\ \A i, j \in 0 .. Len(s) : i < j => f[i] < f[j]

LEMMA WholeOf ==
  ASSUME NEW s \in Seq(Send), NEW f, PrefixCounts(s, f), NEW e \in Nat
  PROVE  /\ Whole(s, e) \in 0 .. Len(s) /\ f[Whole(s, e)] <= e
         /\ Whole(s, e) < Len(s) => e < f[Whole(s, e) + 1]
<1> DEFINE T == {0} \cup {j \in 1 .. Len(s) : Bytes(SubSeq(s, 1, j)) <= e}
<1>1. Len(s) \in Nat /\ f[0] = 0
  BY LenProperties DEF PrefixCounts, CountsUpTo
<1>2. T \subseteq 0 .. Len(s) /\ T # {}
  BY <1>1
<1>3. Max(T) \in T /\ \A k \in T : k <= Max(T)
  BY <1>1, <1>2, MaxOf
<1>4. Whole(s, e) = Max(T)
  BY DEF Whole
<1> DEFINE w == Whole(s, e)
<1>5. w \in T /\ \A k \in T : k <= w
  BY <1>3, <1>4
<1> HIDE DEF w
<1>6. w \in 0 .. Len(s) /\ f[w] <= e
  BY <1>1, <1>5 DEF PrefixCounts
<1>7. ASSUME w < Len(s) PROVE e < f[w + 1]
  <2>1. w + 1 \in 1 .. Len(s) /\ w + 1 \notin T
    BY <1>1, <1>5, <1>6, <1>7
  <2>2. ~(Bytes(SubSeq(s, 1, w + 1)) <= e)
    BY <2>1
  <2>3. Bytes(SubSeq(s, 1, w + 1)) = f[w + 1] /\ f[w + 1] \in Nat
    BY <1>1, <2>1 DEF PrefixCounts
  <2> QED BY <2>2, <2>3
<1> QED BY <1>6, <1>7 DEF w

(* A recv of at most length bytes, when k sends have arrived: it takes     *)
(* what completes the first send, or length bytes.                         *)
LEMMA GotOf ==
  ASSUME NEW h, NEW k \in 1 .. Len(toClient[h]), NEW length \in Nat,
         toClient[h] \in Seq(Send), NEW f, PrefixCounts(toClient[h], f),
         eaten[h] \in Nat, eaten[h] <= f[1]
  PROVE  /\ length <= f[k] - eaten[h] => Got(h, k, length) = length
         /\ Got(h, k, length) \in Nat /\ eaten[h] + Got(h, k, length) <= f[k]
         /\ f[1] <= f[k] /\ f[k] <= f[Len(toClient[h])]
         /\ f[1] = Size(toClient[h][1]) /\ \A j \in 0 .. Len(toClient[h]) : f[j] \in Nat
<1> DEFINE s == toClient[h]
<1>1. Len(s) \in Nat /\ k \in 0 .. Len(s) /\ 1 \in 0 .. Len(s) /\ 1 \in 1 .. Len(s) /\ 1 - 1 = 0
  BY LenProperties
<1>2. Got(h, k, length) = Min({length, f[k] - eaten[h]})
  BY <1>1 DEF Got, PrefixCounts
<1>3. \A j \in 0 .. Len(s) : f[j] \in Nat
  BY <1>1 DEF PrefixCounts
<1>4. f[1] <= f[k] /\ f[k] <= f[Len(s)]
  <2>1. 1 = k \/ 1 < k
    BY <1>1
  <2>2. k = Len(s) \/ k < Len(s)
    BY <1>1
  <2> QED BY <1>1, <1>3, <2>1, <2>2 DEF PrefixCounts
<1>5. f[1] = Size(s[1])
  <2>1. f[0] = 0 /\ f[1] = f[0] + Size(s[1]) /\ s[1] \in Send
    BY <1>1, ElementOfSeq DEF PrefixCounts, CountsUpTo
  <2> QED BY <2>1, SizeType
<1> HIDE DEF s
<1>6. f[k] - eaten[h] \in Nat
  BY <1>1, <1>3, <1>4
<1>7. Min({length, f[k] - eaten[h]}) = IF length <= f[k] - eaten[h] THEN length ELSE f[k] - eaten[h]
  BY <1>6, MinOf
<1> QED BY <1>1, <1>2, <1>3, <1>4, <1>5, <1>6, <1>7 DEF s

\* What is left in the stream is less than the first of the sends that it holds.
FirstNotWhole(s, e) ==
  IF s = <<>> THEN e = 0 ELSE e \in 0 .. Size(Head(s)) - 1

LEMMA TakesPart ==
  ASSUME toClient \in [Conn -> Seq(Send)], eaten \in [Conn -> Nat],
         \A g \in Conn : FirstNotWhole(toClient[g], eaten[g]),
         NEW h \in Conn, NEW k \in 1 .. Len(toClient[h]), NEW length \in Nat,
         Takes(h, Got(h, k, length))
  PROVE  /\ toClient' \in [Conn -> Seq(Send)] /\ eaten' \in [Conn -> Nat]
         /\ \A g \in Conn : FirstNotWhole(toClient'[g], eaten'[g])
         /\ \A g \in Conn \ {h} : toClient'[g] = toClient[g] /\ eaten'[g] = eaten[g]
         /\ joined' \subseteq joined \cup {h} /\ joined \subseteq joined'
         /\ eaten'[h] # 0 => h \in joined'
<1> DEFINE s == toClient[h]
           n == Got(h, k, length)
           w == Whole(s, eaten[h] + n)
<1>1. s \in Seq(Send) /\ eaten[h] \in Nat /\ Len(s) \in Nat /\ Len(s) >= 1
  BY LenProperties
<1>2. PICK f : PrefixCounts(s, f)
  <2> HIDE DEF s
  <2> QED BY <1>1, PrefixBytes DEF PrefixCounts
<1>3. eaten[h] < f[1]
  <2>1. FirstNotWhole(s, eaten[h]) /\ s # <<>> /\ Head(s) = s[1] /\ s[1] \in Send
    BY <1>1, EmptySeq, HeadTailProperties, ElementOfSeq
  <2>2. 1 \in 1 .. Len(s) /\ 1 - 1 = 0 /\ Size(s[1]) \in Nat
    BY <1>1, <2>1, SizeType
  <2>3. f[0] = 0 /\ f[1] = f[0] + Size(s[1])
    BY <1>2, <2>2 DEF PrefixCounts, CountsUpTo
  <2> HIDE DEF s
  <2> QED BY <2>1, <2>2, <2>3 DEF FirstNotWhole
<1>4. /\ n \in Nat /\ eaten[h] + n <= f[k] /\ f[k] <= f[Len(s)]
      /\ f[1] \in Nat /\ \A j \in 0 .. Len(s) : f[j] \in Nat
  <2>1. 1 \in 0 .. Len(s)
    BY <1>1
  <2>2. f[1] \in Nat
    BY <1>2, <2>1 DEF PrefixCounts
  <2>3. eaten[h] <= f[1]
    BY <1>1, <1>3, <2>2
  <2> QED BY <1>1, <1>2, <2>2, <2>3, GotOf
<1>5. /\ toClient' = [toClient EXCEPT ![h] = SubSeq(@, w + 1, Len(@))]
      /\ eaten' = [eaten EXCEPT ![h] = @ + n - Bytes(SubSeq(s, 1, w))]
      /\ joined' = IF eaten'[h] = 0 THEN joined ELSE joined \cup {h}
  BY DEF Takes
<1> HIDE DEF n, s
<1>6. eaten[h] + n \in Nat
  BY <1>1, <1>4
<1>7. w \in 0 .. Len(s) /\ f[w] <= eaten[h] + n /\ (w < Len(s) => eaten[h] + n < f[w + 1])
  BY <1>1, <1>2, <1>6, WholeOf
<1> HIDE DEF w
<1>8. toClient'[h] = SubSeq(s, w + 1, Len(s)) /\ toClient'[h] \in Seq(Send)
  <2>1. SubSeq(s, w + 1, Len(s)) \in Seq(Send)
    BY <1>1, <1>7, SubSeqProperties
  <2> QED BY <1>5, <2>1 DEF s
<1>9. eaten'[h] = eaten[h] + n - f[w]
  BY <1>2, <1>5, <1>7 DEF PrefixCounts
<1>10. eaten'[h] \in Nat
  BY <1>1, <1>4, <1>7, <1>9
<1>11. FirstNotWhole(toClient'[h], eaten'[h])
  <2>1. CASE w = Len(s)
    <3>1. toClient'[h] = <<>>
      <4>1. Len(toClient'[h]) = 0
        BY <1>1, <1>8, <2>1, SubSeqProperties
      <4> QED BY <1>8, <4>1, EmptySeq
    <3>2. eaten'[h] = 0
      <4>1. f[Len(s)] \in Nat /\ eaten[h] + n <= f[Len(s)] /\ f[Len(s)] <= eaten[h] + n
        <5>1. Len(s) \in 0 .. Len(s) /\ k \in 0 .. Len(s)
          BY <1>1 DEF s
        <5>2. f[Len(s)] \in Nat /\ f[k] \in Nat
          BY <1>4, <5>1
        <5> QED BY <1>4, <1>6, <1>7, <2>1, <5>2
      <4> QED BY <1>1, <1>4, <1>6, <1>9, <2>1, <4>1
    <3> QED BY <3>1, <3>2 DEF FirstNotWhole
  <2>2. CASE w < Len(s)
    <3>1. Len(toClient'[h]) >= 1 /\ toClient'[h][1] = s[w + 1]
      BY <1>1, <1>7, <1>8, <2>2, SubSeqProperties
    <3>2. Head(toClient'[h]) = s[w + 1] /\ toClient'[h] # <<>>
      <4> PICK q \in Seq(Send) : q = toClient'[h]
        BY <1>8
      <4>1. Len(q) >= 1 /\ q[1] = s[w + 1]
        BY <3>1
      <4>2. q # <<>>
        BY <4>1
      <4>3. Head(q) = q[1]
        BY <4>2, HeadTailProperties
      <4> QED BY <4>1, <4>2, <4>3
    <3>3. w + 1 \in 1 .. Len(s) /\ (w + 1) - 1 = w /\ s[w + 1] \in Send
      BY <1>1, <1>7, <2>2, ElementOfSeq
    <3>4. f[w + 1] = f[w] + Size(s[w + 1]) /\ Size(s[w + 1]) \in Nat
      BY <1>2, <3>3, SizeType DEF PrefixCounts, CountsUpTo
    <3>5. eaten'[h] < Size(s[w + 1])
      BY <1>1, <1>4, <1>7, <1>9, <2>2, <3>4
    <3> QED BY <1>10, <3>2, <3>4, <3>5 DEF FirstNotWhole
  <2> QED BY <1>1, <1>7, <2>1, <2>2
<1>12. \A g \in Conn \ {h} : toClient'[g] = toClient[g] /\ eaten'[g] = eaten[g]
  BY <1>5
<1>13. toClient' \in [Conn -> Seq(Send)] /\ eaten' \in [Conn -> Nat]
  BY <1>5, <1>8, <1>10
<1> QED BY <1>5, <1>11, <1>12, <1>13

\* A buffer that holds the first send in full and not the second.
LEMMA TakesOne ==
  ASSUME NEW h \in Conn, toClient \in [Conn -> Seq(Send)], eaten \in [Conn -> Nat], eaten[h] = 0,
         NEW f, PrefixCounts(toClient[h], f), NEW n \in Nat, Takes(h, n),
         Len(toClient[h]) >= 1, f[1] <= n, Len(toClient[h]) >= 2 => n < f[2]
  PROVE  /\ toClient'[h] = Tail(toClient[h]) /\ eaten'[h] = n - f[1]
         /\ joined' = IF eaten'[h] = 0 THEN joined ELSE joined \cup {h}
<1> PICK s \in Seq(Send) : s = toClient[h]
  OBVIOUS
<1>1. Len(s) \in Nat /\ 1 \in 0 .. Len(s) /\ s # <<>> /\ PrefixCounts(s, f)
  BY LenProperties
<1>2. \A j \in 0 .. Len(s) : f[j] \in Nat
  BY <1>1 DEF PrefixCounts
<1> DEFINE w == Whole(s, n)
<1>3. w \in 0 .. Len(s) /\ f[w] <= n /\ (w < Len(s) => n < f[w + 1])
  BY <1>1, WholeOf
<1>4. eaten[h] + n = n /\ Whole(toClient[h], eaten[h] + n) = w
  OBVIOUS
<1>5. /\ toClient'[h] = SubSeq(s, w + 1, Len(s))
      /\ eaten'[h] = n - Bytes(SubSeq(s, 1, w))
      /\ joined' = IF eaten'[h] = 0 THEN joined ELSE joined \cup {h}
  <2>1. /\ toClient' = [toClient EXCEPT ![h] = SubSeq(@, w + 1, Len(@))]
        /\ eaten' = [eaten EXCEPT ![h] = @ + n - Bytes(SubSeq(toClient[h], 1, w))]
        /\ joined' = IF eaten'[h] = 0 THEN joined ELSE joined \cup {h}
    BY <1>4, Zenon DEF Takes
  <2> HIDE DEF w
  <2>2. toClient'[h] = SubSeq(s, w + 1, Len(s))
    BY <2>1
  <2>3. eaten'[h] = eaten[h] + n - Bytes(SubSeq(s, 1, w))
    BY <2>1
  <2>4. eaten'[h] = n - Bytes(SubSeq(s, 1, w))
    <3>1. Bytes(SubSeq(s, 1, w)) \in Nat
      BY <1>1, <1>2, <1>3 DEF PrefixCounts
    <3> QED BY <2>3, <3>1
  <2>5. joined' = IF eaten'[h] = 0 THEN joined ELSE joined \cup {h}
    BY <2>1, Zenon
  <2> QED BY <2>2, <2>4, <2>5, Zenon
<1> HIDE DEF w
<1>6. w = 1
  <2>1. ASSUME w = 0 PROVE FALSE
    BY <1>1, <1>2, <1>3, <2>1
  <2>2. ASSUME w > 1 PROVE FALSE
    <3>1. 2 <= Len(s) /\ 2 \in 0 .. Len(s) /\ (w = 2 \/ 2 < w)
      BY <1>1, <1>3, <2>2
    <3>2. f[2] <= f[w] /\ f[w] \in Nat /\ f[2] \in Nat
      BY <1>1, <1>2, <1>3, <3>1 DEF PrefixCounts
    <3> QED BY <1>3, <3>1, <3>2
  <2> QED BY <1>1, <1>3, <2>1, <2>2
<1>7. Bytes(SubSeq(s, 1, 1)) = f[1]
  BY <1>1 DEF PrefixCounts
<1>8. SubSeq(s, 2, Len(s)) = Tail(s)
  BY <1>1, HeadTailProperties
<1> QED BY <1>5, <1>6, <1>7, <1>8

\* The first recv of READ and WRITE takes the stop sequence and nothing else.
LEMMA TakesStop ==
  ASSUME NEW h \in Conn, toClient \in [Conn -> Seq(Send)], eaten \in [Conn -> Nat], eaten[h] = 0,
         NEW k \in 1 .. Len(toClient[h]), toClient[h][1] = "stop",
         Takes(h, Got(h, k, MAX_BUFFER_SIZE))
  PROVE  toClient'[h] = Tail(toClient[h]) /\ eaten'[h] = 0 /\ UNCHANGED joined
<1>1. PICK f : PrefixCounts(toClient[h], f)
  BY PrefixBytes DEF PrefixCounts
<1>2. Len(toClient[h]) \in Nat /\ 1 \in 1 .. Len(toClient[h]) /\ 2 - 1 = 1 /\ 1 - 1 = 0
  BY LenProperties
<1> DEFINE n == MAX_BUFFER_SIZE
<1>3. n \in Nat /\ Size("stop") = n
  BY DEF Size, MAX_BUFFER_SIZE
<1> HIDE DEF n
<1>4. f[0] = 0 /\ f[1] \in Nat
  BY <1>1, <1>2 DEF PrefixCounts, CountsUpTo
<1>5. /\ n <= f[k] - eaten[h] => Got(h, k, n) = n
      /\ f[1] <= f[k] /\ f[1] = Size(toClient[h][1]) /\ f[k] \in Nat
  <2>1. eaten[h] <= f[1] /\ eaten[h] \in Nat
    BY <1>4
  <2>2. k \in 0 .. Len(toClient[h])
    BY <1>2
  <2>3. n <= f[k] - eaten[h] => Got(h, k, n) = n
    BY <1>1, <1>3, <2>1, GotOf
  <2>4. f[1] <= f[k] /\ f[1] = Size(toClient[h][1]) /\ \A j \in 0 .. Len(toClient[h]) : f[j] \in Nat
    BY <1>1, <1>3, <2>1, GotOf
  <2> QED BY <2>2, <2>3, <2>4
<1>6. Got(h, k, n) = n /\ f[1] = n
  BY <1>3, <1>5
<1>7. Len(toClient[h]) >= 2 => n < f[2]
  <2> SUFFICES ASSUME Len(toClient[h]) >= 2 PROVE n < f[2]
    OBVIOUS
  <2>1. 2 \in 1 .. Len(toClient[h]) /\ 1 \in 0 .. Len(toClient[h]) /\ 2 \in 0 .. Len(toClient[h])
    BY <1>2
  <2> QED BY <1>1, <1>6, <2>1 DEF PrefixCounts
<1>8. Takes(h, n)
  BY <1>6 DEF n
<1>9. /\ toClient'[h] = Tail(toClient[h]) /\ eaten'[h] = n - f[1]
      /\ joined' = IF eaten'[h] = 0 THEN joined ELSE joined \cup {h}
  BY <1>1, <1>2, <1>3, <1>6, <1>7, <1>8, TakesOne
<1> QED BY <1>3, <1>6, <1>9

(* What WRITE takes for the response is the error text and the beginning   *)
(* of what comes after it, if it is long enough.                           *)
LEMMA TakesError ==
  ASSUME NEW h \in Conn, toClient \in [Conn -> Seq(Send)], eaten \in [Conn -> Nat], eaten[h] = 0,
         NEW k \in 1 .. Len(toClient[h]), toClient[h][1] = "error",
         Len(toClient[h]) >= 2 => toClient[h][2] = "stop",
         Got(h, k, SIZE_RESPONSE) = SIZE_RESPONSE, Takes(h, SIZE_RESPONSE)
  PROVE  h \in joined'
<1>1. PICK f : PrefixCounts(toClient[h], f)
  BY PrefixBytes DEF PrefixCounts
<1>2. Len(toClient[h]) \in Nat /\ 1 \in 1 .. Len(toClient[h]) /\ 2 - 1 = 1 /\ 1 - 1 = 0
  BY LenProperties
<1> DEFINE n == SIZE_RESPONSE
<1>3. n \in Nat /\ Size("error") = 32 /\ Size("stop") = 1024 /\ n = 1048
  BY DEF Size, MAX_BUFFER_SIZE, SIZE_RESPONSE
<1> HIDE DEF n
<1>4. f[0] = 0 /\ f[1] \in Nat
  BY <1>1, <1>2 DEF PrefixCounts, CountsUpTo
<1>5. Got(h, k, n) = n /\ Takes(h, n)
  BY DEF n
<1>6. f[1] = 32
  <2>1. eaten[h] <= f[1] /\ eaten[h] \in Nat
    BY <1>4
  <2>2. f[1] = Size(toClient[h][1])
    BY <1>1, <1>3, <2>1, GotOf
  <2> QED BY <1>3, <2>2
<1>7. Len(toClient[h]) >= 2 => f[2] = 1056
  <2> SUFFICES ASSUME Len(toClient[h]) >= 2 PROVE f[2] = 1056
    OBVIOUS
  <2>1. 2 \in 1 .. Len(toClient[h])
    BY <1>2
  <2>2. f[2] = f[1] + Size(toClient[h][2])
    BY <1>1, <1>2, <2>1 DEF PrefixCounts, CountsUpTo
  <2> QED BY <1>3, <1>6, <2>2
<1>8. /\ eaten'[h] = n - f[1]
      /\ joined' = IF eaten'[h] = 0 THEN joined ELSE joined \cup {h}
  <2>1. f[1] <= n /\ (Len(toClient[h]) >= 2 => n < f[2]) /\ Len(toClient[h]) >= 1
    BY <1>2, <1>3, <1>6, <1>7
  <2> QED BY <1>1, <1>3, <1>5, <2>1, TakesOne
<1> QED BY <1>3, <1>6, <1>8

-----------------------------------------------------------------------------
(* The table of commands: what it holds is a function or nothing.          *)

LEMMA StepsStay ==
  ASSUME NEW X, NEW N \in Nat, NEW f, f[0] \in X, \A i \in 1 .. N : f[i - 1] \in X => f[i] \in X
  PROVE  \A i \in 0 .. N : f[i] \in X
<1> DEFINE S == {n \in Nat : n <= N => f[n] \in X}
<1>1. 0 \in S
  OBVIOUS
<1>2. ASSUME NEW n \in Nat, n \in S PROVE n + 1 \in S
  <2> SUFFICES ASSUME n + 1 <= N PROVE f[n + 1] \in X
    OBVIOUS
  <2>1. n + 1 \in 1 .. N /\ (n + 1) - 1 = n /\ f[n] \in X
    BY <1>2
  <2> QED BY <2>1
<1> HIDE DEF S
<1>3. Nat \subseteq S
  BY <1>1, <1>2, Induction
<1> QED BY <1>3 DEF S

\* The loop of hash: h after each character.
HashLoop(key, capacity, h) ==
  /\ h[0] = 0 /\ hash(key, capacity) = h[Len(key)]
  /\ \A i \in 1 .. Len(key) : h[i] = (h[i - 1] + key[i] + h[i - 1] * PRIME) % capacity
  /\ \A i \in 0 .. Len(key) : h[i] \in 0 .. capacity - 1

Hashes(key, capacity, h) ==
  h = [i \in 0 .. Len(key) |->
         IF i = 0 THEN 0 ELSE (h[i - 1] + key[i] + h[i - 1] * PRIME) % capacity]

LEMMA Remainder == \A a \in Nat, n \in Nat \ {0} : a % n \in 0 .. n - 1
  OBVIOUS

LEMMA HashLoops ==
  ASSUME NEW key \in Seq(Nat), NEW capacity \in Nat \ {0}
  PROVE  \E h : HashLoop(key, capacity, h)
<1> PICK n \in Nat : n = Len(key)
  BY LenProperties
<1> PICK X : X = 0 .. capacity - 1
  OBVIOUS
<1>1. \A x \in X, i \in 1 .. n : (x + key[i] + x * PRIME) % capacity \in X
  <2> SUFFICES ASSUME NEW x \in X, NEW i \in 1 .. n PROVE (x + key[i] + x * PRIME) % capacity \in X
    OBVIOUS
  <2>1. key[i] \in Nat /\ x \in Nat /\ x * 37 \in Nat
    BY ElementOfSeq
  <2>2. x + key[i] + x * PRIME \in Nat
    BY <2>1 DEF PRIME
  <2> QED BY <2>2, Remainder
<1>2. [p \in (1 .. n) \X X |-> (p[2] + key[p[1]] + p[2] * PRIME) % capacity] \in [(1 .. n) \X X -> X]
  BY <1>1
<1> PICK G \in [(1 .. n) \X X -> X] :
      G = [p \in (1 .. n) \X X |-> (p[2] + key[p[1]] + p[2] * PRIME) % capacity]
  BY <1>2
<1>3. 0 \in X
  OBVIOUS
<1>4. PICK f : Walks(f, X, 0, n, G)
  BY <1>3, StepsExist
<1>5. Hashes(key, capacity, f)
  <2>1. ASSUME NEW i \in 1 .. n PROVE f[i] = (f[i - 1] + key[i] + f[i - 1] * PRIME) % capacity
    <3>1. f[i - 1] \in X /\ f[i] = G[<<i, f[i - 1]>>]
      BY <1>4 DEF Walks
    <3>2. <<i, f[i - 1]>> \in (1 .. n) \X X
      BY <3>1
    <3> QED BY <3>1, <3>2
  <2>2. f = [i \in 0 .. n |-> f[i]] /\ f[0] = 0
    BY <1>4 DEF Walks
  <2>3. \A i \in 0 .. n :
          f[i] = IF i = 0 THEN 0 ELSE (f[i - 1] + key[i] + f[i - 1] * PRIME) % capacity
    <3>1. \A i \in 0 .. n : i = 0 \/ i \in 1 .. n
      OBVIOUS
    <3> QED BY <2>1, <2>2, <3>1
  <2> QED BY <2>2, <2>3, Zenon DEF Hashes
<1> DEFINE h == CHOOSE g : Hashes(key, capacity, g)
<1>6. Hashes(key, capacity, h)
  BY <1>5
<1>7. hash(key, capacity) = h[Len(key)]
  BY DEF hash, Hashes
<1> HIDE DEF h
<1>8. h[0] = 0 /\ \A i \in 1 .. n : h[i] = (h[i - 1] + key[i] + h[i - 1] * PRIME) % capacity
  <2>1. \A i \in 0 .. n : h[i] = IF i = 0 THEN 0 ELSE (h[i - 1] + key[i] + h[i - 1] * PRIME) % capacity
    BY <1>6 DEF Hashes
  <2> QED BY <2>1
<1>9. \A i \in 0 .. n : h[i] \in X
  <2>1. ASSUME NEW i \in 1 .. n, h[i - 1] \in X PROVE h[i] \in X
    <3>1. (h[i - 1] + key[i] + h[i - 1] * PRIME) % capacity \in X
      BY <1>1, <2>1
    <3> QED BY <1>8, <3>1
  <2>2. h[0] \in X
    BY <1>3, <1>8
  <2> QED BY <2>1, <2>2, StepsStay
<1> QED BY <1>7, <1>8, <1>9 DEF HashLoop

LEMMA HashFinds == \A w \in DOMAIN Characters : hash(Characters[w], FUNCTION_COUNT) \in 0 .. FUNCTION_COUNT - 1
<1> SUFFICES ASSUME NEW w \in DOMAIN Characters
             PROVE  hash(Characters[w], FUNCTION_COUNT) \in 0 .. FUNCTION_COUNT - 1
  OBVIOUS
<1>1. FUNCTION_COUNT \in Nat \ {0}
  BY DEF FUNCTION_COUNT
<1>2. Characters[w] \in Seq(Nat)
  <2>1. Characters.HELP \in Seq(Nat) /\ Characters.CLEAR \in Seq(Nat) /\ Characters.EXIT \in Seq(Nat)
    BY DEF Characters
  <2>2. Characters.READ \in Seq(Nat) /\ Characters.WRITE \in Seq(Nat) /\ Characters.INFO \in Seq(Nat)
    BY DEF Characters
  <2>3. Characters.LIST \in Seq(Nat) /\ Characters.DELETE \in Seq(Nat) /\ Characters.CREATE \in Seq(Nat)
    BY DEF Characters
  <2>4. Characters.COPY \in Seq(Nat) /\ Characters.MOVE \in Seq(Nat) /\ Characters.RENAME \in Seq(Nat)
    BY DEF Characters
  <2>5. Characters.EDIT \in Seq(Nat) /\ Characters.EIGHT \in Seq(Nat) /\ Characters.GREATER \in Seq(Nat)
    BY DEF Characters
  <2>6. w \in {"HELP", "CLEAR", "EXIT", "READ", "WRITE", "INFO", "LIST", "DELETE", "CREATE",
                "COPY", "MOVE", "RENAME", "EDIT", "EIGHT", "GREATER"}
    BY DEF Characters
  <2> QED BY <2>1, <2>2, <2>3, <2>4, <2>5, <2>6
<1> PICK key \in Seq(Nat) : key = Characters[w]
  BY <1>2
<1>3. PICK h : HashLoop(key, FUNCTION_COUNT, h)
  BY <1>1, HashLoops
<1>4. Len(key) \in 0 .. Len(key)
  BY LenProperties
<1> QED BY <1>3, <1>4 DEF HashLoop

\* The table after each of main's calls of insert.
Inserts(t) ==
  t = [i \in 0 .. Len(Inserted) |-> IF i = 0 THEN createHashTable ELSE insert(t[i - 1], Inserted[i])]

Tables == [0 .. FUNCTION_COUNT - 1 -> DOMAIN Characters \cup {NULL}]

Fills(t) ==
  /\ t[0] = createHashTable /\ Table = t[Len(Inserted)]
  /\ \A i \in 1 .. Len(Inserted) : t[i] = insert(t[i - 1], Inserted[i])
  /\ \A i \in 0 .. Len(Inserted) : t[i] \in Tables

LEMMA TableFills == \E t : Fills(t)
<1>1. Len(Inserted) \in Nat /\ \A i \in 1 .. Len(Inserted) : Inserted[i] \in DOMAIN Characters
  BY DEF Inserted, Characters
<1> PICK n \in Nat : n = Len(Inserted)
  BY <1>1
<1>2. createHashTable \in Tables
  BY DEF createHashTable, Tables
<1>3. \A t \in Tables, i \in 1 .. n : insert(t, Inserted[i]) \in Tables
  BY <1>1 DEF insert, Tables
<1> HIDE DEF Tables
<1>4. [p \in (1 .. n) \X Tables |-> insert(p[2], Inserted[p[1]])] \in [(1 .. n) \X Tables -> Tables]
  BY <1>3
<1> PICK G \in [(1 .. n) \X Tables -> Tables] :
      G = [p \in (1 .. n) \X Tables |-> insert(p[2], Inserted[p[1]])]
  BY <1>4
<1>5. PICK f : Walks(f, Tables, createHashTable, n, G)
  BY <1>2, StepsExist
<1>6. Inserts(f)
  <2>1. ASSUME NEW i \in 1 .. n PROVE f[i] = insert(f[i - 1], Inserted[i])
    <3>1. f[i - 1] \in Tables /\ f[i] = G[<<i, f[i - 1]>>]
      BY <1>5 DEF Walks
    <3>2. <<i, f[i - 1]>> \in (1 .. n) \X Tables
      BY <3>1
    <3> QED BY <3>1, <3>2
  <2>2. f = [i \in 0 .. n |-> f[i]] /\ f[0] = createHashTable
    BY <1>5 DEF Walks
  <2>3. \A i \in 0 .. n : f[i] = IF i = 0 THEN createHashTable ELSE insert(f[i - 1], Inserted[i])
    <3>1. \A i \in 0 .. n : i = 0 \/ i \in 1 .. n
      OBVIOUS
    <3> QED BY <2>1, <2>2, <3>1
  <2> QED BY <2>2, <2>3, Zenon DEF Inserts
<1> DEFINE t == CHOOSE g : Inserts(g)
<1>7. Inserts(t)
  BY <1>6
<1>8. Table = t[n]
  BY DEF Table, Inserts
<1> HIDE DEF t
<1>9. \A i \in 0 .. n : t[i] = IF i = 0 THEN createHashTable ELSE insert(t[i - 1], Inserted[i])
  BY <1>7 DEF Inserts
<1>10. \A i \in 0 .. n : t[i] \in Tables
  <2>1. ASSUME NEW i \in 1 .. n, t[i - 1] \in Tables PROVE t[i] \in Tables
    <3>1. insert(t[i - 1], Inserted[i]) \in Tables
      BY <1>3, <2>1
    <3> QED BY <1>9, <3>1
  <2>2. t[0] \in Tables
    BY <1>2, <1>9
  <2> QED BY <2>1, <2>2, StepsStay
<1>11. t[0] = createHashTable /\ \A i \in 1 .. n : t[i] = insert(t[i - 1], Inserted[i])
  BY <1>9
<1> QED BY <1>8, <1>10, <1>11 DEF Fills

\* Every slot of the table, and so whatever lookup finds, is a function or NULL.
LEMMA FunctionType == Table \in Tables /\ \A w \in DOMAIN Characters : Function[w] \in DOMAIN Characters \cup {NULL}
<1>1. Table \in Tables
  <2>1. Len(Inserted) \in 0 .. Len(Inserted)
    BY DEF Inserted
  <2> QED BY <2>1, TableFills DEF Fills
<1>2. \A w \in DOMAIN Characters : Table[slot(w)] \in DOMAIN Characters \cup {NULL}
  BY <1>1, HashFinds DEF Tables, slot
<1> QED BY <1>1, <1>2 DEF Function, lookup

-----------------------------------------------------------------------------
(* A command and the service of its connection                             *)

\* What the handler of a READ or a WRITE has sent, at each of its positions.
Sent == [ sendStop |-> <<>>, search |-> <<"stop">>, lock |-> <<"stop">>, open |-> <<"stop">>,
          sendError |-> <<"stop">>, sendEnd |-> <<"stop", "error">>,
          respond |-> <<"stop", "error", "stop">>, done |-> <<"stop", "error", "stop", "response">> ]

SPosition == {"none", "sendStop", "search", "lock", "open", "sendError", "sendEnd", "respond", "done"}

ServiceTypeOK ==
  /\ round \in [Client -> Nat] /\ \A c \in Client : round[c] \in 1 .. MaxRounds[c]
  /\ typed \in [Client -> DOMAIN Characters \cup {NULL}]
  /\ cmd \in [Client -> DOMAIN Characters \cup {NULL}] /\ cpc \in [Client -> Position]
  /\ up \in BOOLEAN
  /\ op \in [Conn -> Direct \cup {NULL}] /\ spc \in [Conn -> SPosition]
  /\ toClient \in [Conn -> Seq(Send)] /\ eaten \in [Conn -> Nat]
  /\ \A h \in Conn : FirstNotWhole(toClient[h], eaten[h])
  /\ shown \cup joined \subseteq Conn

LockTypeOK ==
  /\ writer \in Conn \cup {NoClient} /\ readers \subseteq Conn
  /\ writer # NoClient => readers = {}

Begun(h) == spc[h] # "none" /\ eaten[h] = 0 /\ toClient[h] = Sent[spc[h]]

\* The first stop sequence was received and nothing else; or nothing ever comes.
Continued(h) ==
  /\ eaten[h] = 0
  /\ \/ spc[h] \notin {"none", "sendStop"} /\ toClient[h] = Tail(Sent[spc[h]])
     \/ ~up /\ toClient[h] = <<>>

Before == {"poll", "prompt", "ask", "answer", "connect"}
OnConnection == {"stop", "data", "typing", "response", "info"}

(* Where a client is in its command, what it has received, and what is     *)
(* under way to it go together.                                            *)
Follows(c) ==
  LET h == conn(c) IN
  /\ cpc[c] \in Before => spc[h] = "none"
  /\ cpc[c] \in {"ask", "answer"} => cmd[c] \in Direct \cup {"LIST", "RENAME"}
  /\ cpc[c] = "ack" => cmd[c] \notin Direct
  /\ cpc[c] = "connect" => cmd[c] \in Direct
  /\ cpc[c] \in OnConnection => cmd[c] \in Direct /\ op[h] = cmd[c]
  /\ cpc[c] = "stop" => cmd[c] # "INFO" /\ Begun(h)
  /\ cpc[c] = "data" => cmd[c] = "READ" /\ (h \in shown \/ Continued(h))
  /\ cpc[c] = "typing" => cmd[c] = "WRITE" /\ Continued(h)
  /\ cpc[c] = "response" =>
       (cmd[c] = "READ" => h \in shown) /\ (cmd[c] = "WRITE" => Continued(h))
  /\ cpc[c] = "ok" /\ cmd[c] \in Direct =>
       (cmd[c] = "READ" /\ h \in shown) \/ (cmd[c] = "WRITE" /\ h \in joined)

Untouched ==
  /\ \A h \in Conn : spc[h] = "none" => toClient[h] = <<>> /\ eaten[h] = 0
  /\ \A c \in Client : \A r \in round[c] + 1 .. MaxRounds[c] : spc[<<c, r>>] = "none"

ServiceInv == ServiceTypeOK /\ LockTypeOK /\ Untouched /\ \A c \in Client : Follows(c)

LEMMA ConnOf ==
  /\ \A c \in Client : \A r \in 1 .. MaxRounds[c] : <<c, r>> \in Conn
  /\ \A h \in Conn : \E c \in Client : \E r \in 1 .. MaxRounds[c] : h = <<c, r>>
  BY DEF Conn, MaxRounds

LEMMA OwnConn ==
  ASSUME ServiceTypeOK, NEW c \in Client
  PROVE  conn(c) \in Conn
  BY ConnOf DEF conn, ServiceTypeOK

LEMMA InitService == Init => ServiceInv
<1> SUFFICES ASSUME Init PROVE ServiceInv
  OBVIOUS
<1>1. round \in [Client -> Nat] /\ \A c \in Client : round[c] \in 1 .. MaxRounds[c]
  BY RoundsOf DEF Init
<1>2. toClient \in [Conn -> Seq(Send)] /\ eaten \in [Conn -> Nat] /\ \A h \in Conn : FirstNotWhole(toClient[h], eaten[h])
  BY EmptySeq DEF Init, FirstNotWhole
<1>3. ServiceTypeOK /\ LockTypeOK
  BY <1>1, <1>2 DEF Init, ServiceTypeOK, LockTypeOK, SPosition, Position, Direct
<1>4. Untouched
  BY <1>1, <1>3, ConnOf DEF Init, Untouched, ServiceTypeOK
<1>5. \A c \in Client : Follows(c)
  BY <1>3, OwnConn DEF Init, Follows, OnConnection
<1> QED BY <1>3, <1>4, <1>5 DEF ServiceInv

(* A step of client b that leaves the server's part alone. *)
LEMMA OneFollows ==
  ASSUME ServiceInv, NEW b \in Client, NEW p \in Position, cpc' = [cpc EXCEPT ![b] = p],
         UNCHANGED <<loopVars, up, serverVars, streamVars>>, Follows(b)'
  PROVE  ServiceInv'
<1> USE DEF loopVars, serverVars, streamVars
<1>1. ServiceTypeOK' /\ LockTypeOK' /\ Untouched'
  BY DEF ServiceInv, ServiceTypeOK, LockTypeOK, Untouched
<1>2. ASSUME NEW c \in Client, c # b PROVE Follows(c)'
  <2>1. cpc'[c] = cpc[c] /\ conn(c)' = conn(c)
    BY <1>2 DEF ServiceInv, ServiceTypeOK, conn
  <2> QED BY <2>1 DEF ServiceInv, Follows, Begun, Continued
<1> QED BY <1>1, <1>2 DEF ServiceInv

\* Steps of the loop, and to the naming server and back.
LEMMA LoopService ==
  ASSUME ServiceInv, NEW b \in Client,
         pollServer(b) \/ TypesBlanks(b) \/ Asks(b) \/ AskFails(b) \/ ReceivesAnswer(b)
         \/ ReceivesAck(b) \/ ReceivesRemnant(b) \/ FindsNSGone(b) \/ Interrupts(b) \/ ConnectFails(b) \/ EndsText(b) \/ FindsEnd(b)
  PROVE  ServiceInv'
<1>1. UNCHANGED <<loopVars, up, serverVars, streamVars>>
  BY DEF pollServer, TypesBlanks, Asks, AskFails, ReceivesAnswer, ReceivesAck, ReceivesRemnant,
         FindsNSGone, Interrupts, ConnectFails, EndsText, FindsEnd
<1>2. conn(b)' = conn(b) /\ cpc \in [Client -> Position] /\ Follows(b)
  BY <1>1 DEF loopVars, conn, ServiceInv, ServiceTypeOK
<1> DEFINE Ends == {"failed", "killed", "spins"}
<1>3. ASSUME NEW p \in Position, cpc' = [cpc EXCEPT ![b] = p], Follows(b)' PROVE ServiceInv'
  BY <1>1, <1>3, OneFollows
<1>4. ASSUME cpc'[b] \in Ends PROVE Follows(b)'
  BY <1>4 DEF Follows, Before, OnConnection
<1>5. CASE pollServer(b)
  <2>1. cpc' = [cpc EXCEPT ![b] = "prompt"] /\ cpc[b] = "poll"
    BY <1>5 DEF pollServer, CGo
  <2>2. Follows(b)'
    BY <1>1, <1>2, <2>1 DEF Follows, Before, OnConnection, serverVars
  <2> QED BY <1>3, <2>1, <2>2 DEF Position
<1>6. CASE TypesBlanks(b) \/ ReceivesRemnant(b) \/ AskFails(b) \/ FindsNSGone(b) \/ Interrupts(b) \/ ConnectFails(b)
  <2>1. \E p \in Ends : cpc' = [cpc EXCEPT ![b] = p]
    BY <1>6 DEF TypesBlanks, ReceivesRemnant, AskFails, FindsNSGone, Interrupts, ConnectFails, CGo
  <2> QED BY <1>2, <1>3, <1>4, <2>1 DEF Position, Returned
<1>7. CASE Asks(b)
  <2>1. cpc' = [cpc EXCEPT ![b] = "answer"] /\ cpc[b] = "ask"
    BY <1>7 DEF Asks, CGo
  <2>2. Follows(b)'
    BY <1>1, <1>2, <2>1 DEF Follows, Before, OnConnection, serverVars, loopVars
  <2> QED BY <1>3, <2>1, <2>2 DEF Position
<1>8. CASE ReceivesAnswer(b)
  <2>1. PICK v : /\ \E to \in AfterAnswer(cmd[b], v) : CGo(b, "answer", to)
    BY <1>8 DEF ReceivesAnswer
  <2>2. /\ cpc[b] = "answer"
        /\ \E p \in {"failed", "ok", "connect", "ack"} :
             /\ cpc' = [cpc EXCEPT ![b] = p]
             /\ p \in {"ok", "ack"} => cmd[b] \notin Direct
             /\ p = "connect" => cmd[b] \in Direct
    BY <2>1 DEF AfterAnswer, CGo
  <2>3. Follows(b)'
    BY <1>1, <1>2, <2>2 DEF Follows, Before, OnConnection, serverVars, loopVars
  <2> QED BY <1>3, <2>2, <2>3 DEF Position, Returned
<1>11. CASE ReceivesAck(b)
  <2>1. cpc[b] = "ack" /\ \E p \in {"failed", "ok"} : cpc' = [cpc EXCEPT ![b] = p]
    BY <1>11 DEF ReceivesAck, CGo
  <2>2. Follows(b)'
    BY <1>1, <1>2, <2>1 DEF Follows, Before, OnConnection, serverVars, loopVars
  <2> QED BY <1>3, <2>1, <2>2 DEF Position, Returned
<1>9. CASE EndsText(b)
  <2>1. cpc[b] = "typing" /\ \E p \in {"response", "failed", "killed"} : cpc' = [cpc EXCEPT ![b] = p]
    BY <1>9 DEF EndsText, CGo
  <2>2. Follows(b)'
    BY <1>1, <1>2, <2>1 DEF Follows, Before, OnConnection, Continued, serverVars, streamVars, loopVars
  <2> QED BY <1>3, <2>1, <2>2 DEF Position, Returned
<1>10. CASE FindsEnd(b)
  <2>1. PICK p \in Ends \cup {"typing"} :
          /\ cpc' = [cpc EXCEPT ![b] = p] /\ ~up /\ toClient[conn(b)] = <<>>
          /\ p = "typing" => cpc[b] = "stop" /\ cmd[b] = "WRITE"
    BY <1>10 DEF FindsEnd
  <2>2. Follows(b)'
    <3>1. CASE p \in Ends
      BY <1>2, <1>4, <2>1, <3>1
    <3>2. CASE p = "typing"
      BY <1>1, <1>2, <2>1, <3>2 DEF Follows, Before, OnConnection, Begun, Continued, serverVars, streamVars, loopVars
    <3> QED BY <3>1, <3>2
  <2> QED BY <1>3, <2>1, <2>2 DEF Position, Returned
<1> QED BY <1>5, <1>6, <1>7, <1>8, <1>9, <1>10, <1>11

LEMMA TypesService ==
  ASSUME ServiceInv, NEW b \in Client, NEW w \in Word[b][round[b]], Types(b, w)
  PROVE  ServiceInv'
<1>1. w \in DOMAIN Characters /\ Function[w] \in DOMAIN Characters \cup {NULL}
  BY FunctionType, WordsOf DEF ServiceInv, ServiceTypeOK
<1>2. /\ typed' = [typed EXCEPT ![b] = w] /\ cmd' = [cmd EXCEPT ![b] = Function[w]]
      /\ cpc[b] = "prompt"
      /\ \E p \in {"unknown", "ask", "failed", "ran"} :
           /\ cpc' = [cpc EXCEPT ![b] = p]
           /\ p = "ask" => Function[w] \in Direct \cup {"LIST", "RENAME"}
      /\ UNCHANGED <<round, up, serverVars, streamVars>>
  <2>1. NULL \notin Direct \cup {"LIST", "RENAME"}
    BY ClientsAssumption DEF Direct, Characters
  <2>2. PICK p \in Starts(Function[w]) : CGo(b, "prompt", p)
    BY DEF Types
  <2>3. p \in {"unknown", "ask", "failed", "ran"} /\ (p = "ask" => Function[w] \in Direct \cup {"LIST", "RENAME"})
    BY <2>1, <2>2 DEF Starts
  <2> QED BY <2>2, <2>3 DEF Types, CGo
<1>3. ServiceTypeOK' /\ LockTypeOK' /\ Untouched'
  BY <1>1, <1>2 DEF ServiceInv, ServiceTypeOK, LockTypeOK, Untouched, serverVars, streamVars, Position, Returned
<1>4. ASSUME NEW c \in Client PROVE Follows(c)'
  <2>1. conn(c)' = conn(c)
    BY <1>2 DEF conn
  <2>2. CASE c # b
    <3>1. cpc'[c] = cpc[c] /\ cmd'[c] = cmd[c]
      BY <1>2, <2>2 DEF ServiceInv, ServiceTypeOK
    <3> QED BY <1>2, <2>1, <3>1 DEF ServiceInv, Follows, Begun, Continued, serverVars, streamVars
  <2>3. CASE c = b
    BY <1>2, <2>1, <2>3 DEF ServiceInv, ServiceTypeOK, Follows, Before, OnConnection, serverVars
  <2> QED BY <2>2, <2>3
<1> QED BY <1>3, <1>4 DEF ServiceInv

LEMMA EnterService ==
  ASSUME ServiceInv, NEW b \in Client, PressesEnter(b)
  PROVE  ServiceInv'
<1>1. PICK f \in IF typed[b] = NULL THEN Runnable ELSE {cmd[b]} :
        /\ cmd' = [cmd EXCEPT ![b] = f]
        /\ CGo(b, "prompt", IF f \in {"HELP", "EXIT"} THEN "ran" ELSE "repeats")
  BY DEF PressesEnter
<1>2. f \in DOMAIN Characters \cup {NULL}
  BY FunctionType DEF Runnable, Tables, ServiceInv, ServiceTypeOK
<1>3. PICK p \in {"ran", "repeats"} :
        /\ cpc[b] = "prompt" /\ cpc' = [cpc EXCEPT ![b] = p]
        /\ UNCHANGED <<round, typed, up, serverVars, streamVars>>
  BY <1>1 DEF PressesEnter, CGo
<1>4. ServiceTypeOK' /\ LockTypeOK' /\ Untouched'
  BY <1>1, <1>2, <1>3 DEF ServiceInv, ServiceTypeOK, LockTypeOK, Untouched, serverVars, streamVars, Position, Returned
<1>5. ASSUME NEW c \in Client PROVE Follows(c)'
  <2>1. conn(c)' = conn(c)
    BY <1>3 DEF conn
  <2>2. CASE c # b
    <3>1. cpc'[c] = cpc[c] /\ cmd'[c] = cmd[c]
      BY <1>1, <1>3, <2>2 DEF ServiceInv, ServiceTypeOK
    <3> QED BY <1>3, <2>1, <3>1 DEF ServiceInv, Follows, Begun, Continued, serverVars, streamVars
  <2>3. CASE c = b
    BY <1>3, <2>1, <2>3 DEF ServiceInv, ServiceTypeOK, Follows, Before, OnConnection, serverVars
  <2> QED BY <2>2, <2>3
<1> QED BY <1>4, <1>5 DEF ServiceInv

LEMMA NextRoundService ==
  ASSUME ServiceInv, NEW b \in Client, NextRound(b)
  PROVE  ServiceInv'
<1>1. /\ cpc' = [cpc EXCEPT ![b] = "poll"] /\ round' = [round EXCEPT ![b] = @ + 1]
      /\ round[b] < MaxRounds[b] /\ UNCHANGED <<typed, cmd, up, serverVars, streamVars>>
  BY DEF NextRound, MaxRounds
<1>2. /\ round' \in [Client -> Nat] /\ round'[b] = round[b] + 1 /\ round[b] + 1 \in 1 .. MaxRounds[b]
      /\ \A c \in Client : c # b => round'[c] = round[c]
  <2>1. round \in [Client -> Nat] /\ round[b] \in Nat /\ MaxRounds[b] \in Nat
    BY RoundsOf DEF ServiceInv, ServiceTypeOK
  <2>2. round[b] + 1 \in Nat
    BY <2>1
  <2> QED BY <1>1, <2>1, <2>2
<1>3. ServiceTypeOK' /\ LockTypeOK'
  BY <1>1, <1>2 DEF ServiceInv, ServiceTypeOK, LockTypeOK, serverVars, streamVars, Position
<1>4. Untouched'
  <2>1. \A c \in Client : round'[c] + 1 .. MaxRounds[c] \subseteq round[c] + 1 .. MaxRounds[c]
    <3>1. round \in [Client -> Nat] /\ MaxRounds \in [Client -> Nat]
      BY RoundsOf DEF ServiceInv, ServiceTypeOK
    <3> QED BY <1>2, <3>1
  <2> QED BY <1>1, <2>1 DEF ServiceInv, Untouched, serverVars, streamVars
<1>5. ASSUME NEW c \in Client PROVE Follows(c)'
  <2>1. CASE c # b
    <3>1. cpc'[c] = cpc[c] /\ cmd'[c] = cmd[c] /\ conn(c)' = conn(c)
      BY <1>1, <1>2, <2>1 DEF ServiceInv, ServiceTypeOK, conn
    <3> QED BY <1>1, <3>1 DEF ServiceInv, Follows, Begun, Continued, serverVars, streamVars
  <2>2. CASE c = b
    <3>1. cpc'[c] = "poll"
      BY <1>1, <2>2 DEF ServiceInv, ServiceTypeOK
    <3>2. spc[<<b, round[b] + 1>>] = "none"
      <4>1. round[b] + 1 \in round[b] + 1 .. MaxRounds[b]
        BY <1>2 DEF ServiceInv, ServiceTypeOK
      <4> QED BY <4>1 DEF ServiceInv, Untouched
    <3>3. spc'[conn(c)'] = "none"
      BY <1>1, <1>2, <2>2, <3>2 DEF conn, serverVars
    <3> QED BY <3>1, <3>3 DEF Follows, OnConnection
  <2> QED BY <2>1, <2>2
<1> QED BY <1>3, <1>4, <1>5 DEF ServiceInv

LEMMA ServiceAlone ==
  ASSUME ServiceInv, UNCHANGED <<loopVars, cpc, serverVars, streamVars>>, up' \in BOOLEAN, up' => up
  PROVE  ServiceInv'
<1>1. UNCHANGED <<round, typed, cmd, cpc, op, spc, readers, writer, toClient, eaten, shown, joined>>
  BY DEF loopVars, serverVars, streamVars
<1>2. ServiceTypeOK' /\ LockTypeOK' /\ Untouched'
  BY <1>1 DEF ServiceInv, ServiceTypeOK, LockTypeOK, Untouched
<1>3. ASSUME NEW c \in Client PROVE Follows(c)'
  <2>1. conn(c)' = conn(c)
    BY <1>1 DEF conn
  <2>2. \A h \in Conn : (Begun(h) => Begun(h)') /\ (Continued(h) => Continued(h)')
    BY <1>1 DEF Begun, Continued
  <2>3. conn(c) \in Conn /\ Follows(c)
    BY OwnConn DEF ServiceInv
  <2> QED BY <1>1, <2>1, <2>2, <2>3 DEF Follows
<1> QED BY <1>2, <1>3 DEF ServiceInv

(* A step that changes one connection and what its client has made of it. *)
LEMMA OneConnection ==
  ASSUME ServiceInv, NEW b \in Client, ServiceTypeOK', LockTypeOK', Follows(b)',
         UNCHANGED <<round, cmd, up>>,
         \A c \in Client \ {b} : cpc'[c] = cpc[c],
         \A h \in Conn \ {conn(b)} : /\ spc'[h] = spc[h] /\ toClient'[h] = toClient[h]
                                     /\ eaten'[h] = eaten[h] /\ op'[h] = op[h],
         spc'[conn(b)] # "none",
         shown \subseteq shown', joined \subseteq joined'
  PROVE  ServiceInv'
<1>1. \A c \in Client : conn(c)' = conn(c) /\ conn(c) \in Conn /\ Follows(c)
  BY OwnConn DEF ServiceInv, conn
<1>2. \A c \in Client \ {b} : conn(c) # conn(b)
  BY DEF conn
<1>3. ASSUME NEW c \in Client \ {b} PROVE Follows(c)'
  <2> PICK h \in Conn : h = conn(c) /\ h # conn(b)
    BY <1>1, <1>2
  <2>1. (Begun(h) => Begun(h)') /\ (Continued(h) => Continued(h)')
    BY DEF Begun, Continued
  <2>2. spc'[h] = spc[h] /\ op'[h] = op[h] /\ conn(c)' = h /\ cpc'[c] = cpc[c] /\ Follows(c)
    BY <1>1
  <2> QED BY <2>1, <2>2 DEF Follows
<1>4. Untouched'
  <2>1. ASSUME NEW c \in Client, NEW r \in round[c] + 1 .. MaxRounds[c] PROVE spc'[<<c, r>>] = "none"
    <3>1. round[c] \in Nat /\ MaxRounds[c] \in Nat
      BY RoundsOf DEF ServiceInv, ServiceTypeOK
    <3>2. <<c, r>> \in Conn /\ <<c, r>> # conn(b)
      BY <3>1, ConnOf DEF conn
    <3> QED BY <3>2 DEF ServiceInv, Untouched
  <2> QED BY <2>1 DEF ServiceInv, Untouched
<1> QED BY <1>3, <1>4 DEF ServiceInv

LEMMA ConnectsService ==
  ASSUME ServiceInv, NEW b \in Client, Connects(b)
  PROVE  ServiceInv'
<1> DEFINE h == conn(b)
           first == IF cmd[b] = "INFO" THEN "search" ELSE "sendStop"
           next == IF cmd[b] = "INFO" THEN "response" ELSE "stop"
<1>1. /\ cpc[b] = "connect" /\ cpc' = [cpc EXCEPT ![b] = next]
      /\ op' = [op EXCEPT ![h] = cmd[b]] /\ spc' = [spc EXCEPT ![h] = first]
      /\ UNCHANGED <<loopVars, up, readers, writer, streamVars>>
  BY DEF Connects, CGo
<1>2. h \in Conn /\ Follows(b) /\ cmd[b] \in Direct /\ spc[h] = "none"
  BY <1>1, OwnConn DEF ServiceInv, Follows, Before
<1>3. ServiceTypeOK' /\ LockTypeOK'
  BY <1>1, <1>2 DEF ServiceInv, ServiceTypeOK, LockTypeOK, loopVars, streamVars, Position, SPosition
<1>4. cpc'[b] = next /\ op'[h] = cmd[b] /\ spc'[h] = first /\ h' = h
  BY <1>1, <1>2 DEF ServiceInv, ServiceTypeOK, conn, loopVars
<1>5. toClient'[h] = <<>> /\ eaten'[h] = 0
  BY <1>1, <1>2 DEF ServiceInv, Untouched, streamVars
<1>6. cmd' = cmd /\ cmd[b] \in {"READ", "WRITE", "INFO"}
  BY <1>1, <1>2 DEF loopVars, Direct
<1> HIDE DEF h
<1>7. Follows(b)'
  <2>1. CASE cmd[b] = "INFO"
    BY <1>4, <1>6, <2>1 DEF Follows, Before, OnConnection, Direct, h
  <2>2. CASE cmd[b] # "INFO"
    <3>1. Begun(h)'
      BY <1>4, <1>5, <2>2 DEF Begun, Sent
    <3> QED BY <1>4, <1>6, <2>2, <3>1 DEF Follows, Before, OnConnection, Direct, h
  <2> QED BY <2>1, <2>2
<1>8. /\ UNCHANGED <<round, cmd, up, shown, joined>>
      /\ \A c \in Client \ {b} : cpc'[c] = cpc[c]
      /\ \A g \in Conn \ {conn(b)} : spc'[g] = spc[g] /\ toClient'[g] = toClient[g] /\ eaten'[g] = eaten[g] /\ op'[g] = op[g]
  BY <1>1 DEF ServiceInv, ServiceTypeOK, loopVars, streamVars, h
<1>9. spc'[conn(b)] # "none"
  BY <1>4 DEF h
<1> QED BY <1>3, <1>7, <1>8, <1>9, OneConnection

\* What a recv on the connection of client b leaves as it is.
Receiving(b, p) ==
  /\ UNCHANGED <<loopVars, nsVars, up, serverVars>> /\ cpc' = [cpc EXCEPT ![b] = p]
  /\ \E k \in 1 .. Len(toClient[conn(b)]) : \E length \in Nat : Takes(conn(b), Got(conn(b), k, length))
  /\ shown \subseteq shown' /\ shown' \subseteq Conn

LEMMA ReceivingService ==
  ASSUME ServiceInv, NEW b \in Client, NEW p \in Position, Receiving(b, p),
         spc[conn(b)] # "none", Follows(b)'
  PROVE  ServiceInv'
<1>1. conn(b) \in Conn
  BY OwnConn DEF ServiceInv
<1>2. PICK k \in 1 .. Len(toClient[conn(b)]), length \in Nat : Takes(conn(b), Got(conn(b), k, length))
  BY DEF Receiving
<1>3. /\ toClient' \in [Conn -> Seq(Send)] /\ eaten' \in [Conn -> Nat]
      /\ \A g \in Conn : FirstNotWhole(toClient'[g], eaten'[g])
      /\ \A g \in Conn \ {conn(b)} : toClient'[g] = toClient[g] /\ eaten'[g] = eaten[g]
      /\ joined' \subseteq joined \cup {conn(b)} /\ joined \subseteq joined'
  BY <1>1, <1>2, TakesPart DEF ServiceInv, ServiceTypeOK
<1>4. /\ UNCHANGED <<round, typed, cmd, up, op, spc, readers, writer>> /\ cpc' = [cpc EXCEPT ![b] = p]
      /\ shown \subseteq shown' /\ shown' \subseteq Conn
  BY DEF Receiving, loopVars, serverVars
<1>5. ServiceTypeOK' /\ LockTypeOK'
  BY <1>1, <1>3, <1>4 DEF ServiceInv, ServiceTypeOK, LockTypeOK
<1>6. \A c \in Client \ {b} : cpc'[c] = cpc[c]
  BY <1>4 DEF ServiceInv, ServiceTypeOK
<1> QED BY <1>3, <1>4, <1>5, <1>6, OneConnection

\* After a stop sequence comes the error text, and then another stop sequence.
LEMMA AfterStop ==
  ASSUME NEW x \in SPosition, x \notin {"none", "sendStop"}
  PROVE  /\ Sent[x] # <<>> /\ Sent[x][1] = "stop"
         /\ LET s == Tail(Sent[x]) IN
            /\ s # <<>> => s[1] = "error" /\ Head(s) = "error"
            /\ Len(s) >= 2 => s[2] = "stop"
<1>1. CASE x \in {"search", "lock", "open", "sendError"}
  BY <1>1 DEF Sent
<1>2. CASE x = "sendEnd"
  BY <1>2 DEF Sent
<1>3. CASE x = "respond"
  BY <1>3 DEF Sent
<1>4. CASE x = "done"
  BY <1>4 DEF Sent
<1> QED BY <1>1, <1>2, <1>3, <1>4 DEF SPosition

LEMMA ReceivesStopService ==
  ASSUME ServiceInv, NEW b \in Client, ReceivesStop(b)
  PROVE  ServiceInv'
<1> DEFINE next == IF cmd[b] = "READ" THEN "data" ELSE "typing"
<1> PICK h \in Conn : h = conn(b)
  BY OwnConn DEF ServiceInv
<1>1. /\ cpc[b] = "stop" /\ cpc' = [cpc EXCEPT ![b] = next] /\ UNCHANGED <<loopVars, nsVars, up, serverVars, shown>>
  BY DEF ReceivesStop, CGo
<1>2. PICK k \in 1 .. Len(toClient[h]) : Takes(h, Got(h, k, MAX_BUFFER_SIZE))
  BY DEF ReceivesStop
<1>3. Follows(b) /\ Begun(h) /\ spc[h] \in SPosition
  BY <1>1 DEF ServiceInv, ServiceTypeOK, Follows
<1>4. toClient[h] = Sent[spc[h]] /\ eaten[h] = 0 /\ spc[h] # "none"
  BY <1>3 DEF Begun
<1>5. spc[h] # "sendStop"
  BY <1>2, <1>4 DEF Sent
<1>6. toClient'[h] = Tail(toClient[h]) /\ eaten'[h] = 0
  <2>1. toClient[h][1] = "stop"
    BY <1>3, <1>4, <1>5, AfterStop
  <2> QED BY <1>2, <1>4, <2>1, TakesStop DEF ServiceInv, ServiceTypeOK
<1>7. Continued(h)'
  BY <1>1, <1>4, <1>5, <1>6 DEF Continued, serverVars
<1>8. Follows(b)'
  <2>1. conn(b)' = h /\ cpc'[b] = next /\ cmd' = cmd /\ op' = op
    BY <1>1 DEF conn, loopVars, serverVars, ServiceInv, ServiceTypeOK
  <2>2. cmd[b] \in {"READ", "WRITE"} /\ op[h] = cmd[b]
    BY <1>1, <1>3 DEF Follows, OnConnection, Direct
  <2> QED BY <1>7, <2>1, <2>2 DEF Follows, Before, OnConnection, Direct
<1>9. Receiving(b, next)
  <2>1. MAX_BUFFER_SIZE \in Nat
    BY DEF MAX_BUFFER_SIZE
  <2> QED BY <1>1, <1>2, <2>1 DEF Receiving, ServiceInv, ServiceTypeOK
<1>10. next \in Position
  BY DEF Position
<1> QED BY <1>4, <1>8, <1>9, <1>10, ReceivingService

LEMMA ReceivesDataService ==
  ASSUME ServiceInv, NEW b \in Client, ReceivesData(b)
  PROVE  ServiceInv'
<1> PICK h \in Conn : h = conn(b)
  BY OwnConn DEF ServiceInv
<1>1. /\ cpc[b] = "data" /\ UNCHANGED <<loopVars, nsVars, up, serverVars>>
      /\ shown' = IF Begins(h, "error") THEN shown \cup {h} ELSE shown
  BY DEF ReceivesData
<1>2. PICK k \in 1 .. Len(toClient[h]) : Takes(h, Got(h, k, MAX_BUFFER_SIZE))
  BY DEF ReceivesData
<1>3. PICK p \in {"data", "response"} : cpc' = [cpc EXCEPT ![b] = p]
  BY <1>1 DEF ReceivesData, CGo, ServiceInv, ServiceTypeOK
<1>4. Follows(b) /\ cmd[b] = "READ" /\ op[h] = "READ" /\ (h \in shown \/ Continued(h)) /\ spc[h] \in SPosition
  BY <1>1 DEF ServiceInv, ServiceTypeOK, Follows, OnConnection
<1>5. h \in shown'
  <2>1. CASE h \in shown
    BY <1>1, <2>1
  <2>2. CASE Continued(h)
    <3>1. toClient[h] # <<>> /\ eaten[h] = 0
      BY <1>2, <2>2 DEF Continued
    <3>2. Head(toClient[h]) = "error"
      BY <1>4, <2>2, <3>1, AfterStop DEF Continued
    <3> QED BY <1>1, <3>1, <3>2 DEF Begins
  <2> QED BY <1>4, <2>1, <2>2
<1>6. Follows(b)'
  <2>1. conn(b)' = h /\ cpc'[b] = p /\ cmd' = cmd /\ op' = op
    BY <1>1, <1>3 DEF conn, loopVars, serverVars, ServiceInv, ServiceTypeOK
  <2> QED BY <1>4, <1>5, <2>1 DEF Follows, Before, OnConnection, Direct
<1>7. Receiving(b, p)
  <2>1. MAX_BUFFER_SIZE \in Nat
    BY DEF MAX_BUFFER_SIZE
  <2>2. shown \subseteq shown' /\ shown' \subseteq Conn
    BY <1>1 DEF ServiceInv, ServiceTypeOK
  <2> QED BY <1>1, <1>2, <1>3, <2>1, <2>2 DEF Receiving
<1>8. spc[h] # "none"
  BY <1>2 DEF ServiceInv, Untouched
<1>9. p \in Position
  BY DEF Position
<1> QED BY <1>6, <1>7, <1>8, <1>9, ReceivingService

LEMMA ReceivesResponseService ==
  ASSUME ServiceInv, NEW b \in Client, ReceivesResponse(b)
  PROVE  ServiceInv'
<1> PICK h \in Conn : h = conn(b)
  BY OwnConn DEF ServiceInv
<1>1. PICK k \in 1 .. Len(toClient[h]), p \in {"failed", "info", "ok"} :
        /\ cpc[b] = "response" /\ cpc' = [cpc EXCEPT ![b] = p]
        /\ Takes(h, Got(h, k, SIZE_RESPONSE))
        /\ p = "ok" => Got(h, k, SIZE_RESPONSE) = SIZE_RESPONSE /\ cmd[b] # "INFO"
        /\ p = "info" => cmd[b] = "INFO"
        /\ UNCHANGED <<loopVars, nsVars, up, serverVars, shown>>
  BY DEF ReceivesResponse, CGo
<1>2. /\ Follows(b) /\ cmd[b] \in Direct /\ op[h] = cmd[b] /\ spc[h] \in SPosition
      /\ (cmd[b] = "READ" => h \in shown) /\ (cmd[b] = "WRITE" => Continued(h))
  BY <1>1 DEF ServiceInv, ServiceTypeOK, Follows, OnConnection
<1>3. ASSUME p = "ok", cmd[b] = "WRITE" PROVE h \in joined'
  <2>1. toClient[h] # <<>> /\ eaten[h] = 0 /\ Continued(h)
    BY <1>1, <1>2, <1>3 DEF Continued
  <2>2. toClient[h][1] = "error" /\ (Len(toClient[h]) >= 2 => toClient[h][2] = "stop")
    BY <1>2, <2>1, AfterStop DEF Continued
  <2>3. Got(h, k, SIZE_RESPONSE) = SIZE_RESPONSE /\ Takes(h, SIZE_RESPONSE)
    BY <1>1, <1>3
  <2> QED BY <1>1, <2>1, <2>2, <2>3, TakesError DEF ServiceInv, ServiceTypeOK
<1>4. Follows(b)'
  <2>1. conn(b)' = h /\ cpc'[b] = p /\ cmd' = cmd /\ op' = op /\ shown' = shown
    BY <1>1 DEF conn, loopVars, serverVars, ServiceInv, ServiceTypeOK
  <2> QED BY <1>1, <1>2, <1>3, <2>1 DEF Follows, Before, OnConnection, Direct
<1>5. Receiving(b, p)
  <2>1. SIZE_RESPONSE \in Nat
    BY DEF SIZE_RESPONSE
  <2> QED BY <1>1, <2>1 DEF Receiving, ServiceInv, ServiceTypeOK
<1>6. spc[h] # "none"
  BY <1>1 DEF ServiceInv, Untouched
<1>7. p \in Position
  BY DEF Position, Returned
<1> QED BY <1>4, <1>5, <1>6, <1>7, ReceivingService

LEMMA SentSteps ==
  /\ Sent["search"] = Append(Sent["sendStop"], "stop") /\ Sent["sendEnd"] = Append(Sent["sendError"], "error")
  /\ Sent["respond"] = Append(Sent["sendEnd"], "stop") /\ Sent["done"] = Append(Sent["respond"], "response")
  /\ Sent["lock"] = Sent["search"] /\ Sent["open"] = Sent["search"] /\ Sent["sendError"] = Sent["search"]
  /\ {"error", "stop", "response"} = Send
<1>1. Sent["search"] = Append(Sent["sendStop"], "stop")
  BY DEF Sent
<1>2. Sent["sendEnd"] = Append(Sent["sendError"], "error")
  BY DEF Sent
<1>3. Sent["respond"] = Append(Sent["sendEnd"], "stop")
  BY DEF Sent
<1>4. Sent["done"] = Append(Sent["respond"], "response")
  BY DEF Sent
<1>5. Sent["lock"] = Sent["search"] /\ Sent["open"] = Sent["search"] /\ Sent["sendError"] = Sent["search"]
  BY DEF Sent
<1> QED BY <1>1, <1>2, <1>3, <1>4, <1>5 DEF Send

\* What all steps of a handler have in common.
LEMMA HandlerMoves ==
  ASSUME ServiceInv, NEW h \in Conn, Handler(h)
  PROVE  /\ up /\ spc[h] \notin {"none", "done"}
         /\ UNCHANGED <<loopVars, cpc, nsVars, up, op, eaten, shown, joined>>
         /\ \E q \in SPosition \ {"none", "sendStop"} :
              /\ spc' = [spc EXCEPT ![h] = q]
              /\ \/ UNCHANGED toClient /\ (op[h] # "INFO" => Sent[q] = Sent[spc[h]])
                 \/ \E x \in Send : /\ toClient' = [toClient EXCEPT ![h] = Append(@, x)]
                                    /\ op[h] # "INFO" => Sent[q] = Append(Sent[spc[h]], x)
<1> DEFINE Moves(q) == spc' = [spc EXCEPT ![h] = q]
           Speaks(x) == toClient' = [toClient EXCEPT ![h] = Append(@, x)]
<1>1. up /\ UNCHANGED <<loopVars, cpc, nsVars, up, op, eaten, shown, joined>>
  BY DEF Handler, SendsStop, Searches, LocksFile, OpenFails, SendsError, SendsEnd, Responds, streamVars
<1>2. \/ spc[h] = "sendStop" /\ Moves("search") /\ Speaks("stop")
      \/ spc[h] = "search" /\ Moves("lock") /\ UNCHANGED toClient
      \/ spc[h] = "search" /\ op[h] = "INFO" /\ Moves("respond") /\ UNCHANGED toClient
      \/ spc[h] = "search" /\ Moves("sendError") /\ UNCHANGED toClient
      \/ spc[h] = "lock" /\ Moves("open") /\ UNCHANGED toClient
      \/ spc[h] = "open" /\ op[h] = "INFO" /\ Moves("respond") /\ UNCHANGED toClient
      \/ spc[h] = "open" /\ Moves("sendError") /\ UNCHANGED toClient
      \/ spc[h] = "sendError" /\ Moves("sendEnd") /\ Speaks("error")
      \/ spc[h] = "sendEnd" /\ Moves("respond") /\ Speaks("stop")
      \/ spc[h] = "respond" /\ Moves("done") /\ Speaks("response")
  <2>1. CASE SendsStop(h)
    BY <2>1 DEF SendsStop, SGo, Sends
  <2>2. CASE Searches(h)
    BY <2>2 DEF Searches, SGo, streamVars
  <2>3. CASE LocksFile(h)
    BY <2>3 DEF LocksFile, SGo, streamVars
  <2>4. CASE OpenFails(h)
    BY <2>4 DEF OpenFails, SGo, streamVars
  <2>5. CASE SendsError(h) \/ SendsEnd(h) \/ Responds(h)
    BY <2>5 DEF SendsError, SendsEnd, Responds, SGo, Sends
  <2> QED BY <2>1, <2>2, <2>3, <2>4, <2>5 DEF Handler
<1> DEFINE Goes(q) ==
      /\ Moves(q)
      /\ \/ UNCHANGED toClient /\ (op[h] # "INFO" => Sent[q] = Sent[spc[h]])
         \/ \E x \in Send : Speaks(x) /\ (op[h] # "INFO" => Sent[q] = Append(Sent[spc[h]], x))
<1> HIDE DEF Moves, Speaks
<1>3. Goes("search") \/ Goes("lock") \/ Goes("open") \/ Goes("respond") \/ Goes("sendError")
      \/ Goes("sendEnd") \/ Goes("done")
  BY <1>2, SentSteps
<1>4. {"search", "lock", "open", "respond", "sendError", "sendEnd", "done"} \subseteq SPosition \ {"none", "sendStop"}
  BY DEF SPosition
<1>5. spc[h] \notin {"none", "done"}
  BY <1>2
<1> HIDE DEF Goes
<1>6. \E q \in SPosition \ {"none", "sendStop"} : Goes(q)
  BY <1>3, <1>4
<1> QED BY <1>1, <1>5, <1>6 DEF Goes, Moves, Speaks

LEMMA HandlerLocks ==
  ASSUME LockTypeOK, NEW h \in Conn, Handler(h)
  PROVE  LockTypeOK'
<1>1. CASE LocksFile(h)
  BY <1>1 DEF LocksFile, LockTypeOK
<1>2. CASE OpenFails(h)
  BY <1>2 DEF OpenFails, LockTypeOK
<1>3. CASE ~LocksFile(h) /\ ~OpenFails(h)
  BY <1>3 DEF Handler, SendsStop, Searches, SendsError, SendsEnd, Responds, LockTypeOK
<1> QED BY <1>1, <1>2, <1>3

LEMMA AppendKeepsFirst ==
  ASSUME NEW s \in Seq(Send), NEW x \in Send, NEW e \in Nat, FirstNotWhole(s, e)
  PROVE  Append(s, x) \in Seq(Send) /\ FirstNotWhole(Append(s, x), e)
<1>1. Append(s, x) \in Seq(Send) /\ Append(s, x) # <<>> /\ Len(Append(s, x)) = Len(s) + 1 /\ Len(s) \in Nat
  BY AppendProperties, LenProperties
<1>2. Head(Append(s, x)) = Append(s, x)[1]
  BY <1>1, HeadTailProperties
<1>3. CASE s = <<>>
  <2>1. Head(Append(s, x)) = x /\ e = 0
    BY <1>2, <1>3, AppendProperties DEF FirstNotWhole
  <2>2. Size(x) \in Nat \ {0}
    BY SizeType
  <2> QED BY <1>1, <2>1, <2>2 DEF FirstNotWhole
<1>4. CASE s # <<>>
  <2>1. Len(s) >= 1 /\ Head(s) = s[1]
    BY <1>4, HeadTailProperties, EmptySeq
  <2>2. Append(s, x)[1] = s[1]
    BY <2>1, AppendProperties
  <2> QED BY <1>1, <1>2, <1>4, <2>1, <2>2 DEF FirstNotWhole
<1> QED BY <1>3, <1>4

LEMMA TailOfAppend ==
  ASSUME NEW y \in SPosition \ {"none", "sendStop"}, NEW x \in Send
  PROVE  Tail(Append(Sent[y], x)) = Append(Tail(Sent[y]), x)
<1>1. Sent[y] \in Seq(Send) /\ Sent[y] # <<>>
  <2>1. CASE y \in {"search", "lock", "open", "sendError"}
    BY <2>1 DEF Sent, Send
  <2>2. CASE y = "sendEnd"
    BY <2>2 DEF Sent, Send
  <2>3. CASE y = "respond"
    BY <2>3 DEF Sent, Send
  <2>4. CASE y = "done"
    BY <2>4 DEF Sent, Send
  <2> QED BY <2>1, <2>2, <2>3, <2>4 DEF SPosition
<1> QED BY <1>1, HeadTailProperties, AppendProperties

LEMMA HandlerService ==
  ASSUME ServiceInv, NEW h \in Conn, Handler(h)
  PROVE  ServiceInv'
<1>1. /\ up /\ spc[h] \notin {"none", "done"}
      /\ UNCHANGED <<round, typed, cmd, cpc, up, op, eaten, shown, joined>>
  BY HandlerMoves DEF loopVars
<1>2. PICK q \in SPosition \ {"none", "sendStop"} :
         /\ spc' = [spc EXCEPT ![h] = q]
         /\ \/ UNCHANGED toClient /\ (op[h] # "INFO" => Sent[q] = Sent[spc[h]])
            \/ \E x \in Send : /\ toClient' = [toClient EXCEPT ![h] = Append(@, x)]
                               /\ op[h] # "INFO" => Sent[q] = Append(Sent[spc[h]], x)
  BY HandlerMoves
<1>3. LockTypeOK'
  BY HandlerLocks DEF ServiceInv
<1>4. ServiceTypeOK'
  <2>1. CASE UNCHANGED toClient
    BY <1>1, <1>2, <2>1 DEF ServiceInv, ServiceTypeOK
  <2>2. ASSUME NEW x \in Send, toClient' = [toClient EXCEPT ![h] = Append(@, x)] PROVE ServiceTypeOK'
    <3>1. toClient[h] \in Seq(Send) /\ eaten[h] \in Nat /\ FirstNotWhole(toClient[h], eaten[h])
      BY DEF ServiceInv, ServiceTypeOK
    <3>2. Append(toClient[h], x) \in Seq(Send) /\ FirstNotWhole(Append(toClient[h], x), eaten[h])
      BY <3>1, AppendKeepsFirst
    <3> QED BY <1>1, <1>2, <2>2, <3>2 DEF ServiceInv, ServiceTypeOK
  <2> QED BY <1>2, <2>1, <2>2
<1>5. \A g \in Conn \ {h} : spc'[g] = spc[g] /\ toClient'[g] = toClient[g]
  BY <1>2 DEF ServiceInv, ServiceTypeOK
<1>6. spc'[h] = q
  BY <1>2 DEF ServiceInv, ServiceTypeOK
<1>7. Untouched'
  <2>1. ASSUME NEW c \in Client, NEW r \in round[c] + 1 .. MaxRounds[c] PROVE spc'[<<c, r>>] = "none"
    <3>1. round[c] \in Nat /\ MaxRounds[c] \in Nat
      BY RoundsOf DEF ServiceInv, ServiceTypeOK
    <3>2. <<c, r>> \in Conn /\ spc[<<c, r>>] = "none"
      BY <3>1, ConnOf DEF ServiceInv, Untouched
    <3> QED BY <1>1, <1>5, <3>2
  <2>2. ASSUME NEW g \in Conn, spc'[g] = "none" PROVE toClient'[g] = <<>> /\ eaten'[g] = 0
    BY <1>1, <1>5, <1>6, <2>2 DEF ServiceInv, Untouched
  <2> QED BY <1>1, <2>1, <2>2 DEF Untouched
<1>8. ASSUME op[h] # "INFO" PROVE (Begun(h) => Begun(h)') /\ (Continued(h) => Continued(h)')
  <2>1. toClient[h] \in Seq(Send) /\ DOMAIN toClient = Conn
    BY DEF ServiceInv, ServiceTypeOK
  <2>2. ASSUME Begun(h) PROVE Begun(h)'
    BY <1>1, <1>2, <1>6, <1>8, <2>1, <2>2 DEF Begun
  <2>3. ASSUME Continued(h) PROVE Continued(h)'
    <3>1. spc[h] \in SPosition \ {"none", "sendStop"} /\ toClient[h] = Tail(Sent[spc[h]]) /\ eaten'[h] = 0
      BY <1>1, <2>3 DEF Continued, ServiceInv, ServiceTypeOK
    <3>2. toClient'[h] = Tail(Sent[q])
      BY <1>2, <1>8, <2>1, <3>1, TailOfAppend
    <3> QED BY <1>6, <3>1, <3>2 DEF Continued
  <2> QED BY <2>2, <2>3
<1>9. ASSUME NEW c \in Client PROVE Follows(c)'
  <2> PICK g \in Conn : g = conn(c)
    BY OwnConn DEF ServiceInv
  <2>1. conn(c)' = g /\ Follows(c)
    BY <1>1 DEF conn, ServiceInv
  <2>2. CASE g # h
    <3>1. spc'[g] = spc[g] /\ toClient'[g] = toClient[g]
      BY <1>5, <2>2
    <3>2. (Begun(g) => Begun(g)') /\ (Continued(g) => Continued(g)')
      BY <1>1, <3>1 DEF Begun, Continued
    <3> QED BY <1>1, <2>1, <3>1, <3>2 DEF Follows
  <2>3. CASE g = h
    <3>1. cpc[c] \notin Before
      BY <1>1, <2>1, <2>3 DEF Follows
    <3>2. cmd[c] \in {"READ", "WRITE"} /\ cpc[c] \in OnConnection => op[h] # "INFO"
      BY <2>1, <2>3 DEF Follows
    <3>3. cmd' = cmd /\ cpc' = cpc /\ op' = op /\ shown' = shown /\ joined' = joined
      BY <1>1
    <3>4. cpc[c] \in OnConnection => cmd[c] \in {"READ", "WRITE", "INFO"}
      BY <2>1 DEF Follows, Direct
    <3> QED BY <1>8, <2>1, <2>3, <3>1, <3>2, <3>3, <3>4 DEF Follows, OnConnection, Before
  <2> QED BY <2>2, <2>3
<1> QED BY <1>3, <1>4, <1>7, <1>9 DEF ServiceInv

(* Where each client is in a command agrees with where the handler of its  *)
(* connection is, and with what is under way on the connection, whatever   *)
(* amounts the recvs return.                                               *)
THEOREM ServiceInvariant == Spec => []ServiceInv
<1>1. ServiceInv /\ [Next]_vars => ServiceInv'
  <2> SUFFICES ASSUME ServiceInv, [Next]_vars PROVE ServiceInv'
    OBVIOUS
  <2>1. ASSUME NEW c \in Client, Command(c) PROVE ServiceInv'
    BY <2>1, LoopService, ConnectsService, ReceivesStopService, ReceivesDataService, ReceivesResponseService
       DEF Command
  <2>2. ASSUME NEW c \in Client, User(c) PROVE ServiceInv'
    BY <2>2, LoopService, TypesService, EnterService, NextRoundService DEF User
  <2>3. ASSUME NEW h \in Conn, Handler(h) PROVE ServiceInv'
    BY <2>3, HandlerService
  <2>4. CASE (\E c \in Client : NSAnswers(c) \/ NSEnds(c)) \/ ServerEnds \/ UNCHANGED vars
    <3>1. UNCHANGED <<loopVars, cpc, serverVars, streamVars>>
      BY <2>4 DEF NSAnswers, NSEnds, ServerEnds, vars
    <3>2. up' = up \/ up' = FALSE
      BY <2>4 DEF NSAnswers, NSEnds, ServerEnds, vars
    <3>3. up \in BOOLEAN
      BY DEF ServiceInv, ServiceTypeOK
    <3>4. up' \in BOOLEAN
      BY <3>2, <3>3
    <3>5. up' => up
      BY <3>2, Zenon
    <3> QED BY <3>1, <3>4, <3>5, ServiceAlone
  <2> QED BY <2>1, <2>2, <2>3, <2>4 DEF Next
<1> QED BY <1>1, InitService, PTL DEF Spec

(* A READ that has ended without an error message has shown the server's,  *)
(* and a WRITE that has ended so, although the server has carried nothing  *)
(* out, took error text and stop sequence out of one buffer.               *)
THEOREM ToldUnless == Spec => []ToldUnlessJoined
<1>1. ServiceInv => ToldUnlessJoined
  BY DEF ServiceInv, Follows, ToldUnlessJoined, Direct
<1> QED BY <1>1, ServiceInvariant, PTL

(* Every variable has its type: a recv leaves fewer bytes behind than the  *)
(* first send holds, lookup finds a function of the table or none, and the *)
(* lock has a writer or readers.                                           *)
THEOREM TypeCorrectness == Spec => []TypeOK
<1>1. ExchangeInv /\ ServiceInv => TypeOK
  <2> SUFFICES ASSUME ExchangeInv, ServiceInv PROVE TypeOK
    OBVIOUS
  <2>1. round \in [Client -> Nat \ {0}]
    BY RoundsOf DEF ServiceInv, ServiceTypeOK
  <2>2. \A h \in Conn : IF toClient[h] = <<>> THEN eaten[h] = 0
                        ELSE eaten[h] \in 0 .. Size(Head(toClient[h])) - 1
    BY DEF ServiceInv, ServiceTypeOK, FirstNotWhole
  <2>3. /\ nsUp \in [Client -> BOOLEAN] /\ up \in BOOLEAN
        /\ {interrupted, torn, mixed} \subseteq SUBSET Client
    BY DEF ExchangeInv, ExchangeTypeOK, ServiceInv, ServiceTypeOK
  <2> QED BY <2>1, <2>2, <2>3 DEF ServiceInv, ServiceTypeOK, LockTypeOK, TypeOK, Position, SPosition
<1> QED BY <1>1, ServiceInvariant, ExchangeInvariant, PTL

-----------------------------------------------------------------------------
(* What each word finds in the table.                                      *)

Letter(h, k) == (h + k + h * 37) % 127

LEMMA Letters ==
  ASSUME NEW key \in Seq(Nat)
  PROVE  \E h : /\ h[0] = 0 /\ hash(key, 127) = h[Len(key)]
               /\ \A i \in 1 .. Len(key) : h[i] = Letter(h[i - 1], key[i])
<1>1. PICK h : HashLoop(key, 127, h)
  BY HashLoops
<1> QED BY <1>1 DEF HashLoop, Letter, PRIME

(* Where each word hashes to: DELETE and RENAME meet.                      *)
Slot == [ HELP |-> 56, CLEAR |-> 101, EXIT |-> 53, READ |-> 87, WRITE |-> 14, INFO |-> 4, LIST |-> 38,
          DELETE |-> 62, CREATE |-> 92, COPY |-> 12, MOVE |-> 46, RENAME |-> 62,
          EDIT |-> 2, EIGHT |-> 56, GREATER |-> 62 ]

LEMMA SlotsOfWords == \A w \in DOMAIN Characters : hash(Characters[w], 127) = Slot[w]
<1>1. hash(Characters.HELP, 127) = 56
  <2> PICK key : key = <<72, 69, 76, 80>>
    OBVIOUS
  <2>1. key \in Seq(Nat) /\ Len(key) = 4
    OBVIOUS
  <2>2. PICK h : /\ h[0] = 0 /\ hash(key, 127) = h[Len(key)]
                 /\ \A i \in 1 .. Len(key) : h[i] = Letter(h[i - 1], key[i])
    BY <2>1, Letters
  <2>3. /\ h[1] = Letter(h[0], 72) /\ h[2] = Letter(h[1], 69) /\ h[3] = Letter(h[2], 76)
        /\ h[4] = Letter(h[3], 80)
    BY <2>1, <2>2
  <2>4. /\ Letter(0, 72) = 72 /\ Letter(72, 69) = 11 /\ Letter(11, 76) = 113
        /\ Letter(113, 80) = 56
    BY DEF Letter
  <2>5. h[4] = 56
    BY <2>2, <2>3, <2>4
  <2> QED BY <2>1, <2>2, <2>5 DEF Characters
<1>2. hash(Characters.CLEAR, 127) = 101
  <2> PICK key : key = <<67, 76, 69, 65, 82>>
    OBVIOUS
  <2>1. key \in Seq(Nat) /\ Len(key) = 5
    OBVIOUS
  <2>2. PICK h : /\ h[0] = 0 /\ hash(key, 127) = h[Len(key)]
                 /\ \A i \in 1 .. Len(key) : h[i] = Letter(h[i - 1], key[i])
    BY <2>1, Letters
  <2>3. /\ h[1] = Letter(h[0], 67) /\ h[2] = Letter(h[1], 76) /\ h[3] = Letter(h[2], 69)
        /\ h[4] = Letter(h[3], 65) /\ h[5] = Letter(h[4], 82)
    BY <2>1, <2>2
  <2>4. /\ Letter(0, 67) = 67 /\ Letter(67, 76) = 82 /\ Letter(82, 69) = 10
        /\ Letter(10, 65) = 64 /\ Letter(64, 82) = 101
    BY DEF Letter
  <2>5. h[5] = 101
    BY <2>2, <2>3, <2>4
  <2> QED BY <2>1, <2>2, <2>5 DEF Characters
<1>3. hash(Characters.EXIT, 127) = 53
  <2> PICK key : key = <<69, 88, 73, 84>>
    OBVIOUS
  <2>1. key \in Seq(Nat) /\ Len(key) = 4
    OBVIOUS
  <2>2. PICK h : /\ h[0] = 0 /\ hash(key, 127) = h[Len(key)]
                 /\ \A i \in 1 .. Len(key) : h[i] = Letter(h[i - 1], key[i])
    BY <2>1, Letters
  <2>3. /\ h[1] = Letter(h[0], 69) /\ h[2] = Letter(h[1], 88) /\ h[3] = Letter(h[2], 73)
        /\ h[4] = Letter(h[3], 84)
    BY <2>1, <2>2
  <2>4. /\ Letter(0, 69) = 69 /\ Letter(69, 88) = 43 /\ Letter(43, 73) = 56
        /\ Letter(56, 84) = 53
    BY DEF Letter
  <2>5. h[4] = 53
    BY <2>2, <2>3, <2>4
  <2> QED BY <2>1, <2>2, <2>5 DEF Characters
<1>4. hash(Characters.READ, 127) = 87
  <2> PICK key : key = <<82, 69, 65, 68>>
    OBVIOUS
  <2>1. key \in Seq(Nat) /\ Len(key) = 4
    OBVIOUS
  <2>2. PICK h : /\ h[0] = 0 /\ hash(key, 127) = h[Len(key)]
                 /\ \A i \in 1 .. Len(key) : h[i] = Letter(h[i - 1], key[i])
    BY <2>1, Letters
  <2>3. /\ h[1] = Letter(h[0], 82) /\ h[2] = Letter(h[1], 69) /\ h[3] = Letter(h[2], 65)
        /\ h[4] = Letter(h[3], 68)
    BY <2>1, <2>2
  <2>4. /\ Letter(0, 82) = 82 /\ Letter(82, 69) = 10 /\ Letter(10, 65) = 64
        /\ Letter(64, 68) = 87
    BY DEF Letter
  <2>5. h[4] = 87
    BY <2>2, <2>3, <2>4
  <2> QED BY <2>1, <2>2, <2>5 DEF Characters
<1>5. hash(Characters.WRITE, 127) = 14
  <2> PICK key : key = <<87, 82, 73, 84, 69>>
    OBVIOUS
  <2>1. key \in Seq(Nat) /\ Len(key) = 5
    OBVIOUS
  <2>2. PICK h : /\ h[0] = 0 /\ hash(key, 127) = h[Len(key)]
                 /\ \A i \in 1 .. Len(key) : h[i] = Letter(h[i - 1], key[i])
    BY <2>1, Letters
  <2>3. /\ h[1] = Letter(h[0], 87) /\ h[2] = Letter(h[1], 82) /\ h[3] = Letter(h[2], 73)
        /\ h[4] = Letter(h[3], 84) /\ h[5] = Letter(h[4], 69)
    BY <2>1, <2>2
  <2>4. /\ Letter(0, 87) = 87 /\ Letter(87, 82) = 86 /\ Letter(86, 73) = 39
        /\ Letter(39, 84) = 42 /\ Letter(42, 69) = 14
    BY DEF Letter
  <2>5. h[5] = 14
    BY <2>2, <2>3, <2>4
  <2> QED BY <2>1, <2>2, <2>5 DEF Characters
<1>6. hash(Characters.INFO, 127) = 4
  <2> PICK key : key = <<73, 78, 70, 79>>
    OBVIOUS
  <2>1. key \in Seq(Nat) /\ Len(key) = 4
    OBVIOUS
  <2>2. PICK h : /\ h[0] = 0 /\ hash(key, 127) = h[Len(key)]
                 /\ \A i \in 1 .. Len(key) : h[i] = Letter(h[i - 1], key[i])
    BY <2>1, Letters
  <2>3. /\ h[1] = Letter(h[0], 73) /\ h[2] = Letter(h[1], 78) /\ h[3] = Letter(h[2], 70)
        /\ h[4] = Letter(h[3], 79)
    BY <2>1, <2>2
  <2>4. /\ Letter(0, 73) = 73 /\ Letter(73, 78) = 58 /\ Letter(58, 70) = 115
        /\ Letter(115, 79) = 4
    BY DEF Letter
  <2>5. h[4] = 4
    BY <2>2, <2>3, <2>4
  <2> QED BY <2>1, <2>2, <2>5 DEF Characters
<1>7. hash(Characters.LIST, 127) = 38
  <2> PICK key : key = <<76, 73, 83, 84>>
    OBVIOUS
  <2>1. key \in Seq(Nat) /\ Len(key) = 4
    OBVIOUS
  <2>2. PICK h : /\ h[0] = 0 /\ hash(key, 127) = h[Len(key)]
                 /\ \A i \in 1 .. Len(key) : h[i] = Letter(h[i - 1], key[i])
    BY <2>1, Letters
  <2>3. /\ h[1] = Letter(h[0], 76) /\ h[2] = Letter(h[1], 73) /\ h[3] = Letter(h[2], 83)
        /\ h[4] = Letter(h[3], 84)
    BY <2>1, <2>2
  <2>4. /\ Letter(0, 76) = 76 /\ Letter(76, 73) = 40 /\ Letter(40, 83) = 79
        /\ Letter(79, 84) = 38
    BY DEF Letter
  <2>5. h[4] = 38
    BY <2>2, <2>3, <2>4
  <2> QED BY <2>1, <2>2, <2>5 DEF Characters
<1>8. hash(Characters.DELETE, 127) = 62
  <2> PICK key : key = <<68, 69, 76, 69, 84, 69>>
    OBVIOUS
  <2>1. key \in Seq(Nat) /\ Len(key) = 6
    OBVIOUS
  <2>2. PICK h : /\ h[0] = 0 /\ hash(key, 127) = h[Len(key)]
                 /\ \A i \in 1 .. Len(key) : h[i] = Letter(h[i - 1], key[i])
    BY <2>1, Letters
  <2>3. /\ h[1] = Letter(h[0], 68) /\ h[2] = Letter(h[1], 69) /\ h[3] = Letter(h[2], 76)
        /\ h[4] = Letter(h[3], 69) /\ h[5] = Letter(h[4], 84) /\ h[6] = Letter(h[5], 69)
    BY <2>1, <2>2
  <2>4. /\ Letter(0, 68) = 68 /\ Letter(68, 69) = 113 /\ Letter(113, 76) = 52
        /\ Letter(52, 69) = 13 /\ Letter(13, 84) = 70 /\ Letter(70, 69) = 62
    BY DEF Letter
  <2>5. h[6] = 62
    BY <2>2, <2>3, <2>4
  <2> QED BY <2>1, <2>2, <2>5 DEF Characters
<1>9. hash(Characters.CREATE, 127) = 92
  <2> PICK key : key = <<67, 82, 69, 65, 84, 69>>
    OBVIOUS
  <2>1. key \in Seq(Nat) /\ Len(key) = 6
    OBVIOUS
  <2>2. PICK h : /\ h[0] = 0 /\ hash(key, 127) = h[Len(key)]
                 /\ \A i \in 1 .. Len(key) : h[i] = Letter(h[i - 1], key[i])
    BY <2>1, Letters
  <2>3. /\ h[1] = Letter(h[0], 67) /\ h[2] = Letter(h[1], 82) /\ h[3] = Letter(h[2], 69)
        /\ h[4] = Letter(h[3], 65) /\ h[5] = Letter(h[4], 84) /\ h[6] = Letter(h[5], 69)
    BY <2>1, <2>2
  <2>4. /\ Letter(0, 67) = 67 /\ Letter(67, 82) = 88 /\ Letter(88, 69) = 111
        /\ Letter(111, 65) = 92 /\ Letter(92, 84) = 24 /\ Letter(24, 69) = 92
    BY DEF Letter
  <2>5. h[6] = 92
    BY <2>2, <2>3, <2>4
  <2> QED BY <2>1, <2>2, <2>5 DEF Characters
<1>10. hash(Characters.COPY, 127) = 12
  <2> PICK key : key = <<67, 79, 80, 89>>
    OBVIOUS
  <2>1. key \in Seq(Nat) /\ Len(key) = 4
    OBVIOUS
  <2>2. PICK h : /\ h[0] = 0 /\ hash(key, 127) = h[Len(key)]
                 /\ \A i \in 1 .. Len(key) : h[i] = Letter(h[i - 1], key[i])
    BY <2>1, Letters
  <2>3. /\ h[1] = Letter(h[0], 67) /\ h[2] = Letter(h[1], 79) /\ h[3] = Letter(h[2], 80)
        /\ h[4] = Letter(h[3], 89)
    BY <2>1, <2>2
  <2>4. /\ Letter(0, 67) = 67 /\ Letter(67, 79) = 85 /\ Letter(85, 80) = 8
        /\ Letter(8, 89) = 12
    BY DEF Letter
  <2>5. h[4] = 12
    BY <2>2, <2>3, <2>4
  <2> QED BY <2>1, <2>2, <2>5 DEF Characters
<1>11. hash(Characters.MOVE, 127) = 46
  <2> PICK key : key = <<77, 79, 86, 69>>
    OBVIOUS
  <2>1. key \in Seq(Nat) /\ Len(key) = 4
    OBVIOUS
  <2>2. PICK h : /\ h[0] = 0 /\ hash(key, 127) = h[Len(key)]
                 /\ \A i \in 1 .. Len(key) : h[i] = Letter(h[i - 1], key[i])
    BY <2>1, Letters
  <2>3. /\ h[1] = Letter(h[0], 77) /\ h[2] = Letter(h[1], 79) /\ h[3] = Letter(h[2], 86)
        /\ h[4] = Letter(h[3], 69)
    BY <2>1, <2>2
  <2>4. /\ Letter(0, 77) = 77 /\ Letter(77, 79) = 84 /\ Letter(84, 86) = 103
        /\ Letter(103, 69) = 46
    BY DEF Letter
  <2>5. h[4] = 46
    BY <2>2, <2>3, <2>4
  <2> QED BY <2>1, <2>2, <2>5 DEF Characters
<1>12. hash(Characters.RENAME, 127) = 62
  <2> PICK key : key = <<82, 69, 78, 65, 77, 69>>
    OBVIOUS
  <2>1. key \in Seq(Nat) /\ Len(key) = 6
    OBVIOUS
  <2>2. PICK h : /\ h[0] = 0 /\ hash(key, 127) = h[Len(key)]
                 /\ \A i \in 1 .. Len(key) : h[i] = Letter(h[i - 1], key[i])
    BY <2>1, Letters
  <2>3. /\ h[1] = Letter(h[0], 82) /\ h[2] = Letter(h[1], 69) /\ h[3] = Letter(h[2], 78)
        /\ h[4] = Letter(h[3], 65) /\ h[5] = Letter(h[4], 77) /\ h[6] = Letter(h[5], 69)
    BY <2>1, <2>2
  <2>4. /\ Letter(0, 82) = 82 /\ Letter(82, 69) = 10 /\ Letter(10, 78) = 77
        /\ Letter(77, 65) = 70 /\ Letter(70, 77) = 70 /\ Letter(70, 69) = 62
    BY DEF Letter
  <2>5. h[6] = 62
    BY <2>2, <2>3, <2>4
  <2> QED BY <2>1, <2>2, <2>5 DEF Characters
<1>13. hash(Characters.EDIT, 127) = 2
  <2> PICK key : key = <<69, 68, 73, 84>>
    OBVIOUS
  <2>1. key \in Seq(Nat) /\ Len(key) = 4
    OBVIOUS
  <2>2. PICK h : /\ h[0] = 0 /\ hash(key, 127) = h[Len(key)]
                 /\ \A i \in 1 .. Len(key) : h[i] = Letter(h[i - 1], key[i])
    BY <2>1, Letters
  <2>3. /\ h[1] = Letter(h[0], 69) /\ h[2] = Letter(h[1], 68) /\ h[3] = Letter(h[2], 73)
        /\ h[4] = Letter(h[3], 84)
    BY <2>1, <2>2
  <2>4. /\ Letter(0, 69) = 69 /\ Letter(69, 68) = 23 /\ Letter(23, 73) = 58
        /\ Letter(58, 84) = 2
    BY DEF Letter
  <2>5. h[4] = 2
    BY <2>2, <2>3, <2>4
  <2> QED BY <2>1, <2>2, <2>5 DEF Characters
<1>14. hash(Characters.EIGHT, 127) = 56
  <2> PICK key : key = <<56>>
    OBVIOUS
  <2>1. key \in Seq(Nat) /\ Len(key) = 1
    OBVIOUS
  <2>2. PICK h : /\ h[0] = 0 /\ hash(key, 127) = h[Len(key)]
                 /\ \A i \in 1 .. Len(key) : h[i] = Letter(h[i - 1], key[i])
    BY <2>1, Letters
  <2>3. h[1] = Letter(0, 56) /\ Letter(0, 56) = 56
    BY <2>1, <2>2 DEF Letter
  <2> QED BY <2>1, <2>2, <2>3 DEF Characters
<1>15. hash(Characters.GREATER, 127) = 62
  <2> PICK key : key = <<62>>
    OBVIOUS
  <2>1. key \in Seq(Nat) /\ Len(key) = 1
    OBVIOUS
  <2>2. PICK h : /\ h[0] = 0 /\ hash(key, 127) = h[Len(key)]
                 /\ \A i \in 1 .. Len(key) : h[i] = Letter(h[i - 1], key[i])
    BY <2>1, Letters
  <2>3. h[1] = Letter(0, 62) /\ Letter(0, 62) = 62
    BY <2>1, <2>2 DEF Letter
  <2> QED BY <2>1, <2>2, <2>3 DEF Characters
<1>16. DOMAIN Characters = {"HELP", "CLEAR", "EXIT", "READ", "WRITE", "INFO", "LIST", "DELETE",
                            "CREATE", "COPY", "MOVE", "RENAME", "EDIT", "EIGHT", "GREATER"}
  BY DEF Characters
<1> QED BY <1>1, <1>2, <1>3, <1>4, <1>5, <1>6, <1>7, <1>8, <1>9, <1>10, <1>11, <1>12, <1>13, <1>14, <1>15,
           <1>16 DEF Slot

\* Every insertion changes one slot.
LEMMA SlotsAfterInsert ==
  ASSUME NEW t, Fills(t), NEW i \in 1 .. 12, NEW x \in 0 .. 126
  PROVE  t[i][x] = IF x = Slot[Inserted[i]] THEN Inserted[i] ELSE t[i - 1][x]
<1>1. Len(Inserted) = 12 /\ Inserted[i] \in DOMAIN Characters
  BY DEF Inserted, Characters
<1>2. t[i] = [t[i - 1] EXCEPT ![Slot[Inserted[i]]] = Inserted[i]]
  BY <1>1, SlotsOfWords DEF Fills, insert, slot, FUNCTION_COUNT
<1>3. t[i - 1] \in Tables
  BY <1>1 DEF Fills
<1> QED BY <1>2, <1>3 DEF Tables, FUNCTION_COUNT

LEMMA TableHolds ==
  \A x \in 0 .. 126 :
    Table[x] = IF x = 62 THEN "RENAME" ELSE
               IF x = 46 THEN "MOVE" ELSE
               IF x = 12 THEN "COPY" ELSE
               IF x = 92 THEN "CREATE" ELSE
               IF x = 38 THEN "LIST" ELSE
               IF x = 4 THEN "INFO" ELSE
               IF x = 14 THEN "WRITE" ELSE
               IF x = 87 THEN "READ" ELSE
               IF x = 53 THEN "EXIT" ELSE
               IF x = 101 THEN "CLEAR" ELSE
               IF x = 56 THEN "HELP" ELSE NULL
<1> SUFFICES ASSUME NEW x \in 0 .. 126
             PROVE  Table[x] = IF x = 62 THEN "RENAME" ELSE
                               IF x = 46 THEN "MOVE" ELSE
                               IF x = 12 THEN "COPY" ELSE
                               IF x = 92 THEN "CREATE" ELSE
                               IF x = 38 THEN "LIST" ELSE
                               IF x = 4 THEN "INFO" ELSE
                               IF x = 14 THEN "WRITE" ELSE
                               IF x = 87 THEN "READ" ELSE
                               IF x = 53 THEN "EXIT" ELSE
                               IF x = 101 THEN "CLEAR" ELSE
                               IF x = 56 THEN "HELP" ELSE NULL
  OBVIOUS
<1>0. PICK t : Fills(t)
  BY TableFills
<1> DEFINE a(i) == t[i][x]
<1>1. a(0) = NULL /\ Table[x] = a(12)
  BY <1>0 DEF Fills, Inserted, createHashTable, FUNCTION_COUNT
<1>2. \A i \in 1 .. 12 : a(i) = IF x = Slot[Inserted[i]] THEN Inserted[i] ELSE a(i - 1)
  BY <1>0, SlotsAfterInsert
<1> HIDE DEF a
<1>3. a(1) = IF x = 56 THEN "HELP" ELSE a(0)
  <2>1. Inserted[1] = "HELP" /\ Slot["HELP"] = 56
    BY DEF Inserted, Slot
  <2> QED BY <1>2, <2>1
<1>4. a(2) = IF x = 101 THEN "CLEAR" ELSE a(1)
  <2>1. Inserted[2] = "CLEAR" /\ Slot["CLEAR"] = 101
    BY DEF Inserted, Slot
  <2> QED BY <1>2, <2>1
<1>5. a(3) = IF x = 53 THEN "EXIT" ELSE a(2)
  <2>1. Inserted[3] = "EXIT" /\ Slot["EXIT"] = 53
    BY DEF Inserted, Slot
  <2> QED BY <1>2, <2>1
<1>6. a(4) = IF x = 87 THEN "READ" ELSE a(3)
  <2>1. Inserted[4] = "READ" /\ Slot["READ"] = 87
    BY DEF Inserted, Slot
  <2> QED BY <1>2, <2>1
<1>7. a(5) = IF x = 14 THEN "WRITE" ELSE a(4)
  <2>1. Inserted[5] = "WRITE" /\ Slot["WRITE"] = 14
    BY DEF Inserted, Slot
  <2> QED BY <1>2, <2>1
<1>8. a(6) = IF x = 4 THEN "INFO" ELSE a(5)
  <2>1. Inserted[6] = "INFO" /\ Slot["INFO"] = 4
    BY DEF Inserted, Slot
  <2> QED BY <1>2, <2>1
<1>9. a(7) = IF x = 38 THEN "LIST" ELSE a(6)
  <2>1. Inserted[7] = "LIST" /\ Slot["LIST"] = 38
    BY DEF Inserted, Slot
  <2> QED BY <1>2, <2>1
<1>10. a(8) = IF x = 62 THEN "DELETE" ELSE a(7)
  <2>1. Inserted[8] = "DELETE" /\ Slot["DELETE"] = 62
    BY DEF Inserted, Slot
  <2> QED BY <1>2, <2>1
<1>11. a(9) = IF x = 92 THEN "CREATE" ELSE a(8)
  <2>1. Inserted[9] = "CREATE" /\ Slot["CREATE"] = 92
    BY DEF Inserted, Slot
  <2> QED BY <1>2, <2>1
<1>12. a(10) = IF x = 12 THEN "COPY" ELSE a(9)
  <2>1. Inserted[10] = "COPY" /\ Slot["COPY"] = 12
    BY DEF Inserted, Slot
  <2> QED BY <1>2, <2>1
<1>13. a(11) = IF x = 46 THEN "MOVE" ELSE a(10)
  <2>1. Inserted[11] = "MOVE" /\ Slot["MOVE"] = 46
    BY DEF Inserted, Slot
  <2> QED BY <1>2, <2>1
<1>14. a(12) = IF x = 62 THEN "RENAME" ELSE a(11)
  <2>1. Inserted[12] = "RENAME" /\ Slot["RENAME"] = 62
    BY DEF Inserted, Slot
  <2> QED BY <1>2, <2>1
<1> QED BY <1>1, <1>3, <1>4, <1>5, <1>6, <1>7, <1>8, <1>9, <1>10, <1>11, <1>12, <1>13, <1>14

LEMMA Known == ToSet(Inserted) = {"HELP", "CLEAR", "EXIT", "READ", "WRITE", "INFO", "LIST", "DELETE",
                                  "CREATE", "COPY", "MOVE", "RENAME"}
  BY DEF ToSet, Inserted

\* A known word finds its own function, DELETE the one of RENAME; of the others, two find one.
LEMMA FunctionOfWord ==
  /\ \A w \in ToSet(Inserted) : Function[w] = IF w = "DELETE" THEN "RENAME" ELSE w
  /\ Function["EDIT"] = NULL /\ Function["EIGHT"] = "HELP" /\ Function["GREATER"] = "RENAME"
<1>1. \A w \in DOMAIN Characters : Function[w] = Table[Slot[w]]
  BY SlotsOfWords DEF Function, lookup, slot, FUNCTION_COUNT
<1>2. \A w \in ToSet(Inserted) \cup {"EDIT", "EIGHT", "GREATER"} : w \in DOMAIN Characters
  BY Known DEF Characters
<1>3. \A w \in ToSet(Inserted) \cup {"EDIT", "EIGHT", "GREATER"} : Function[w] = Table[Slot[w]]
  BY <1>1, <1>2
<1>4. ASSUME NEW w \in ToSet(Inserted) PROVE Function[w] = IF w = "DELETE" THEN "RENAME" ELSE w
  <2>1. CASE w = "HELP"
    BY <1>3, <2>1, TableHolds DEF Slot
  <2>2. CASE w = "CLEAR"
    BY <1>3, <2>2, TableHolds DEF Slot
  <2>3. CASE w = "EXIT"
    BY <1>3, <2>3, TableHolds DEF Slot
  <2>4. CASE w = "READ"
    BY <1>3, <2>4, TableHolds DEF Slot
  <2>5. CASE w = "WRITE"
    BY <1>3, <2>5, TableHolds DEF Slot
  <2>6. CASE w = "INFO"
    BY <1>3, <2>6, TableHolds DEF Slot
  <2>7. CASE w = "LIST"
    BY <1>3, <2>7, TableHolds DEF Slot
  <2>8. CASE w = "DELETE"
    BY <1>3, <2>8, TableHolds DEF Slot
  <2>9. CASE w = "CREATE"
    BY <1>3, <2>9, TableHolds DEF Slot
  <2>10. CASE w = "COPY"
    BY <1>3, <2>10, TableHolds DEF Slot
  <2>11. CASE w = "MOVE"
    BY <1>3, <2>11, TableHolds DEF Slot
  <2>12. CASE w = "RENAME"
    BY <1>3, <2>12, TableHolds DEF Slot
  <2> QED BY <2>1, <2>2, <2>3, <2>4, <2>5, <2>6, <2>7, <2>8, <2>9, <2>10, <2>11, <2>12, Known
<1>5. Function["EDIT"] = NULL
  BY <1>3, TableHolds DEF Slot
<1>6. Function["EIGHT"] = "HELP"
  BY <1>3, TableHolds DEF Slot
<1>7. Function["GREATER"] = "RENAME"
  BY <1>3, TableHolds DEF Slot
<1> QED BY <1>4, <1>5, <1>6, <1>7

\* The function that a client runs is the one that its word finds.
RunsInv ==
  /\ typed \in [Client -> DOMAIN Characters \cup {NULL}] /\ cmd \in [Client -> NoOrFunction]
  /\ \A c \in Client : typed[c] # NULL => cmd[c] = Function[typed[c]]

LEMMA RunsStep == ExchangeInv /\ RunsInv /\ [Next]_vars => RunsInv'
<1> SUFFICES ASSUME ExchangeInv, RunsInv, [Next]_vars PROVE RunsInv'
  OBVIOUS
<1>1. CASE UNCHANGED <<typed, cmd>>
  BY <1>1 DEF RunsInv
<1>2. ASSUME NEW c \in Client, NEW w \in Word[c][round[c]], Types(c, w) PROVE RunsInv'
  <2>1. typed' = [typed EXCEPT ![c] = w] /\ cmd' = [cmd EXCEPT ![c] = Function[w]]
    BY <1>2 DEF Types
  <2>2. w \in DOMAIN Characters /\ Function[w] \in NoOrFunction
    BY WordsOf DEF NoOrFunction, ExchangeInv, ExchangeTypeOK
  <2> QED BY <2>1, <2>2 DEF RunsInv
<1>3. ASSUME NEW c \in Client, PressesEnter(c) PROVE RunsInv'
  <2>1. PICK f \in IF typed[c] = NULL THEN Runnable ELSE {cmd[c]} : cmd' = [cmd EXCEPT ![c] = f]
    BY <1>3 DEF PressesEnter
  <2>2. f \in NoOrFunction /\ typed' = typed
    BY <1>3 DEF PressesEnter, RunsInv, NoOrFunction
  <2>3. typed[c] # NULL => f = cmd[c]
    OBVIOUS
  <2> QED BY <2>1, <2>2, <2>3 DEF RunsInv
<1>4. ASSUME NEW c \in Client, Command(c) PROVE UNCHANGED <<typed, cmd>>
  BY <1>4 DEF Command, pollServer, Asks, AskFails, ReceivesAnswer, ReceivesAck, ReceivesRemnant, FindsNSGone,
       Connects, ConnectFails, ReceivesStop, ReceivesData, ReceivesResponse, FindsEnd, loopVars
<1>5. ASSUME NEW c \in Client, TypesBlanks(c) \/ NextRound(c) \/ EndsText(c) \/ Interrupts(c)
      PROVE  UNCHANGED <<typed, cmd>>
  BY <1>5 DEF TypesBlanks, NextRound, EndsText, Interrupts, loopVars
<1>6. ASSUME NEW h \in Conn, Handler(h) PROVE UNCHANGED <<typed, cmd>>
  BY <1>6 DEF Handler, SendsStop, Searches, LocksFile, OpenFails, SendsError, SendsEnd, Responds, loopVars
<1>7. CASE (\E c \in Client : NSAnswers(c) \/ NSEnds(c)) \/ ServerEnds \/ UNCHANGED vars
  BY <1>1, <1>7 DEF NSAnswers, NSEnds, ServerEnds, vars, loopVars
<1> QED BY <1>1, <1>2, <1>3, <1>4, <1>5, <1>6, <1>7 DEF Next, User

(* A word of main's runs its own function, but DELETE runs RENAME: insert  *)
(* puts both into the slot of one hash.  Another word runs a function just *)
(* when one of main's is in its slot.                                      *)
THEOREM RunsTheTypedOne == Spec => []RunsTyped
<1>1. RunsInv => RunsTyped
  <2> SUFFICES ASSUME RunsInv, NEW c \in Client, typed[c] # NULL
               PROVE  IF typed[c] \in ToSet(Inserted)
                      THEN cmd[c] = IF typed[c] = "DELETE" THEN "RENAME" ELSE typed[c]
                      ELSE IF cmd[c] = NULL THEN \A w \in ToSet(Inserted) : slot(w) # slot(typed[c])
                      ELSE cmd[c] \in ToSet(Inserted) /\ slot(cmd[c]) = slot(typed[c])
    BY DEF RunsTyped
  <2>1. typed[c] \in DOMAIN Characters /\ cmd[c] = Function[typed[c]]
    BY DEF RunsInv
  <2>2. \A w \in DOMAIN Characters : slot(w) = Slot[w]
    BY SlotsOfWords DEF slot, FUNCTION_COUNT
  <2>3. typed[c] \in ToSet(Inserted) \cup {"EDIT", "EIGHT", "GREATER"}
    BY <2>1, Known DEF Characters
  <2>4. ToSet(Inserted) \cup {"EDIT", "EIGHT", "GREATER"} \subseteq DOMAIN Characters
    BY Known DEF Characters
  <2>5. CASE typed[c] \in ToSet(Inserted)
    BY <2>1, <2>5, FunctionOfWord
  <2>6. CASE typed[c] = "EDIT"
    <3>1. cmd[c] = NULL /\ "EDIT" \notin ToSet(Inserted)
      BY <2>1, <2>6, FunctionOfWord, Known
    <3>2. ASSUME NEW w \in ToSet(Inserted) PROVE slot(w) # slot("EDIT")
      <4>1. slot(w) = Slot[w] /\ slot("EDIT") = Slot["EDIT"]
        BY <2>2, <2>4
      <4>2. Slot[w] # Slot["EDIT"]
        BY Known DEF Slot
      <4> QED BY <4>1, <4>2
    <3> QED BY <2>6, <3>1, <3>2
  <2>7. CASE typed[c] = "EIGHT"
    <3>1. cmd[c] = "HELP" /\ "HELP" # NULL /\ "EIGHT" \notin ToSet(Inserted) /\ "HELP" \in ToSet(Inserted)
      BY <2>1, <2>7, FunctionOfWord, Known, ClientsAssumption DEF Characters
    <3>2. slot("HELP") = slot("EIGHT")
      BY <2>2, <2>4, <3>1 DEF Slot
    <3> QED BY <2>7, <3>1, <3>2
  <2>8. CASE typed[c] = "GREATER"
    <3>1. cmd[c] = "RENAME" /\ "RENAME" # NULL /\ "GREATER" \notin ToSet(Inserted) /\ "RENAME" \in ToSet(Inserted)
      BY <2>1, <2>8, FunctionOfWord, Known, ClientsAssumption DEF Characters
    <3>2. slot("RENAME") = slot("GREATER")
      BY <2>2, <2>4, <3>1 DEF Slot
    <3> QED BY <2>8, <3>1, <3>2
  <2> QED BY <2>3, <2>5, <2>6, <2>7, <2>8
<1>2. Init => RunsInv
  BY DEF Init, RunsInv, NoOrFunction
<1> QED BY <1>1, <1>2, ExchangeInvariant, RunsStep, PTL DEF Spec
=============================================================================
