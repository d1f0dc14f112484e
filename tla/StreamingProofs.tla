-------------------------- MODULE StreamingProofs --------------------------
(***************************************************************************)
(* Streaming for any number of retries, any answer and any way it is cut   *)
(* into chunks: what a client that is told of an error may conclude, and   *)
(* what was forwarded to it.  The first invariant counts the seconds       *)
(* slept, which depend on the attempt only, and says that an error is the  *)
(* last thing a stream sends.  The second says that some number of lines   *)
(* has left the buffer, which holds the rest of what was received, and     *)
(* that their events were forwarded.                                       *)
(***************************************************************************)
EXTENDS Streaming, TLAPS, FiniteSetTheorems, SequenceTheorems

USE RetriesAssumption

(* The seconds slept when an attempt begins: 1 + 2 + ... + attempt.        *)
Slept(a) == 2 * slept = a * (a + 1)

Timed ==
    /\ attempt \in 0..MaxRetries /\ slept \in Nat
    /\ pc # "gone" /\ pc # "sleeping" => Slept(attempt)
    /\ pc = "sleeping" => attempt + 1 \in 0..MaxRetries /\ Slept(attempt + 1)

(* Before the end no error was sent; what an event holds is left open.     *)
IsSequence(s) == \E S : s \in Seq(S)

NoErrorYet ==
    /\ IsSequence(sent)
    /\ pc # "ended" => \A i \in DOMAIN sent : sent[i].event # "error"

IInv == Timed /\ NoErrorYet /\ ErrorIsLastResort

-----------------------------------------------------------------------------
LEMMA EmitDoes ==
  ASSUME IsSequence(sent), NEW e, Emit(e)
  PROVE  /\ IsSequence(sent')
         /\ \A i \in DOMAIN sent' : sent'[i] = e \/ (i \in DOMAIN sent /\ sent'[i] = sent[i])
<1>1. PICK S : sent \in Seq(S)
  BY DEF IsSequence
<1>2. sent \in Seq(S \cup {e}) /\ e \in S \cup {e}
  BY <1>1
<1>3. sent' \in Seq(S \cup {e})
  BY <1>2 DEF Emit
<1>4. \A i \in DOMAIN sent' : sent'[i] = e \/ (i \in DOMAIN sent /\ sent'[i] = sent[i])
  BY <1>2 DEF Emit
<1> QED BY <1>3, <1>4 DEF IsSequence

(* The sum of the waits.                                                   *)
LEMMA NextSum ==
  ASSUME NEW a \in Nat, NEW s \in Nat, 2 * s = a * (a + 1)
  PROVE  2 * (s + a + 1) = (a + 1) * (a + 1 + 1)
  OBVIOUS

(* A failure that may pass puts the generator to sleep for attempt + 1     *)
(* seconds or, after the last attempt, ends it.                            *)
LEMMA AgainKeeps ==
  ASSUME IInv, pc \in {"post", "reading"}, Again, failure' = "transient"
  PROVE  IInv'
<1>0. /\ attempt \in 0..MaxRetries /\ attempt \in Nat /\ slept \in Nat /\ Slept(attempt)
      /\ IsSequence(sent) /\ \A i \in DOMAIN sent : sent[i].event # "error"
  BY DEF IInv, Timed, NoErrorYet
<1>1. CASE /\ attempt < MaxRetries /\ slept' = slept + attempt + 1
           /\ pc' = "sleeping" /\ UNCHANGED <<attempt, sent>>
  <2>1. 2 * slept' = (attempt + 1) * (attempt + 1 + 1)
    BY <1>0, <1>1, NextSum DEF Slept
  <2>2. attempt + 1 \in 0..MaxRetries /\ slept' \in Nat
    BY <1>0, <1>1
  <2>3. Timed'
    BY <1>0, <1>1, <2>1, <2>2 DEF Timed, Slept
  <2> QED BY <1>0, <1>1, <2>3 DEF IInv, NoErrorYet, ErrorIsLastResort
<1>2. CASE attempt = MaxRetries /\ EndWithError
  <2>1. Emit(ErrorEvent) /\ pc' = "ended" /\ UNCHANGED <<attempt, slept>>
    BY <1>2 DEF EndWithError
  <2>2. /\ IsSequence(sent')
        /\ \A i \in DOMAIN sent' : sent'[i] = ErrorEvent \/ (i \in DOMAIN sent /\ sent'[i] = sent[i])
    BY <1>0, <2>1, EmitDoes
  <2>3. ErrorEvent.attempt = MaxRetries
    BY <1>2 DEF ErrorEvent
  <2>4. Timed'
    BY <1>0, <2>1 DEF Timed, Slept
  <2>5. 2 * slept' = MaxRetries * (MaxRetries + 1)
    BY <1>0, <1>2, <2>1 DEF Slept
  <2>6. ErrorIsLastResort'
    BY <1>0, <2>2, <2>3, <2>5 DEF ErrorIsLastResort
  <2> QED BY <2>1, <2>2, <2>4, <2>6 DEF IInv, NoErrorYet
<1> QED BY <1>1, <1>2 DEF Again

(* A failure that does not pass ends the stream at once.                   *)
LEMMA EndKeeps ==
  ASSUME IInv, pc \in {"post", "reading"}, EndWithError, failure' # "transient"
  PROVE  IInv'
<1>1. Emit(ErrorEvent) /\ pc' = "ended" /\ UNCHANGED <<attempt, slept>>
  BY DEF EndWithError
<1>2. Timed'
  BY <1>1 DEF IInv, Timed, Slept
<1>3. NoErrorYet'
  BY <1>1, EmitDoes DEF IInv, NoErrorYet
<1> QED BY <1>2, <1>3 DEF IInv, ErrorIsLastResort

LEMMA InitIInv == ASSUME Init PROVE IInv
<1>1. <<>> \in Seq({})
  OBVIOUS
<1> QED BY <1>1 DEF Init, IInv, Timed, Slept, NoErrorYet, IsSequence, ErrorIsLastResort

LEMMA NextIInv == ASSUME IInv, [Next]_vars PROVE IInv'
<1> USE DEF IInv, Timed, Slept, NoErrorYet, ErrorIsLastResort
<1>1. CASE Refused
  BY <1>1, AgainKeeps, EndKeeps DEF Refused
<1>2. CASE Breaks
  BY <1>2, AgainKeeps, EndKeeps DEF Breaks
<1>3. CASE SplitLine
  <2>1. /\ pc = "reading" /\ UNCHANGED <<attempt, slept, failure>>
        /\ \/ \E l : Emit(Message(l)) /\ UNCHANGED pc
           \/ Emit(DoneEvent) /\ pc' = "ended"
           \/ UNCHANGED <<sent, pc>>
    BY <1>3 DEF SplitLine
  <2>2. \A i \in DOMAIN sent : sent[i].event # "error"
    BY <2>1
  <2>3. ASSUME NEW e, Emit(e), e.event # "error"
        PROVE  IsSequence(sent') /\ \A i \in DOMAIN sent' : sent'[i].event # "error"
    BY <2>2, <2>3, EmitDoes
  <2>4. IsSequence(sent') /\ \A i \in DOMAIN sent' : sent'[i].event # "error"
    BY <2>1, <2>2, <2>3 DEF Message, DoneEvent
  <2> QED BY <2>1, <2>4
<1>4. CASE Accepted \/ Chunk \/ EndOfStream \/ Disconnect
  BY <1>4 DEF Accepted, Chunk, EndOfStream, Disconnect
<1>5. CASE Wake
  <2>1. /\ pc = "sleeping" /\ pc' = "post" /\ attempt' = attempt + 1
        /\ UNCHANGED <<sent, slept, failure>>
    BY <1>5 DEF Wake
  <2> QED BY <2>1
<1>6. CASE UNCHANGED vars
  BY <1>6 DEF vars
<1> QED BY <1>1, <1>2, <1>3, <1>4, <1>5, <1>6 DEF Next

(* A stream is never given up early, for any number of retries: before an  *)
(* error every attempt was used and every wait was kept, unless the last   *)
(* failure does not pass (stream_chat_completion).                         *)
THEOREM ErrorsAreLastResorts == Spec => []ErrorIsLastResort
<1>1. Init => IInv
  BY InitIInv
<1>2. IInv /\ [Next]_vars => IInv'
  BY NextIInv
<1>3. IInv => ErrorIsLastResort
  BY DEF IInv
<1> QED BY <1>1, <1>2, <1>3, PTL DEF Spec

-----------------------------------------------------------------------------
(* What is forwarded.  In every attempt some number k of lines has left    *)
(* the buffer, which holds what was received after them.                   *)
Event == [event : {"message", "done", "error"}, attempt : Nat, line : Nat]

After(k, r, b) ==
    /\ k \in Nat /\ r \in Nat /\ k * Width <= r /\ r <= Len(Text)
    /\ b = SubSeq(Text, k * Width + 1, r)

SentType == sent \in Seq(Event) /\ attempt \in Nat /\ received \in Nat
OnlyMessagesYet ==
    pc \notin {"ended", "gone"} => \A i \in DOMAIN sent : sent[i].event = "message"
NoneAhead == \A i \in DOMAIN sent : sent[i].attempt <= attempt
NoneOfThisYet == pc = "post" => \A i \in DOMAIN sent : sent[i].attempt < attempt
CutSomewhere == \E k \in Nat : After(k, received, buffer) /\ Forwarded(attempt, k)

SInv == /\ SentType /\ OnlyMessagesYet /\ NoneAhead /\ NoneOfThisYet
        /\ CutSomewhere /\ DoneMeansWhole

-----------------------------------------------------------------------------
(* Lines and pieces.                                                       *)

(* The i-th piece after k lines is in line k + 1 and in place i.           *)
LEMMA DivMod ==
  ASSUME NEW k \in Nat, NEW i \in 0..(Width - 1)
  PROVE  (k * Width + i) \div Width = k /\ (k * Width + i) % Width = i
BY WidthAssumption

LEMMA TextType ==
  /\ Text \in Seq([line : Nat, place : 1..Width])
  /\ Len(Text) = Len(Script) * Width
  /\ Len(Script) \in Nat
  /\ Len(Text) \in Nat
  /\ \A p \in 1..Len(Text) :
        Text[p] = [line |-> (p - 1) \div Width + 1, place |-> ((p - 1) % Width) + 1]
<1>1. Len(Script) \in Nat
  BY ScriptAssumption
<1>2. Len(Script) * Width \in Nat
  BY <1>1, WidthAssumption
<1>3. \A p \in 1..Len(Script) * Width :
        /\ (p - 1) \div Width + 1 \in Nat
        /\ ((p - 1) % Width) + 1 \in 1..Width
  BY <1>2, WidthAssumption
<1>4. Text \in [1..Len(Script) * Width -> [line : Nat, place : 1..Width]]
  BY <1>3 DEF Text
<1>5. Text \in Seq([line : Nat, place : 1..Width]) /\ Len(Text) = Len(Script) * Width
  <2> DEFINE P == [line : Nat, place : 1..Width]
             n == Len(Script) * Width
  <2>1. Text \in [1..n -> P] /\ n \in Nat
    BY <1>2, <1>4
  <2> HIDE DEF P, n
  <2>2. Text \in Seq(P)
    BY <2>1, SeqDef
  <2>3. Len(Text) = n
    BY <2>1, <2>2, LenProperties
  <2> QED BY <2>2, <2>3 DEF P, n
<1> QED BY <1>1, <1>2, <1>5 DEF Text

(* A stretch of the text.                                                  *)
LEMMA Stretch ==
  ASSUME NEW from \in Nat, NEW to \in Nat, from <= to, to <= Len(Text)
  PROVE  /\ SubSeq(Text, from + 1, to) \in Seq([line : Nat, place : 1..Width])
         /\ Len(SubSeq(Text, from + 1, to)) = to - from
         /\ DOMAIN SubSeq(Text, from + 1, to) = 1..(to - from)
         /\ \A i \in 1..(to - from) : SubSeq(Text, from + 1, to)[i] = Text[from + i]
<1> DEFINE P == [line : Nat, place : 1..Width]
<1>1. Text \in Seq(P) /\ Len(Text) \in Nat
  BY TextType
<1> HIDE DEF P
<1>2. Len(SubSeq(Text, from + 1, to)) = to - from
  BY <1>1
<1>3. SubSeq(Text, from + 1, to) \in Seq(P)
  BY <1>1
<1>4. \A i \in 1..(to - from) : SubSeq(Text, from + 1, to)[i] = Text[from + i]
  BY <1>1
<1> QED BY <1>2, <1>3, <1>4 DEF P

(* Where the pieces are that follow k lines.                               *)
LEMMA PieceAt ==
  ASSUME NEW k \in Nat, NEW i \in Nat \ {0}, k * Width + i <= Len(Text)
  PROVE  /\ Text[k * Width + i].place = ((i - 1) % Width) + 1
         /\ i <= Width => Text[k * Width + i] = [line |-> k + 1, place |-> i]
<1> DEFINE q == (i - 1) \div Width
           r == (i - 1) % Width
           p == k * Width + i
<1>1. q \in Nat /\ r \in 0..(Width - 1) /\ i - 1 = q * Width + r
  BY WidthAssumption
<1>2. k * Width \in Nat
  BY WidthAssumption
<1>3. p \in 1..Len(Text)
  BY <1>2, TextType
<1>4. Text[p] = [line |-> (p - 1) \div Width + 1, place |-> ((p - 1) % Width) + 1]
  BY <1>3, TextType
<1>5. p - 1 = (k + q) * Width + r
  <2>1. p - 1 = k * Width + (q * Width + r)
    BY <1>1, <1>2
  <2>2. (k + q) * Width = k * Width + q * Width
    BY <1>1, WidthAssumption
  <2>3. q * Width \in Nat
    BY <1>1, WidthAssumption
  <2> HIDE DEF q, r, p
  <2> QED BY <1>1, <1>2, <2>1, <2>2, <2>3, WidthAssumption
<1>6. (p - 1) \div Width = k + q /\ (p - 1) % Width = r
  <2>1. k + q \in Nat
    BY <1>1
  <2> HIDE DEF q, r, p
  <2> QED BY <1>1, <1>5, <2>1, DivMod
<1>7. ASSUME i <= Width PROVE q = 0 /\ r = i - 1
  <2>1. i - 1 \in 0..(Width - 1)
    BY <1>7, WidthAssumption
  <2>2. (0 * Width + (i - 1)) \div Width = 0 /\ (0 * Width + (i - 1)) % Width = i - 1
    BY <2>1, DivMod
  <2>3. 0 * Width + (i - 1) = i - 1
    BY WidthAssumption
  <2> QED BY <2>2, <2>3
<1>8. Text[p].place = r + 1
  BY <1>4, <1>6
<1>9. i <= Width => Text[p] = [line |-> k + 1, place |-> i]
  <2>1. Text[p] = [line |-> k + q + 1, place |-> r + 1]
    BY <1>4, <1>6
  <2> HIDE DEF q, r, p
  <2> QED BY <1>7, <2>1
<1> QED BY <1>8, <1>9

(* A line is recognised for what it is: no two are alike.                  *)
LEMMA LineType ==
  ASSUME NEW l \in 1..Len(Script)
  PROVE  /\ Line(l) = SubSeq(Text, (l - 1) * Width + 1, (l - 1) * Width + Width)
         /\ Line(l)[1].line = l
         /\ Reading(Line(l)) = Script[l]
<1>1. ASSUME NEW m \in 1..Len(Script)
      PROVE  /\ Line(m) = SubSeq(Text, (m - 1) * Width + 1, (m - 1) * Width + Width)
             /\ Line(m)[1].line = m
  <2>1. m - 1 \in Nat /\ m \in Nat /\ Len(Script) \in Nat /\ Width \in Nat /\ Width >= 1
    BY TextType, WidthAssumption
  <2>2. (m - 1) * Width \in Nat /\ (m - 1) * Width + Width = m * Width
    BY <2>1
  <2>3. m * Width <= Len(Script) * Width
    BY <2>1
  <2>4. (m - 1) * Width + Width <= Len(Text)
    BY <2>2, <2>3, TextType
  <2>5. Line(m) = SubSeq(Text, (m - 1) * Width + 1, (m - 1) * Width + Width)
    BY <2>2 DEF Line
  <2>6. Line(m)[1] = Text[(m - 1) * Width + 1]
    <3> DEFINE from == (m - 1) * Width
               to == from + Width
    <3>1. from \in Nat /\ to \in Nat /\ from <= to /\ to <= Len(Text) /\ 1 \in 1..(to - from)
      BY <2>1, <2>2, <2>4
    <3>2. Line(m) = SubSeq(Text, from + 1, to)
      BY <2>5
    <3> HIDE DEF from, to
    <3>3. Line(m)[1] = Text[from + 1]
      BY <3>1, <3>2, Stretch
    <3> QED BY <3>3 DEF from
  <2>7. (m - 1) * Width + 1 <= Len(Text)
    BY <2>1, <2>2, <2>4, TextType
  <2>8. Line(m)[1].line = m
    <3> DEFINE k == m - 1
    <3>1. k \in Nat /\ 1 \in Nat \ {0} /\ 1 <= Width /\ k * Width + 1 <= Len(Text)
          /\ k + 1 = m /\ Line(m)[1] = Text[k * Width + 1]
      BY <2>1, <2>6, <2>7
    <3> HIDE DEF k
    <3>2. Text[k * Width + 1] = [line |-> k + 1, place |-> 1]
      BY <3>1, PieceAt
    <3>3. Line(m)[1] = [line |-> m, place |-> 1]
      BY <3>1, <3>2
    <3> HIDE DEF Line
    <3> QED BY <3>3
  <2> QED BY <2>1, <2>5, <2>8
<1> DEFINE Same == {m \in 1..Len(Script) : Line(l) = Line(m)}
<1>2. \A m \in 1..Len(Script) : Line(l) = Line(m) => m = l
  BY <1>1
<1>3. (CHOOSE m \in 1..Len(Script) : Line(l) = Line(m)) = l
  <2> DEFINE L(m) == Line(m)
  <2>1. \A m \in 1..Len(Script) : L(l) = L(m) => m = l
    BY <1>2
  <2> HIDE DEF L
  <2>2. (CHOOSE m \in 1..Len(Script) : L(l) = L(m)) = l
    BY <2>1
  <2> QED BY <2>2 DEF L
<1>4. Reading(Line(l)) = Script[l]
  BY <1>3 DEF Reading
<1> QED BY <1>1, <1>4

(* Multiplying and dividing by the width.                                  *)
LEMMA Quotient ==
  ASSUME NEW n \in Nat
  PROVE  /\ n \div Width \in Nat
         /\ \A j \in Nat : j * Width <= n <=> j <= n \div Width
<1> DEFINE d == n \div Width
           e == n % Width
<1>1. d \in Nat /\ e \in 0..(Width - 1) /\ n = d * Width + e
  BY WidthAssumption
<1> HIDE DEF d, e
<1>2. ASSUME NEW j \in Nat PROVE j * Width <= n <=> j <= d
  <2>1. ASSUME j <= d PROVE j * Width <= n
    <3>1. j * Width <= d * Width /\ d * Width \in Nat /\ j * Width \in Nat
      BY <1>1, <2>1, WidthAssumption
    <3> QED BY <1>1, <3>1
  <2>2. ASSUME ~(j <= d) PROVE ~(j * Width <= n)
    <3>1. j >= d + 1
      BY <1>1, <2>2
    <3>2. j * Width >= (d + 1) * Width /\ j * Width \in Nat
      BY <1>1, <3>1, WidthAssumption
    <3>3. (d + 1) * Width = d * Width + Width /\ d * Width \in Nat
      BY <1>1, WidthAssumption
    <3> QED BY <1>1, <3>2, <3>3, WidthAssumption
  <2> QED BY <2>1, <2>2
<1> QED BY <1>1, <1>2 DEF d

(* The buffer after k lines, with r pieces received: its newlines are the  *)
(* multiples of the width, and there are as many as complete lines wait.   *)
Holds(b, from, n) ==
    /\ from \in Nat /\ n \in Nat
    /\ Newlines(b) = {j * Width : j \in 1..(n \div Width)}
    /\ DOMAIN b = 1..n /\ Len(b) = n
    /\ \A i \in 1..n : b[i] = Text[from + i]

LEMMA NewlinesAre ==
  ASSUME NEW k, NEW r, NEW b, After(k, r, b)
  PROVE  Holds(b, k * Width, r - k * Width)
<1> DEFINE from == k * Width
           n == r - from
<1>1. /\ k \in Nat /\ r \in Nat /\ from \in Nat /\ from <= r /\ n \in Nat /\ r = from + n
      /\ r <= Len(Text)
  BY WidthAssumption DEF After
<1>2. DOMAIN b = 1..n /\ Len(b) = n /\ \A i \in 1..n : b[i] = Text[from + i]
  <2>1. b = SubSeq(Text, from + 1, r)
    BY DEF After
  <2> HIDE DEF from
  <2> QED BY <1>1, <2>1, Stretch
<1>3. \A i \in 1..n : b[i].place = ((i - 1) % Width) + 1
  <2> TAKE i \in 1..n
  <2>1. i \in Nat \ {0} /\ from + i <= Len(Text)
    <3> HIDE DEF n, from
    <3>1. i \in Nat /\ 1 <= i /\ i <= n /\ Len(Text) \in Nat
      BY <1>1, TextType
    <3> QED BY <1>1, <3>1
  <2>2. Text[k * Width + i].place = ((i - 1) % Width) + 1
    BY <1>1, <2>1, PieceAt
  <2> QED BY <1>2, <2>2
<1>4. ASSUME NEW i \in 1..n, (i - 1) % Width = Width - 1
      PROVE  \E j \in 1..(n \div Width) : i = j * Width
  <2> DEFINE q == (i - 1) \div Width
  <2>1. q \in Nat /\ i - 1 = q * Width + (Width - 1)
    BY <1>4, WidthAssumption
  <2>2. i = (q + 1) * Width
    <3>1. (q + 1) * Width = q * Width + Width /\ q * Width \in Nat
      BY <2>1, WidthAssumption
    <3> HIDE DEF q
    <3> QED BY <2>1, <3>1, WidthAssumption
  <2>3. q + 1 \in Nat /\ q + 1 >= 1 /\ (q + 1) * Width <= n
    BY <2>1, <2>2
  <2> HIDE DEF q, n
  <2>4. q + 1 <= n \div Width /\ n \div Width \in Nat
    BY <1>1, <2>3, Quotient
  <2> QED BY <2>2, <2>3, <2>4
<1>5. ASSUME NEW j \in 1..(n \div Width)
      PROVE  j * Width \in 1..n /\ (j * Width - 1) % Width = Width - 1
  <2> HIDE DEF n
  <2>1. j \in Nat /\ j >= 1 /\ j * Width <= n
    BY <1>1, Quotient
  <2>2. j * Width = (j - 1) * Width + Width /\ j - 1 \in Nat /\ (j - 1) * Width \in Nat
    BY <2>1, WidthAssumption
  <2>3. j * Width - 1 = (j - 1) * Width + (Width - 1) /\ Width - 1 \in 0..(Width - 1)
    BY <2>2, WidthAssumption
  <2>4. ((j - 1) * Width + (Width - 1)) % Width = Width - 1
    BY <2>2, <2>3, DivMod
  <2> QED BY <1>1, <2>1, <2>2, <2>3, <2>4, WidthAssumption
<1>6. Newlines(b) = {i \in 1..n : (i - 1) % Width = Width - 1}
  <2> HIDE DEF n
  <2>1. \A i \in 1..n : (i - 1) % Width \in Int
    BY <1>1, WidthAssumption
  <2>2. ASSUME NEW i \in 1..n
        PROVE  b[i].place = Width <=> (i - 1) % Width = Width - 1
    <3> DEFINE e == (i - 1) % Width
    <3>1. e \in Int /\ b[i].place = e + 1
      BY <1>3, <2>1
    <3> HIDE DEF e
    <3>2. \A w \in Int : e + 1 = w <=> e = w - 1
      BY <3>1
    <3>3. e + 1 = Width <=> e = Width - 1
      BY <3>2, WidthAssumption
    <3>4. b[i].place = Width <=> e + 1 = Width
      BY <3>1
    <3> QED BY <3>3, <3>4 DEF e
  <2>3. Newlines(b) = {i \in 1..n : b[i].place = Width}
    BY <1>2 DEF Newlines
  <2> QED BY <2>2, <2>3
<1>7. Newlines(b) = {j * Width : j \in 1..(n \div Width)}
  <2> HIDE DEF n
  <2> QED BY <1>4, <1>5, <1>6
<1> QED BY <1>1, <1>2, <1>7 DEF Holds

(* So the complete lines received less those waiting are those gone.       *)
LEMMA LinesGone ==
  ASSUME NEW k, NEW r, NEW b, After(k, r, b)
  PROVE  (r \div Width) - Cardinality(Newlines(b)) = k
<1> DEFINE n == r - k * Width
           m == n \div Width
           e == n % Width
           f == [j \in 1..m |-> j * Width]
<1>0. k \in Nat /\ r \in Nat /\ k * Width \in Nat /\ k * Width <= r
  BY WidthAssumption DEF After
<1>1. n \in Nat /\ r = k * Width + n
  BY <1>0
<1>2. m \in Nat /\ e \in 0..(Width - 1) /\ n = m * Width + e
  <2> HIDE DEF n
  <2> QED BY <1>1, WidthAssumption
<1>3. Newlines(b) = {j * Width : j \in 1..m}
  BY NewlinesAre DEF Holds
<1> HIDE DEF n, m, e
<1>4. f \in Bijection(1..m, Newlines(b))
  <2>1. f \in [1..m -> Newlines(b)] /\ \A t \in Newlines(b) : \E j \in 1..m : f[j] = t
    BY <1>3
  <2>2. \A i, j \in 1..m : f[i] = f[j] => i = j
    <3>1. \A i, j \in 1..m : i * Width = j * Width => i = j
      BY <1>2, WidthAssumption
    <3> QED BY <3>1
  <2>3. f \in Injection(1..m, Newlines(b)) /\ f \in Surjection(1..m, Newlines(b))
    <3> HIDE DEF f
    <3> QED BY <2>1, <2>2 DEF Injection, Surjection, IsInjective
  <2> QED BY <2>3 DEF Bijection
<1>5. Cardinality(Newlines(b)) = m
  <2>1. IsFiniteSet(1..m) /\ Cardinality(1..m) = m
    BY <1>2, FS_Interval
  <2>2. ExistsBijection(1..m, Newlines(b))
    BY <1>4 DEF ExistsBijection
  <2> QED BY <2>1, <2>2, FS_Bijection
<1>6. r \div Width = k + m
  <2>1. r = (k + m) * Width + e
    <3>1. (k + m) * Width = k * Width + m * Width /\ m * Width \in Nat
      BY <1>0, <1>2, WidthAssumption
    <3> QED BY <1>0, <1>1, <1>2, <3>1
  <2>2. k + m \in Nat
    BY <1>0, <1>2
  <2> QED BY <1>2, <2>1, <2>2, DivMod
<1> QED BY <1>0, <1>2, <1>5, <1>6

(* A stretch of a stretch is a stretch.                                    *)
LEMMA StretchOfStretch ==
  ASSUME NEW from \in Nat, NEW to \in Nat, from <= to, to <= Len(Text),
         NEW i \in Nat, NEW j \in Nat, i <= j, j <= to - from
  PROVE  SubSeq(SubSeq(Text, from + 1, to), i + 1, j) = SubSeq(Text, (from + i) + 1, from + j)
<1> DEFINE P == [line : Nat, place : 1..Width]
           s == SubSeq(Text, from + 1, to)
           t == SubSeq(s, i + 1, j)
           u == SubSeq(Text, (from + i) + 1, from + j)
<1>1. /\ s \in Seq(P) /\ Len(s) = to - from
      /\ \A m \in 1..(to - from) : s[m] = Text[from + m]
  BY Stretch
<1>2. /\ u \in Seq(P) /\ Len(u) = j - i
      /\ \A m \in 1..(j - i) : u[m] = Text[(from + i) + m]
  <2>1. from + i \in Nat /\ from + j \in Nat /\ from + i <= from + j /\ from + j <= Len(Text)
        /\ (from + j) - (from + i) = j - i
    BY TextType
  <2> QED BY <2>1, Stretch
<1> HIDE DEF P, s, u
<1>3. \A m \in (i + 1)..j : s[m] \in P
  <2> TAKE m \in (i + 1)..j
  <2>1. m \in 1..Len(s)
    BY <1>1
  <2> QED BY <1>1, <2>1, ElementOfSeq
<1>4. /\ t \in Seq(P) /\ Len(t) = IF i + 1 <= j THEN j - (i + 1) + 1 ELSE 0
      /\ \A m \in 1..(j - (i + 1) + 1) : t[m] = s[(i + 1) + m - 1]
  BY <1>3, SubSeqProperties
<1> HIDE DEF t
<1>5. Len(t) = j - i /\ \A m \in 1..(j - i) : t[m] = s[i + m]
  <2>1. Len(t) = j - i /\ j - (i + 1) + 1 = j - i
    BY <1>4
  <2>2. ASSUME NEW m \in 1..(j - i) PROVE t[m] = s[i + m]
    <3>1. m \in 1..(j - (i + 1) + 1) /\ (i + 1) + m - 1 = i + m
      OBVIOUS
    <3> QED BY <1>4, <3>1
  <2> QED BY <2>1, <2>2
<1>6. ASSUME NEW m \in 1..(j - i) PROVE t[m] = u[m]
  <2>1. i + m \in 1..(to - from) /\ from + (i + m) = (from + i) + m
    OBVIOUS
  <2>2. t[m] = Text[from + (i + m)]
    BY <1>1, <1>5, <2>1
  <2> QED BY <1>2, <2>1, <2>2
<1>7. t = u
  BY <1>2, <1>4, <1>5, <1>6, SeqEqual
<1> QED BY <1>7 DEF s, t, u

(* The first line of the buffer is the next one of the script, and what is *)
(* left is what was received after it.                                     *)
LEMMA NextLine ==
  ASSUME NEW k, NEW r, NEW b, After(k, r, b), Newlines(b) # {}
  PROVE  /\ k + 1 \in 1..Len(Script)
         /\ (k + 1) * Width <= r
         /\ SubSeq(b, 1, FirstNewline(b)) = Line(k + 1)
         /\ SubSeq(b, FirstNewline(b) + 1, Len(b)) = SubSeq(Text, (k + 1) * Width + 1, r)
<1> DEFINE from == k * Width
           n == r - from
           next == from + Width
<1>0. /\ k \in Nat /\ r \in Nat /\ from <= r /\ r <= Len(Text)
      /\ b = SubSeq(Text, from + 1, r)
  BY DEF After
<1>1. from \in Nat /\ n \in Nat /\ r = from + n /\ next \in Nat /\ next = from + Width
      /\ Width \in Nat \ {0} /\ Len(Text) \in Nat /\ Len(Script) \in Nat
  BY <1>0, WidthAssumption, TextType
<1>2. /\ Newlines(b) = {j * Width : j \in 1..(n \div Width)}
      /\ DOMAIN b = 1..n /\ Len(b) = n /\ \A i \in 1..n : b[i] = Text[from + i]
  BY NewlinesAre DEF Holds
<1>3. (k + 1) * Width = next
  BY <1>0, <1>1
<1>4. k * Width = from
  OBVIOUS
<1> HIDE DEF n, from, next
<1>5. n \div Width \in Nat /\ 1 \in 1..(n \div Width) /\ 1 * Width <= n
  <2>1. n \div Width \in Nat /\ \A j \in Nat : j * Width <= n <=> j <= n \div Width
    BY <1>1, Quotient
  <2>2. 1..(n \div Width) # {}
    BY <1>2
  <2>3. 1 <= n \div Width
    BY <2>1, <2>2
  <2> QED BY <2>1, <2>3
<1>6. FirstNewline(b) = Width
  <2>1. Width \in Newlines(b)
    BY <1>1, <1>2, <1>5
  <2>2. \A j \in Nat : j >= 1 => j * Width >= Width /\ j * Width \in Nat
    BY <1>1
  <2>3. Newlines(b) \subseteq Nat /\ \A i \in Newlines(b) : Width <= i
    BY <1>2, <2>2
  <2>4. \A i \in Newlines(b) : (\A j \in Newlines(b) : i <= j) => i = Width
    BY <1>1, <2>1, <2>3
  <2> DEFINE N == Newlines(b)
  <2>5. Width \in N /\ (\A j \in N : Width <= j)
        /\ \A i \in N : (\A j \in N : i <= j) => i = Width
    BY <2>1, <2>3, <2>4
  <2> HIDE DEF N
  <2>6. (CHOOSE i \in N : \A j \in N : i <= j) = Width
    BY <2>5
  <2> QED BY <2>6 DEF FirstNewline, N
<1>7. next <= r /\ from <= next /\ next - from = Width
  BY <1>1, <1>5
<1>8. k + 1 \in 1..Len(Script)
  <2>1. (k + 1) * Width <= Len(Script) * Width
    BY <1>0, <1>1, <1>3, <1>7, TextType
  <2>2. ASSUME k + 1 > Len(Script) PROVE FALSE
    <3>1. k >= Len(Script)
      BY <1>0, <1>1, <2>2
    <3>2. \A x, y \in Nat : x >= y => x * Width >= y * Width
      BY <1>1
    <3>3. k * Width >= Len(Script) * Width
      BY <1>0, <1>1, <3>1, <3>2
    <3> QED BY <1>0, <1>1, <1>3, <1>4, <1>7, <2>1, <3>3, TextType
  <2> QED BY <1>0, <1>1, <2>2
<1>9. SubSeq(b, 1, Width) = Line(k + 1)
  <2>1. Line(k + 1) = SubSeq(Text, from + 1, next)
    <3>1. Line(k + 1) = SubSeq(Text, ((k + 1) - 1) * Width + 1, ((k + 1) - 1) * Width + Width)
      BY <1>8, LineType
    <3>2. ((k + 1) - 1) * Width = from
      BY <1>0, <1>1, <1>4
    <3> QED BY <1>1, <3>1, <3>2
  <2>2. SubSeq(b, 0 + 1, Width) = SubSeq(Text, (from + 0) + 1, from + Width)
    <3>1. from <= r /\ r - from = n /\ Width <= n /\ Width \in Nat
      BY <1>1, <1>5
    <3> QED BY <1>0, <1>1, <3>1, StretchOfStretch
  <2> QED BY <1>1, <2>1, <2>2
<1>10. SubSeq(b, Width + 1, Len(b)) = SubSeq(Text, next + 1, r)
  <2>1. from <= r /\ n <= r - from /\ Width <= n /\ Width \in Nat /\ from + n = r
    BY <1>1, <1>5
  <2>2. SubSeq(b, Width + 1, n) = SubSeq(Text, (from + Width) + 1, from + n)
    BY <1>0, <1>1, <2>1, StretchOfStretch
  <2> QED BY <1>1, <1>2, <2>1, <2>2
<1> QED BY <1>3, <1>6, <1>7, <1>8, <1>9, <1>10

(* A chunk lengthens what was received.                                    *)
LEMMA ReceivedMore ==
  ASSUME NEW k, NEW r, NEW b, After(k, r, b), NEW n \in Nat, r + n <= Len(Text)
  PROVE  After(k, r + n, b \o SubSeq(Text, r + 1, r + n))
<1> DEFINE P == [line : Nat, place : 1..Width]
           from == k * Width
<1>1. /\ k \in Nat /\ r \in Nat /\ from \in Nat /\ from <= r
      /\ r <= Len(Text) /\ b = SubSeq(Text, from + 1, r)
      /\ Text \in Seq(P) /\ Len(Text) \in Nat
  BY WidthAssumption, TextType DEF After
<1> HIDE DEF P
<1>2. b \o SubSeq(Text, r + 1, r + n) = SubSeq(Text, from + 1, r + n)
  <2> HIDE DEF from
  <2>1. /\ from + 1 \in 1..(Len(Text) + 1) /\ r \in ((from + 1) - 1)..Len(Text)
        /\ r + n \in r..Len(Text)
    BY <1>1
  <2> QED BY <1>1, <2>1, ConcatAdjacentSubSeq
<1>3. from <= r + n /\ r + n \in Nat
  <2> HIDE DEF from
  <2> QED BY <1>1
<1> QED BY <1>1, <1>2, <1>3 DEF After

-----------------------------------------------------------------------------
(* The events sent.                                                        *)

LEMMA SentGrows ==
  ASSUME sent \in Seq(Event), NEW e \in Event, Emit(e)
  PROVE  /\ sent' \in Seq(Event)
         /\ DOMAIN sent = 1..Len(sent) /\ DOMAIN sent' = 1..(Len(sent) + 1)
         /\ Len(sent) \in Nat
         /\ sent'[Len(sent) + 1] = e
         /\ \A i \in 1..Len(sent) : sent'[i] = sent[i]
<1> HIDE DEF Event
<1> QED BY DEF Emit

(* The next line holds an event, and it is forwarded.                      *)
LEMMA OneForwarded ==
  ASSUME sent \in Seq(Event), NEW a \in Nat, NEW k \in Nat, Forwarded(a, k),
         NEW e \in Event, Emit(e), e.event = "message", e.attempt = a, e.line = k + 1,
         Script[k + 1] = "event"
  PROVE  Forwarded(a, k + 1)'
<1> DEFINE mine == {i \in DOMAIN sent : sent[i].event = "message" /\ sent[i].attempt = a}
           next == {i \in DOMAIN sent' : sent'[i].event = "message" /\ sent'[i].attempt = a}
           n == Len(sent)
<1>1. /\ DOMAIN sent = 1..n /\ DOMAIN sent' = 1..(n + 1) /\ n \in Nat
      /\ sent'[n + 1] = e /\ \A i \in 1..n : sent'[i] = sent[i]
  BY SentGrows
<1> HIDE DEF n
<1>2. next = mine \cup {n + 1}
  BY <1>1
<1>3. \A i \in mine : i \in 1..n /\ sent'[i].line = sent[i].line /\ sent[i].line \in 1..k
  BY <1>1 DEF Forwarded
<1>4. {sent'[i].line : i \in next} = {sent[i].line : i \in mine} \cup {k + 1}
  <2> HIDE DEF mine, next
  <2> QED BY <1>1, <1>2, <1>3
<1>5. {l \in 1..(k + 1) : Script[l] = "event"} = {l \in 1..k : Script[l] = "event"} \cup {k + 1}
  OBVIOUS
<1>6. \A i, j \in next : i < j => sent'[i].line < sent'[j].line
  <2>1. \A i, j \in mine : i < j => sent[i].line < sent[j].line
    BY DEF Forwarded
  <2> HIDE DEF mine, next
  <2> QED BY <1>1, <1>2, <1>3, <2>1
<1>7. {sent[i].line : i \in mine} = {l \in 1..k : Script[l] = "event"}
  BY DEF Forwarded
<1>8. {sent'[i].line : i \in next} = {l \in 1..(k + 1) : Script[l] = "event"}
  BY <1>4, <1>5, <1>7
<1> QED BY <1>6, <1>8 DEF Forwarded

(* The next line holds none.                                               *)
LEMMA NoneForwarded ==
  ASSUME NEW a, NEW k \in Nat, Forwarded(a, k), Script[k + 1] # "event"
  PROVE  Forwarded(a, k + 1)
<1>1. {l \in 1..(k + 1) : Script[l] = "event"} = {l \in 1..k : Script[l] = "event"}
  OBVIOUS
<1> QED BY <1>1 DEF Forwarded

(* What else is sent does not count.                                       *)
LEMMA OthersDoNotCount ==
  ASSUME sent \in Seq(Event), NEW a \in Nat, NEW k \in Nat, Forwarded(a, k),
         NEW e \in Event, Emit(e), e.event # "message"
  PROVE  Forwarded(a, k)'
<1> DEFINE mine == {i \in DOMAIN sent : sent[i].event = "message" /\ sent[i].attempt = a}
           next == {i \in DOMAIN sent' : sent'[i].event = "message" /\ sent'[i].attempt = a}
<1>1. /\ DOMAIN sent = 1..Len(sent) /\ DOMAIN sent' = 1..(Len(sent) + 1) /\ Len(sent) \in Nat
      /\ sent'[Len(sent) + 1] = e /\ \A i \in 1..Len(sent) : sent'[i] = sent[i]
  BY SentGrows
<1>2. next = mine /\ \A i \in mine : sent'[i] = sent[i]
  BY <1>1
<1>3. {sent'[i].line : i \in next} = {sent[i].line : i \in mine}
  <2> HIDE DEF mine, next
  <2> QED BY <1>2
<1>4. /\ {sent[i].line : i \in mine} = {l \in 1..k : Script[l] = "event"}
      /\ \A i, j \in mine : i < j => sent[i].line < sent[j].line
  BY DEF Forwarded
<1>5. \A i, j \in next : i < j => sent'[i].line < sent'[j].line
  <2> HIDE DEF mine, next
  <2> QED BY <1>2, <1>4
<1> QED BY <1>3, <1>4, <1>5 DEF Forwarded

-----------------------------------------------------------------------------
(* A step that sends nothing and one that sends the last event.            *)
LEMMA StillWhole ==
  ASSUME DoneMeansWhole, UNCHANGED sent
  PROVE  DoneMeansWhole'
BY DEF DoneMeansWhole, Forwarded

LEMMA EndSInv ==
  ASSUME SInv, pc \in {"post", "reading"}, EndWithError, UNCHANGED <<received, buffer>>
  PROVE  SInv'
<1>1. ErrorEvent \in Event /\ ErrorEvent.event = "error" /\ ErrorEvent.attempt = attempt
  BY DEF SInv, SentType, ErrorEvent, Event
<1>2. Emit(ErrorEvent) /\ pc' = "ended" /\ UNCHANGED attempt
  BY DEF EndWithError
<1> HIDE DEF Event
<1>3. /\ sent' \in Seq(Event)
      /\ DOMAIN sent = 1..Len(sent) /\ DOMAIN sent' = 1..(Len(sent) + 1)
      /\ Len(sent) \in Nat
      /\ sent'[Len(sent) + 1] = ErrorEvent
      /\ \A i \in 1..Len(sent) : sent'[i] = sent[i]
  BY <1>1, <1>2, SentGrows DEF SInv, SentType
<1>4. \A i \in DOMAIN sent' : sent'[i].event # "done" /\ sent'[i].attempt <= attempt'
  BY <1>1, <1>2, <1>3 DEF SInv, OnlyMessagesYet, NoneAhead, SentType
<1>5. CutSomewhere'
  <2>1. PICK k \in Nat : After(k, received, buffer) /\ Forwarded(attempt, k)
    BY DEF SInv, CutSomewhere
  <2>2. ASSUME NEW a \in Nat, a = attempt PROVE Forwarded(a, k)'
    BY <1>1, <1>2, <2>1, <2>2, OthersDoNotCount DEF SInv, SentType
  <2>3. Forwarded(attempt, k)'
    BY <1>2, <2>2 DEF SInv, SentType, Forwarded
  <2> QED BY <2>1, <2>3 DEF CutSomewhere
<1> QED BY <1>2, <1>3, <1>4, <1>5
    DEF SInv, SentType, OnlyMessagesYet, NoneAhead, NoneOfThisYet, DoneMeansWhole

LEMMA SameCut ==
  ASSUME CutSomewhere, UNCHANGED <<attempt, received, buffer, sent>>
  PROVE  CutSomewhere'
<1>1. PICK k \in Nat : After(k, received, buffer) /\ Forwarded(attempt, k)
  BY DEF CutSomewhere
<1>2. Forwarded(attempt, k)'
  BY <1>1 DEF Forwarded
<1> QED BY <1>1, <1>2 DEF CutSomewhere

LEMMA AgainSInv ==
  ASSUME SInv, pc \in {"post", "reading"}, Again, UNCHANGED <<received, buffer>>
  PROVE  SInv'
<1>1. CASE pc' = "sleeping" /\ UNCHANGED <<attempt, sent>>
  BY <1>1, StillWhole, SameCut
     DEF SInv, SentType, OnlyMessagesYet, NoneAhead, NoneOfThisYet
<1>2. CASE EndWithError
  BY <1>2, EndSInv
<1> QED BY <1>1, <1>2 DEF Again

(* One turn of the inner loop.                                             *)
LEMMA SplitLineSInv == ASSUME SInv, SplitLine PROVE SInv'
<1> DEFINE n == FirstNewline(buffer)
           line == SubSeq(buffer, 1, n)
<1>1. /\ pc = "reading" /\ Newlines(buffer) # {} /\ UNCHANGED <<attempt, received>>
      /\ sent \in Seq(Event) /\ attempt \in Nat /\ received \in Nat
      /\ buffer' = SubSeq(buffer, n + 1, Len(buffer))
  BY DEF SplitLine, SInv, SentType
<1>2. PICK k \in Nat : After(k, received, buffer) /\ Forwarded(attempt, k)
  BY <1>1 DEF SInv, CutSomewhere
<1>3. /\ k + 1 \in 1..Len(Script) /\ (k + 1) * Width <= received
      /\ line = Line(k + 1)
      /\ buffer' = SubSeq(Text, (k + 1) * Width + 1, received)
  BY <1>1, <1>2, NextLine
<1>4. Reading(line) = Script[k + 1] /\ line[1].line = k + 1
  BY <1>3, LineType
<1>5. \/ Script[k + 1] = "event" /\ Emit(Message(k + 1)) /\ UNCHANGED pc
      \/ Script[k + 1] = "done" /\ Emit(DoneEvent) /\ pc' = "ended"
      \/ Script[k + 1] = "noise" /\ UNCHANGED <<sent, pc>>
  BY <1>4 DEF SplitLine
<1> HIDE DEF n, line
<1>6. After(k + 1, received, buffer') /\ k + 1 \in Nat
  <2>1. received <= Len(Text)
    BY <1>2 DEF After
  <2>2. k + 1 \in Nat
    BY <1>2
  <2> DEFINE m == k + 1
  <2>3. m \in Nat /\ m * Width <= received /\ buffer' = SubSeq(Text, m * Width + 1, received)
    BY <1>3, <2>2
  <2> HIDE DEF m
  <2>4. After(m, received, buffer')
    BY <1>1, <2>1, <2>3 DEF After
  <2> QED BY <2>2, <2>4 DEF m
<1>7. \A i \in DOMAIN sent : sent[i].event = "message" /\ sent[i].attempt <= attempt
  BY <1>1 DEF SInv, OnlyMessagesYet, NoneAhead
<1>8. /\ Message(k + 1) \in Event /\ Message(k + 1).event = "message"
      /\ Message(k + 1).attempt = attempt /\ Message(k + 1).line = k + 1
      /\ DoneEvent \in Event /\ DoneEvent.event = "done" /\ DoneEvent.attempt = attempt
  BY <1>1, <1>6 DEF Message, DoneEvent, Event
<1> HIDE DEF Event
<1>9. CASE Script[k + 1] = "event" /\ Emit(Message(k + 1)) /\ UNCHANGED pc
  <2> DEFINE e == Message(k + 1)
             L == Len(sent)
  <2>0. sent \in Seq(Event) /\ e \in Event /\ Emit(e) /\ attempt' = attempt
        /\ e.event = "message" /\ e.attempt = attempt /\ attempt \in Nat
    BY <1>1, <1>8, <1>9
  <2> HIDE DEF e
  <2>a. /\ sent' \in Seq(Event)
        /\ DOMAIN sent = 1..L /\ DOMAIN sent' = 1..(L + 1)
        /\ L \in Nat
        /\ sent'[L + 1] = e
        /\ \A i \in 1..L : sent'[i] = sent[i]
    BY <2>0, SentGrows
  <2> HIDE DEF L
  <2>b. \A i \in 1..(L + 1) : i \in 1..L \/ i = L + 1
    BY <2>a
  <2>1. /\ sent' \in Seq(Event)
        /\ \A i \in DOMAIN sent' : sent'[i].event = "message" /\ sent'[i].attempt <= attempt'
    BY <1>7, <2>0, <2>a, <2>b
  <2>2. ASSUME NEW a \in Nat, a = attempt PROVE Forwarded(a, k + 1)'
    BY <1>1, <1>2, <1>8, <1>9, <2>2, OneForwarded
  <2>3. Forwarded(attempt, k + 1)'
    BY <1>1, <2>2 DEF Forwarded
  <2>4. DoneMeansWhole'
    BY <2>1 DEF DoneMeansWhole
  <2> QED BY <1>1, <1>6, <1>9, <2>1, <2>3, <2>4
      DEF SInv, SentType, OnlyMessagesYet, NoneAhead, NoneOfThisYet, CutSomewhere
<1>10. CASE Script[k + 1] = "done" /\ Emit(DoneEvent) /\ pc' = "ended"
  <2>1. /\ sent' \in Seq(Event)
        /\ DOMAIN sent = 1..Len(sent) /\ DOMAIN sent' = 1..(Len(sent) + 1)
        /\ sent'[Len(sent) + 1] = DoneEvent /\ Len(sent) \in Nat
        /\ \A i \in 1..Len(sent) : sent'[i] = sent[i]
    BY <1>1, <1>8, <1>10, SentGrows
  <2>2. \A i \in DOMAIN sent' : /\ sent'[i].event = "done" => sent'[i].attempt = attempt
                               /\ sent'[i].attempt <= attempt'
    BY <1>1, <1>7, <1>8, <2>1
  <2>3. Forwarded(attempt, k + 1)
    BY <1>1, <1>2, <1>10, NoneForwarded
  <2>4. ASSUME NEW a \in Nat, a = attempt PROVE Forwarded(a, k + 1)'
    BY <1>1, <1>6, <1>8, <1>10, <2>3, <2>4, OthersDoNotCount
  <2>5. DoneMeansWhole'
    <3> SUFFICES ASSUME NEW i \in DOMAIN sent', sent'[i].event = "done"
                 PROVE  Script[k + 1] = "done" /\ Forwarded(sent[i].attempt, k + 1)'
      BY <1>3 DEF DoneMeansWhole
    <3> QED BY <1>1, <1>10, <2>2, <2>4 DEF Forwarded
  <2>6. Forwarded(attempt, k + 1)'
    BY <1>1, <2>4 DEF Forwarded
  <2> QED BY <1>1, <1>6, <1>10, <2>1, <2>2, <2>5, <2>6
      DEF SInv, SentType, OnlyMessagesYet, NoneAhead, NoneOfThisYet, CutSomewhere
<1>11. CASE Script[k + 1] = "noise" /\ UNCHANGED <<sent, pc>>
  <2>1. Forwarded(attempt, k + 1)'
    <3>1. Forwarded(attempt, k + 1)
      BY <1>2, <1>11, NoneForwarded
    <3> QED BY <1>1, <1>11, <3>1 DEF Forwarded
  <2> QED BY <1>1, <1>6, <1>11, <2>1, StillWhole
      DEF SInv, SentType, OnlyMessagesYet, NoneAhead, NoneOfThisYet, CutSomewhere
<1> QED BY <1>5, <1>9, <1>10, <1>11

LEMMA NothingRead == After(0, 0, <<>>)
<1>1. 0 * Width = 0 /\ 0 <= Len(Text)
  BY TextType, WidthAssumption
<1>2. SubSeq(Text, 1, 0) = <<>>
  BY TextType
<1> QED BY <1>1, <1>2 DEF After

LEMMA InitSInv == ASSUME Init PROVE SInv
<1>1. Forwarded(attempt, 0)
  BY DEF Init, Forwarded
<1>2. CutSomewhere
  BY <1>1, NothingRead DEF Init, CutSomewhere
<1> QED BY <1>2 DEF Init, SInv, SentType, OnlyMessagesYet, NoneAhead, NoneOfThisYet, DoneMeansWhole

LEMMA NextSInv == ASSUME SInv, [Next]_vars PROVE SInv'
<1> USE DEF SentType, OnlyMessagesYet, NoneAhead, NoneOfThisYet
<1>1. CASE Refused
  BY <1>1, AgainSInv, EndSInv DEF Refused
<1>2. CASE Breaks
  BY <1>2, AgainSInv, EndSInv DEF Breaks
<1>3. CASE SplitLine
  BY <1>3, SplitLineSInv
<1>4. CASE Accepted
  <2>1. /\ pc = "post" /\ pc' = "reading" /\ received' = 0 /\ buffer' = <<>>
        /\ UNCHANGED <<attempt, sent>>
    BY <1>4 DEF Accepted
  <2>2. Forwarded(attempt, 0)
    BY <2>1 DEF SInv, Forwarded
  <2>3. Forwarded(attempt, 0)'
    BY <2>1, <2>2 DEF Forwarded
  <2>4. CutSomewhere'
    BY <2>1, <2>3, NothingRead DEF CutSomewhere
  <2> QED BY <2>1, <2>4, StillWhole DEF SInv
<1>5. CASE Chunk
  <2>1. PICK n \in 1..MaxChunk :
          /\ received + n <= Len(Text) /\ received' = received + n
          /\ buffer' = buffer \o SubSeq(Text, received + 1, received + n)
    BY <1>5 DEF Chunk
  <2>2. pc = "reading" /\ UNCHANGED <<pc, attempt, sent>> /\ n \in Nat
    BY <1>5, WidthAssumption DEF Chunk
  <2>3. PICK k \in Nat : After(k, received, buffer) /\ Forwarded(attempt, k)
    BY DEF SInv, CutSomewhere
  <2>4. After(k, received', buffer')
    BY <2>1, <2>2, <2>3, ReceivedMore
  <2>5. Forwarded(attempt, k)'
    BY <2>2, <2>3 DEF Forwarded
  <2> QED BY <2>1, <2>2, <2>4, <2>5, StillWhole DEF SInv, CutSomewhere
<1>6. CASE EndOfStream \/ Disconnect
  BY <1>6, StillWhole, SameCut DEF EndOfStream, Disconnect, SInv
<1>7. CASE Wake
  <2>1. /\ pc = "sleeping" /\ pc' = "post" /\ attempt' = attempt + 1 /\ received' = 0
        /\ UNCHANGED sent
    BY <1>7 DEF Wake
  <2>2. \A i \in DOMAIN sent : sent[i].attempt \in Nat /\ sent[i].attempt <= attempt
    <3>1. \A i \in DOMAIN sent : sent[i] \in Event /\ sent[i].attempt <= attempt
      BY DEF SInv
    <3>2. \A e \in Event : e.attempt \in Nat
      BY DEF Event
    <3> QED BY <3>1, <3>2
  <2>3. \A i \in DOMAIN sent : sent[i].attempt <= attempt' /\ sent[i].attempt < attempt'
    BY <2>1, <2>2 DEF SInv
  <2>4. Forwarded(attempt, 0)'
    BY <2>1, <2>3 DEF Forwarded
  <2>5. buffer' = <<>>
    BY <1>7 DEF Wake
  <2>6. CutSomewhere'
    BY <2>1, <2>4, <2>5, NothingRead DEF CutSomewhere
  <2> QED BY <2>1, <2>3, <2>6, StillWhole DEF SInv
<1>8. CASE UNCHANGED vars
  <2>1. CutSomewhere'
    BY <1>8, SameCut DEF vars, SInv
  <2> QED BY <1>8, <2>1, StillWhole DEF vars, SInv
<1> QED BY <1>1, <1>2, <1>3, <1>4, <1>5, <1>6, <1>7, <1>8 DEF Next

LEMMA ForwardInvariance == Spec => []SInv
<1>1. Init => SInv
  BY InitSInv
<1>2. SInv /\ [Next]_vars => SInv'
  BY NextSInv
<1> QED BY <1>1, <1>2, PTL DEF Spec

(* However the answer is cut into chunks, whatever it says and however     *)
(* wide its lines are: the events forwarded in an attempt are those of the *)
(* lines that have left the buffer, each once and in order, and they still *)
(* are when the stream has ended (the inner loop of                        *)
(* stream_chat_completion).                                                *)
THEOREM NoEventIsLost == Spec => []NothingLostInChunks
<1>1. SInv => NothingLostInChunks
  <2> SUFFICES ASSUME SInv
               PROVE  Forwarded(attempt, (received \div Width) - Cardinality(Newlines(buffer)))
    BY DEF NothingLostInChunks
  <2>1. PICK k \in Nat : After(k, received, buffer) /\ Forwarded(attempt, k)
    BY DEF SInv, CutSomewhere
  <2>2. (received \div Width) - Cardinality(Newlines(buffer)) = k
    BY <2>1, LinesGone
  <2> QED BY <2>1, <2>2
<1> QED BY <1>1, ForwardInvariance, PTL

(* A client that is told "done" has every event that stands before [DONE], *)
(* all from one attempt, whatever earlier attempts had forwarded.          *)
THEOREM DoneIsWhole == Spec => []DoneMeansWhole
<1>1. SInv => DoneMeansWhole
  BY DEF SInv
<1> QED BY <1>1, ForwardInvariance, PTL
=============================================================================
