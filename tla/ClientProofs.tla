----------------------------- MODULE ClientProofs -----------------------------
(***************************************************************************)
(* Proofs about the client: no post of the semaphore is left over, the two *)
(* ends agree on the session, and before the first login nothing that TCP  *)
(* keeps together ends either side.                                        *)
(***************************************************************************)
EXTENDS ChatClient, Counting

-----------------------------------------------------------------------------
\* The inductive invariant

\* A stream between two reads: whole texts behind one another, each maybe with its
\* line end, and the line end of one that was read maybe at the front.
Follows(p, q) == q.text = p.text /\ q.of = p.of /\ q.part = p.part + 1

Stream(s) ==
  /\ \A i \in 1..Len(s) : s[i].part <= s[i].of + 1
  /\ s # <<>> => s[1].part = 1 \/ s[1].part = s[1].of + 1
  /\ \A i \in 1..Len(s) : s[i].part < s[i].of => i < Len(s)
  /\ \A i \in 1..Len(s) : i < Len(s) =>
       Follows(s[i], s[i + 1]) \/ (s[i].part >= s[i].of /\ s[i + 1].part = 1)

\* A request has two parts and no line end.  What an exited client left unread
\* does not matter.
Streams ==
  /\ Stream(requests)
  /\ \A i \in 1..Len(requests) : requests[i].of = 2 /\ requests[i].part <= 2
  /\ main # "exited" => Stream(replies)

Hung == closed => ~session /\ requests = <<>>

\* The request the main thread waits for is the last one sent and the only one
\* that will be answered; its answer comes when no request is left, and so does
\* the post of the semaphore, which comes after the answer.
Awaits(request) == main = IF request = "reg" THEN "reg_wait" ELSE "login_wait"
Answer(p) == p.text.to \in Asked /\ p.part <= p.of

AskedOnce ==
  main # "exited" =>
    /\ \A i \in 1..Len(requests) : requests[i].text \in Asked =>
         i + 1 >= Len(requests) /\ Awaits(requests[i].text) /\ sem = 0
    /\ \A i \in 1..Len(replies) : Answer(replies[i]) =>
         Awaits(replies[i].text.to) /\ sem = 0 /\ requests = <<>>
    /\ \A i, j \in 1..Len(replies) : Answer(replies[i]) /\ Answer(replies[j]) =>
         i + replies[j].part = j + replies[i].part /\ replies[i].of = replies[j].of
    /\ sem <= 1
    /\ sem = 1 => /\ main \in Waiting /\ requests = <<>>
                  /\ \A i \in 1..Len(replies) : ~Answer(replies[i])

\* What each of them knows of the session: a logout is on its way while a session
\* outlives the main menu; and what the answer says was so when it was given and
\* is so still.
LogoutSent == \E i \in 1..Len(requests) : requests[i].text = "logout"

SessionKnown ==
  main # "exited" =>
    /\ main = "main_menu" => (session \/ closed) /\ ~LogoutSent
    /\ main = "menu" /\ session => LogoutSent
    /\ main \in Waiting /\ requests # <<>> /\ session => LogoutSent
    /\ \A i \in 1..Len(replies) : Answer(replies[i]) =>
         IF replies[i].text = [to |-> "login", ok |-> TRUE] THEN session \/ closed ELSE ~session
    /\ sem = 1 => IF main = "login_wait" /\ logedIn THEN session \/ closed ELSE ~session

\* Before the first login is granted there is one request or one answer at most.
Short(p) == p.text.to \in Asked /\ p.of = 2 /\ p.text # [to |-> "login", ok |-> TRUE]

OneAtATime ==
  ~granted =>
    /\ ~session /\ ~logedIn /\ main # "main_menu"
    /\ Len(requests) <= 2 /\ \A i \in 1..Len(requests) : requests[i].text \in Asked
    /\ \A i \in 1..Len(replies) : Short(replies[i])
    /\ main # "exited" /\ ~split /\ replies # <<>> =>
         Len(replies) = 3 /\ replies[1].part = 1

ClientInv ==
  /\ ClientTypeOK /\ Streams /\ Hung /\ AskedOnce /\ SessionKnown /\ OneAtATime
  /\ AbortsExplained
-----------------------------------------------------------------------------
\* Streams

LEMMA PartType ==
  ASSUME NEW T, NEW s \in Seq(Parts(T)), NEW i \in 1..Len(s)
  PROVE  /\ s[i] \in Parts(T) /\ s[i].text \in T
         /\ s[i].part \in Nat \ {0} /\ s[i].part <= 5 /\ s[i].of \in {2, 4}
<1>1. s[i] \in Parts(T)
  OBVIOUS
<1>2. QED
  BY <1>1 DEF Parts

LEMMA BodyFirst ==
  ASSUME NEW T, NEW s \in Seq(Parts(T)), Body(s) # {}
  PROVE  /\ First(s) \in Body(s) /\ First(s) \in 1..Len(s)
         /\ \A j \in Body(s) : First(s) <= j
<1>1. Body(s) \in SUBSET Nat
  BY DEF Body
<1>2. \E i \in Body(s) : \A j \in Body(s) : i <= j
  BY <1>1, LeastNatural
<1>3. First(s) \in Body(s) /\ \A j \in Body(s) : First(s) <= j
  BY <1>2 DEF First
<1>4. QED
  BY <1>3 DEF Body

\* A text that begins is there to its end.
LEMMA TextStands ==
  ASSUME NEW T, NEW s \in Seq(Parts(T)), Stream(s), NEW f \in 1..Len(s), s[f].part = 1
  PROVE  /\ f + s[f].of - 1 <= Len(s)
         /\ \A i \in f..f + s[f].of - 1 :
              s[i].text = s[f].text /\ s[i].of = s[f].of /\ s[i].part = i - f + 1
<1> DEFINE of == s[f].of
           Is(i, p) == /\ i \in 1..Len(s)
                       /\ s[i].text = s[f].text /\ s[i].of = of /\ s[i].part = p
<1>1. of \in {2, 4} /\ Len(s) \in Nat /\ f \in Nat
  BY PartType
<1>2. ASSUME NEW i, NEW p \in 1..3, Is(i, p), p < of PROVE Is(i + 1, p + 1)
  <2>1. i \in 1..Len(s) /\ s[i].part < s[i].of
    BY <1>2
  <2>2. i < Len(s) /\ i + 1 \in 1..Len(s)
    BY <1>1, <2>1 DEF Stream
  <2>3. Follows(s[i], s[i + 1])
    BY <1>1, <1>2, <2>1, <2>2 DEF Stream
  <2>4. QED
    BY <1>2, <2>2, <2>3 DEF Follows
<1>3. Is(f, 1)
  OBVIOUS
<1>4. Is(f + 1, 2)
  BY <1>1, <1>2, <1>3
<1>5. of = 4 => Is(f + 2, 3)
  <2>1. of = 4 => Is((f + 1) + 1, 2 + 1)
    <3> SUFFICES ASSUME of = 4 PROVE Is((f + 1) + 1, 2 + 1)
      OBVIOUS
    <3>1. Is(f + 1, 2) /\ 2 \in 1..3 /\ 2 < of
      BY <1>4
    <3> HIDE DEF Is, of
    <3>2. QED
      BY <1>2, <3>1
  <2>2. (f + 1) + 1 = f + 2 /\ 2 + 1 = 3
    BY <1>1
  <2>3. QED
    BY <2>1, <2>2
<1>6. of = 4 => Is(f + 3, 4)
  <2>1. of = 4 => Is((f + 2) + 1, 3 + 1)
    <3> SUFFICES ASSUME of = 4 PROVE Is((f + 2) + 1, 3 + 1)
      OBVIOUS
    <3>1. Is(f + 2, 3) /\ 3 \in 1..3 /\ 3 < of
      BY <1>5
    <3> HIDE DEF Is, of
    <3>2. QED
      BY <1>2, <3>1
  <2>2. (f + 2) + 1 = f + 3
    BY <1>1
  <2>3. QED
    BY <2>1, <2>2
<1>7. CASE of = 2
  <2>1. \A i \in f..f + 1 : i = f \/ i = f + 1
    BY <1>1
  <2>2. f + of - 1 = f + 1 /\ f - f + 1 = 1 /\ (f + 1) - f + 1 = 2
    BY <1>1, <1>7
  <2>3. f + 1 <= Len(s)
    BY <1>1, <1>4
  <2>4. \A i \in f..f + 1 : s[i].text = s[f].text /\ s[i].of = of /\ s[i].part = i - f + 1
    BY <1>3, <1>4, <2>1, <2>2
  <2>5. QED
    BY <2>2, <2>3, <2>4
<1>8. CASE of = 4
  <2>1. \A i \in f..f + 3 : i = f \/ i = f + 1 \/ i = f + 2 \/ i = f + 3
    BY <1>1
  <2>2. /\ f + of - 1 = f + 3 /\ f - f + 1 = 1 /\ (f + 1) - f + 1 = 2
        /\ (f + 2) - f + 1 = 3 /\ (f + 3) - f + 1 = 4
    BY <1>1, <1>8
  <2>3. f + 3 <= Len(s)
    BY <1>1, <1>6, <1>8
  <2>4. \A i \in f..f + 3 : s[i].text = s[f].text /\ s[i].of = of /\ s[i].part = i - f + 1
    BY <1>3, <1>4, <1>5, <1>6, <1>8, <2>1, <2>2
  <2>5. QED
    BY <2>2, <2>3, <2>4
<1>9. QED
  BY <1>1, <1>7, <1>8

\* What a read leaves of a stream.
LEMMA RestOf ==
  ASSUME NEW S, NEW s \in Seq(S), NEW k \in 1..Len(s)
  PROVE  LET rest == SubSeq(s, k + 1, Len(s))
         IN /\ rest \in Seq(S) /\ Len(rest) = Len(s) - k
            /\ \A i \in 1..Len(rest) : i + k \in 1..Len(s) /\ rest[i] = s[i + k]
OBVIOUS

LEMMA FrontOf ==
  ASSUME NEW S, NEW s \in Seq(S), NEW k \in 1..Len(s)
  PROVE  LET front == SubSeq(s, 1, k)
         IN /\ front \in Seq(S) /\ Len(front) = k
            /\ \A i \in 1..k : front[i] = s[i]
OBVIOUS

\* What json::parse accepts of a stream is its first text, with the line ends around
\* it; and what it leaves is a stream again.
LEMMA WholeRead ==
  ASSUME NEW T, NEW s \in Seq(Parts(T)), Stream(s), NEW k \in 1..Len(s),
         Whole(SubSeq(s, 1, k))
  PROVE  \E f \in 1..k :
           /\ f = 1 \/ (f = 2 /\ s[1].part = s[1].of + 1)
           /\ s[f].part = 1 /\ TextOf(SubSeq(s, 1, k)) = s[f].text
           /\ \A i \in f..k : /\ s[i].text = s[f].text /\ s[i].of = s[f].of
                              /\ s[i].part = i - f + 1
           /\ k = f + s[f].of - 1 \/ k = f + s[f].of
           /\ Stream(SubSeq(s, k + 1, Len(s)))
<1> DEFINE front == SubSeq(s, 1, k)
           rest == SubSeq(s, k + 1, Len(s))
           f == First(front)
           of == s[f].of
           B == Body(front)
<1>1. /\ front \in Seq(Parts(T)) /\ Len(front) = k /\ \A i \in 1..k : front[i] = s[i]
      /\ k \in Nat /\ Len(s) \in Nat /\ k <= Len(s)
  BY FrontOf
<1>2. /\ rest \in Seq(Parts(T)) /\ Len(rest) = Len(s) - k
      /\ \A i \in 1..Len(rest) : i + k \in 1..Len(s) /\ rest[i] = s[i + k]
  BY RestOf
<1>3. \A i \in 1..Len(s) : /\ s[i].part \in Nat \ {0} /\ s[i].of \in {2, 4}
                           /\ s[i].part <= s[i].of + 1
                           /\ i < Len(s) => \/ Follows(s[i], s[i + 1])
                                            \/ s[i].part >= s[i].of /\ s[i + 1].part = 1
  BY PartType DEF Stream
<1> HIDE DEF front, rest
<1>4. B = {i \in 1..k : s[i].part <= s[i].of}
  BY <1>1 DEF Body
<1>5. /\ B # {} /\ front[f].part = 1 /\ Cardinality(B) = front[f].of
  BY DEF Whole, front
<1>6. f \in B /\ f \in 1..k /\ \A j \in B : f <= j
  BY <1>1, <1>5, BodyFirst
<1>7. s[f].part = 1 /\ Cardinality(B) = of /\ front[f] = s[f]
  BY <1>1, <1>5, <1>6
<1> HIDE DEF f, B
<1>8. f \in 1..Len(s) /\ f \in Nat /\ of \in {2, 4}
  BY <1>1, <1>3, <1>6
<1>9. f = 1 \/ (f = 2 /\ s[1].part = s[1].of + 1)
  <2>1. 1 \in 1..Len(s) /\ 1 \in 1..k
    BY <1>1
  <2>2. s[1].part = 1 \/ s[1].part = s[1].of + 1
    BY <2>1 DEF Stream
  <2>3. CASE s[1].part = 1
    <3>1. 1 \in B
      BY <1>3, <1>4, <2>1, <2>3
    <3>2. QED
      BY <1>6, <1>8, <3>1
  <2>4. CASE s[1].part = s[1].of + 1
    <3>1. 1 \notin B
      BY <1>3, <1>4, <2>1, <2>4
    <3>2. f >= 2 /\ 1 < Len(s) /\ 2 \in 1..k /\ 2 \in 1..Len(s)
      BY <1>1, <1>6, <1>8, <3>1
    <3>3. ~Follows(s[1], s[1 + 1])
      <4>1. s[2].part <= s[2].of + 1
        BY <1>3, <3>2
      <4>2. Follows(s[1], s[2]) => s[2].part = s[2].of + 2
        BY <1>3, <2>1, <2>4 DEF Follows
      <4>3. s[2].of \in {2, 4}
        BY <1>3, <3>2
      <4>4. QED
        BY <4>1, <4>2, <4>3
    <3>4. s[2].part = 1
      BY <1>3, <2>1, <3>2, <3>3
    <3>5. 2 \in B
      BY <1>3, <1>4, <3>2, <3>4
    <3>6. QED
      BY <1>6, <1>8, <2>4, <3>2, <3>5
  <2>5. QED
    BY <2>2, <2>3, <2>4
<1> DEFINE l == f + of - 1
<1>10. /\ l <= Len(s) /\ l \in Nat
       /\ \A i \in f..l : s[i].text = s[f].text /\ s[i].of = of /\ s[i].part = i - f + 1
  BY <1>7, <1>8, TextStands
<1> HIDE DEF of
<1>11. IsFiniteSet(B) /\ Cardinality(f..l) = of /\ IsFiniteSet(f..l)
  <2>1. B \in SUBSET (1..k)
    BY <1>4
  <2>2. f \in Int /\ l \in Int /\ f <= l /\ l - f + 1 = of
    BY <1>8, <1>10
  <2>3. IsFiniteSet(f..l) /\ Cardinality(f..l) = l - f + 1
    BY <2>2, FS_Interval
  <2>4. QED
    BY <1>1, <2>1, <2>2, <2>3, PlacesFinite
\* It ends no earlier than the text does ...
<1>12. l <= k
  <2> SUFFICES ASSUME k < l PROVE FALSE
    BY <1>1, <1>10
  <2>1. B \subseteq f..k /\ f \in Int /\ k \in Int /\ f <= k
    BY <1>1, <1>4, <1>6
  <2>2. IsFiniteSet(f..k) /\ Cardinality(f..k) = k - f + 1
    BY <2>1, FS_Interval
  <2>3. Cardinality(B) <= Cardinality(f..k)
    BY <2>1, <2>2, FS_Subset
  <2>4. k - f + 1 < of
    BY <1>8, <1>10, <2>1
  <2>5. QED
    BY <1>7, <1>8, <2>1, <2>2, <2>3, <2>4
\* ... and what comes after it is no part of another.
<1>13. f..l \subseteq B
  <2>1. \A i \in f..l : i \in 1..k /\ s[i].part <= s[i].of
    BY <1>1, <1>8, <1>10, <1>12
  <2>2. QED
    BY <1>4, <2>1
<1>14. B = f..l
  BY <1>7, <1>11, <1>13, FS_Subset
<1>15. ASSUME NEW i \in 1..k, i > l PROVE s[i].part = s[i].of + 1
  <2>1. i \notin B /\ i \in 1..Len(s)
    BY <1>1, <1>10, <1>14, <1>15
  <2>2. s[i].part > s[i].of
    BY <1>3, <1>4, <1>15, <2>1, SMTT(30)
  <2>3. s[i].part \in Nat /\ s[i].of \in Nat /\ s[i].part <= s[i].of + 1
    BY <1>3, <2>1
  <2>4. \A p, q \in Nat : p <= q + 1 /\ p > q => p = q + 1
    OBVIOUS
  <2>5. QED
    BY <2>2, <2>3, <2>4
<1>16. ASSUME l < k
       PROVE  k = l + 1 /\ Follows(s[l], s[l + 1]) /\ s[l + 1].part = of + 1
  <2>1. l \in 1..Len(s) /\ l < Len(s) /\ l + 1 \in 1..k /\ l + 1 \in 1..Len(s)
    BY <1>1, <1>8, <1>10, <1>16
  <2>2. s[l + 1].part = s[l + 1].of + 1
    BY <1>10, <1>15, <2>1
  <2>a. s[l + 1].of \in {2, 4} /\ s[l + 1].part # 1
    BY <1>3, <2>1, <2>2
  <2>3. Follows(s[l], s[l + 1])
    BY <1>3, <2>1, <2>a
  <2>4. s[l].of = of
    BY <1>8, <1>10
  <2>5. s[l + 1].part = of + 1
    BY <2>2, <2>3, <2>4 DEF Follows
  <2>6. ASSUME k > l + 1 PROVE FALSE
    <3>1. l + 1 < Len(s) /\ (l + 1) + 1 \in 1..k /\ (l + 1) + 1 > l /\ (l + 1) + 1 \in 1..Len(s)
      BY <1>1, <1>10, <2>6
    <3>2. s[(l + 1) + 1].part = s[(l + 1) + 1].of + 1 /\ s[(l + 1) + 1].of \in {2, 4}
      BY <1>3, <1>15, <3>1
    <3>3. Follows(s[l + 1], s[(l + 1) + 1])
      BY <1>3, <2>1, <3>1, <3>2
    <3>a. s[(l + 1) + 1].part = s[l + 1].part + 1 /\ s[(l + 1) + 1].of = s[l + 1].of
      BY <3>3 DEF Follows
    <3>4. s[(l + 1) + 1].part = s[(l + 1) + 1].of + 2
      BY <2>2, <2>a, <3>a
    <3>5. QED
      BY <3>2, <3>4
  <2>7. QED
    BY <1>1, <1>10, <1>16, <2>3, <2>5, <2>6
<1>17. \A i \in f..k : s[i].text = s[f].text /\ s[i].of = of /\ s[i].part = i - f + 1
  <2> SUFFICES ASSUME NEW i \in f..k
               PROVE  s[i].text = s[f].text /\ s[i].of = of /\ s[i].part = i - f + 1
    OBVIOUS
  <2>1. CASE i <= l
    BY <1>8, <1>10, <2>1
  <2>2. CASE i > l
    <3>1. l < k /\ i = l + 1
      BY <1>1, <1>8, <1>10, <1>16, <2>2
    <3>2. l \in f..l
      BY <1>8, <1>10 DEF of
    <3>3. s[l].text = s[f].text /\ s[l].of = of
      BY <1>10, <3>2
    <3>4. s[i].text = s[f].text /\ s[i].of = of /\ s[i].part = of + 1
      BY <1>16, <3>1, <3>3 DEF Follows
    <3>5. i - f + 1 = of + 1
      BY <1>8, <1>10, <3>1
    <3>6. QED
      BY <3>4, <3>5
  <2>3. QED
    BY <1>8, <1>10, <2>1, <2>2
<1>18. k = l \/ k = l + 1
  BY <1>1, <1>10, <1>12, <1>16
<1>19. s[k].part = k - f + 1 /\ s[k].of = of /\ k \in 1..Len(s)
  BY <1>1, <1>6, <1>8, <1>17
<1>20. s[k].part >= s[k].of
  BY <1>1, <1>8, <1>10, <1>18, <1>19
<1>21. Stream(rest)
  <2>1. \A i \in 1..Len(rest) : rest[i].part <= rest[i].of + 1
    BY <1>2, <1>3
  <2>2. ASSUME rest # <<>> PROVE rest[1].part = 1 \/ rest[1].part = rest[1].of + 1
    <3>1. 1 \in 1..Len(rest) /\ k < Len(s) /\ k + 1 = 1 + k
      BY <1>1, <1>2, <2>2
    <3>2. rest[1] = s[k + 1] /\ k + 1 \in 1..Len(s)
      BY <1>2, <3>1
    <3>3. CASE s[k + 1].part = 1
      BY <3>2, <3>3
    <3>4. CASE Follows(s[k], s[k + 1])
      <4>1. s[k + 1].part <= s[k + 1].of + 1 /\ s[k + 1].of \in {2, 4}
        BY <1>3, <3>2
      <4>2. s[k + 1].part > s[k + 1].of
        BY <1>3, <1>19, <1>20, <3>4 DEF Follows
      <4>3. s[k + 1].part \in Nat
        BY <1>3, <3>2
      <4>4. \A p, q \in Nat : p <= q + 1 /\ p > q => p = q + 1
        OBVIOUS
      <4>5. s[k + 1].of \in Nat
        BY <4>1
      <4>6. QED
        BY <3>2, <4>1, <4>2, <4>3, <4>4, <4>5
    <3>5. QED
      BY <1>3, <1>19, <3>1, <3>3, <3>4
  <2>3. ASSUME NEW i \in 1..Len(rest), rest[i].part < rest[i].of PROVE i < Len(rest)
    <3>1. i + k \in 1..Len(s) /\ rest[i] = s[i + k]
      BY <1>2
    <3>2. i + k < Len(s)
      BY <2>3, <3>1 DEF Stream
    <3>3. QED
      BY <1>1, <1>2, <3>2
  <2>4. ASSUME NEW i \in 1..Len(rest), i < Len(rest)
        PROVE  Follows(rest[i], rest[i + 1]) \/ (rest[i].part >= rest[i].of /\ rest[i + 1].part = 1)
    <3>1. i + k \in 1..Len(s) /\ rest[i] = s[i + k] /\ i + k < Len(s)
      BY <1>1, <1>2, <2>4
    <3>2. i + 1 \in 1..Len(rest) /\ (i + 1) + k = (i + k) + 1
      BY <1>1, <1>2, <2>4
    <3>3. rest[i + 1] = s[(i + k) + 1]
      BY <1>2, <3>2
    <3>4. QED
      BY <1>3, <3>1, <3>3
  <2>5. QED
    BY <2>1, <2>2, <2>3, <2>4 DEF Stream
<1>22. TextOf(front) = s[f].text
  BY <1>7 DEF TextOf, f
<1>23. k = f + of - 1 \/ k = f + of
  BY <1>8, <1>18
<1>24. QED
  BY <1>6, <1>7, <1>9, <1>17, <1>21, <1>22, <1>23 DEF of, rest, front

\* What one send() appends.
LEMMA SentType ==
  ASSUME NEW T, NEW text \in T, NEW of \in {2, 4}, NEW ends \in {0, 1}
  PROVE  /\ Sent(text, of, ends) \in Seq(Parts(T))
         /\ Len(Sent(text, of, ends)) = of + ends
         /\ \A i \in 1..of + ends :
              Sent(text, of, ends)[i] = [text |-> text, part |-> i, of |-> of]
<1>1. of + ends \in Nat /\ \A i \in 1..of + ends : i \in 1..5
  OBVIOUS
<1>2. \A i \in 1..of + ends : [text |-> text, part |-> i, of |-> of] \in Parts(T)
  BY <1>1 DEF Parts
<1>3. QED
  BY <1>1, <1>2 DEF Sent

LEMMA ConcatAt ==
  ASSUME NEW S, NEW p \in Seq(S), NEW q \in Seq(S)
  PROVE  /\ p \o q \in Seq(S) /\ Len(p \o q) = Len(p) + Len(q)
         /\ \A i \in 1..Len(p) : (p \o q)[i] = p[i]
         /\ \A i \in 1..Len(p) + Len(q) : i > Len(p) =>
              i - Len(p) \in 1..Len(q) /\ (p \o q)[i] = q[i - Len(p)]
OBVIOUS

LEMMA StreamSent ==
  ASSUME NEW T, NEW s \in Seq(Parts(T)), Stream(s),
         NEW text \in T, NEW of \in {2, 4}, NEW ends \in {0, 1}
  PROVE  LET t == s \o Sent(text, of, ends)
         IN /\ t \in Seq(Parts(T)) /\ Stream(t) /\ Len(t) = Len(s) + of + ends
            /\ \A i \in 1..Len(s) : t[i] = s[i]
            /\ \A i \in 1..Len(t) : i > Len(s) =>
                 t[i] = [text |-> text, part |-> i - Len(s), of |-> of]
<1> DEFINE e == Sent(text, of, ends)
           t == s \o e
           n == Len(s)
           m == of + ends
<1>1. /\ e \in Seq(Parts(T)) /\ Len(e) = m
      /\ \A i \in 1..m : e[i] = [text |-> text, part |-> i, of |-> of]
  BY SentType, ZenonT(60)
<1> HIDE DEF e
<1>2. /\ n \in Nat /\ m \in Nat /\ t \in Seq(Parts(T)) /\ Len(t) = n + m
      /\ \A i \in 1..n : t[i] = s[i]
      /\ \A i \in 1..n + m : i > n => i - n \in 1..m /\ t[i] = e[i - n]
  BY <1>1, ConcatAt
<1>3. /\ of \in Nat /\ m \in {of, of + 1} /\ of >= 2
      /\ \A i \in 1..n + m : i > n => t[i] = [text |-> text, part |-> i - n, of |-> of]
  <2>1. of \in Nat /\ m \in {of, of + 1} /\ of >= 2
    OBVIOUS
  <2> HIDE DEF t, n, m
  <2>2. QED
    BY <1>1, <1>2, <2>1
<1> HIDE DEF t, n, m
<1>a. \A i \in 1..n + m : i > n =>
         t[i].text = text /\ t[i].part = i - n /\ t[i].of = of /\ i - n \in Nat /\ i - n <= m
  BY <1>2, <1>3
<1>4. \A i \in 1..n : /\ s[i].part \in Nat /\ s[i].of \in {2, 4} /\ s[i].part <= s[i].of + 1
                      /\ s[i].part < s[i].of => i < n
                      /\ i < n => Follows(s[i], s[i + 1])
                                    \/ (s[i].part >= s[i].of /\ s[i + 1].part = 1)
  BY PartType DEF Stream, n
<1>5. ASSUME NEW i \in 1..n + m PROVE t[i].part <= t[i].of + 1
  <2>1. CASE i <= n
    <3>1. i \in 1..n
      BY <1>2, <2>1
    <3>2. t[i] = s[i] /\ s[i].part <= s[i].of + 1
      BY <1>2, <1>4, <3>1
    <3>3. QED
      BY <3>2
  <2>2. CASE i > n
    <3>1. t[i].part = i - n /\ t[i].of = of /\ i - n \in Nat /\ i - n <= m
      BY <1>a, <2>2
    <3>2. m <= of + 1
      BY <1>3
    <3>3. QED
      BY <1>2, <1>3, <3>1, <3>2
  <2>3. QED
    BY <1>2, <2>1, <2>2
<1>6. t[1].part = 1 \/ t[1].part = t[1].of + 1
  <2>1. CASE n = 0
    <3>1. 1 \in 1..n + m /\ 1 > n /\ 1 - n = 1
      BY <1>2, <1>3, <2>1
    <3>2. QED
      BY <1>a, <3>1
  <2>2. CASE n # 0
    <3>1. 1 \in 1..n /\ s # <<>>
      BY <1>2, <2>2 DEF n
    <3>2. QED
      BY <1>2, <3>1 DEF Stream
  <2>3. QED
    BY <2>1, <2>2
<1>7. ASSUME NEW i \in 1..n + m, t[i].part < t[i].of PROVE i < n + m
  <2>1. CASE i <= n
    BY <1>2, <1>3, <2>1
  <2>2. CASE i > n
    BY <1>2, <1>3, <1>7, <1>a, <2>2
  <2>3. QED
    BY <1>2, <2>1, <2>2
<1>8. ASSUME NEW i \in 1..n + m, i < n + m
      PROVE  Follows(t[i], t[i + 1]) \/ (t[i].part >= t[i].of /\ t[i + 1].part = 1)
  <2>1. i + 1 \in 1..n + m
    BY <1>2, <1>8
  <2>2. CASE i < n
    <3>1. i \in 1..n /\ i + 1 \in 1..n
      BY <1>2, <2>2
    <3>2. QED
      BY <1>2, <1>4, <2>2, <3>1
  <2>3. CASE i = n
    <3>1. i \in 1..n /\ ~(i < n) /\ i + 1 > n /\ (i + 1) - n = 1
      BY <1>2, <2>3
    <3>2. t[i] = s[i] /\ s[i].part >= s[i].of
      <4>1. t[i] = s[i]
        BY <1>2, <3>1
      <4>2. s[i].part \in Nat /\ s[i].of \in {2, 4} /\ ~(s[i].part < s[i].of)
        BY <1>4, <3>1
      <4>3. \A p \in Nat, q \in {2, 4} : ~(p < q) => p >= q
        OBVIOUS
      <4>4. QED
        BY <4>1, <4>2, <4>3
    <3>3. t[i + 1].part = 1
      BY <1>a, <2>1, <3>1
    <3>4. QED
      BY <3>2, <3>3
  <2>4. CASE i > n
    <3>1. i + 1 > n /\ (i + 1) - n = (i - n) + 1
      BY <1>2, <2>4
    <3>2. QED
      BY <1>a, <2>1, <2>4, <3>1 DEF Follows
  <2>5. QED
    BY <1>2, <2>2, <2>3, <2>4
<1>9. Stream(t)
  BY <1>2, <1>5, <1>6, <1>7, <1>8 DEF Stream
<1>10. Len(t) = n + of + ends
  BY <1>2 DEF m
<1>11. QED
  BY <1>2, <1>3, <1>9, <1>10 DEF t, n, m, e

\* An answer of three parts, or a request of two, read to its end is whole.
LEMMA WholeShort ==
  ASSUME NEW T, NEW s \in Seq(Parts(T)), Stream(s), s # <<>>, s[1].part = 1,
         s[1].of = 2, Len(s) \in {2, 3}, Len(s) = 3 => s[3].part # 1
  PROVE  Whole(s)
<1> DEFINE n == Len(s)
<1>n. n = 2 \/ n = 3
  OBVIOUS
<1> HIDE DEF n
<1>m. \A i \in 1..n : i = 1 \/ i = 2 \/ (i = 3 /\ n = 3)
  BY <1>n
<1>1. 1 \in 1..Len(s) /\ 2 \in 1..Len(s)
  <2>1. 1 \in 1..n /\ 2 \in 1..n
    BY <1>n
  <2>2. QED
    BY <2>1 DEF n
<1>2. s[2].part = 2 /\ s[2].of = 2
  <2>1. s[1].of - 1 = 1 /\ 2 \in 1..1 + s[1].of - 1 /\ 2 - 1 + 1 = 2
    OBVIOUS
  <2>2. QED
    BY <1>1, <2>1, TextStands
<1>3. Len(s) = 3 => ~(s[3].part <= s[3].of)
  <2> SUFFICES ASSUME Len(s) = 3 PROVE ~(s[3].part <= s[3].of)
    OBVIOUS
  <2>1. 2 < Len(s) /\ 2 + 1 = 3
    OBVIOUS
  <2>2. Follows(s[2], s[3])
    BY <1>1, <2>1 DEF Stream
  <2>3. QED
    BY <1>2, <2>2 DEF Follows
<1>4. \A i \in 1..Len(s) : i = 1 \/ i = 2 \/ (i = 3 /\ Len(s) = 3)
  BY <1>m DEF n
<1>5. Body(s) = {1, 2}
  BY <1>1, <1>2, <1>3, <1>4 DEF Body
<1>6. Cardinality({1, 2}) = 2
  <2>1. IsFiniteSet({1}) /\ Cardinality({1}) = 1 /\ 2 \notin {1} /\ {1} \cup {2} = {1, 2}
    BY FS_Singleton
  <2>2. Cardinality({1} \cup {2}) = 1 + 1
    BY <2>1, FS_AddElement
  <2>3. QED
    BY <2>1, <2>2
<1>7. First(s) = 1
  <2>1. First(s) \in {1, 2} /\ First(s) <= 1
    BY <1>5, BodyFirst
  <2>2. QED
    BY <2>1
<1>8. QED
  BY <1>5, <1>6, <1>7 DEF Whole

-----------------------------------------------------------------------------
\* Types

LEMMA ReadText ==
  ASSUME NEW T, NEW s \in Seq(Parts(T)), NEW k \in 1..Len(s), Whole(SubSeq(s, 1, k))
  PROVE  TextOf(SubSeq(s, 1, k)) \in T
<1> DEFINE front == SubSeq(s, 1, k)
<1>1. front \in Seq(Parts(T))
  BY FrontOf
<1> HIDE DEF front
<1>2. Body(front) # {}
  BY DEF Whole, front
<1>3. First(front) \in 1..Len(front)
  BY <1>1, <1>2, BodyFirst
<1>4. front[First(front)].text \in T
  BY <1>1, <1>3, PartType
<1>5. QED
  BY <1>4 DEF TextOf, front

LEMMA SendType ==
  ASSUME ClientTypeOK, NEW request \in Requests, SendRequest(request)
  PROVE  requests' \in Seq(Parts(Requests))
<1>1. Sent(request, 2, 0) \in Seq(Parts(Requests))
  BY SentType
<1>2. QED
  BY <1>1 DEF ClientTypeOK, SendRequest

LEMMA PostType ==
  ASSUME ClientTypeOK, NEW reply \in Reply, Post(reply)
  PROVE  sem' \in Nat /\ logedIn' \in BOOLEAN /\ reader' \in {"reading", "returned"}
<1>1. reply.ok \in BOOLEAN
  BY DEF Reply
<1>2. sem' \in Nat
  BY DEF ClientTypeOK, Post
<1>3. logedIn' \in BOOLEAN
  BY <1>1 DEF ClientTypeOK, Post
<1>4. reader' \in {"reading", "returned"}
  BY DEF ClientTypeOK, Post
<1>5. QED
  BY <1>2, <1>3, <1>4

LEMMA HangUpType ==
  ASSUME HangUp
  PROVE  session' \in BOOLEAN /\ closed' \in BOOLEAN /\ requests' \in Seq(Parts(Requests))
<1>1. session' \in BOOLEAN /\ closed' \in BOOLEAN
  BY Zenon DEF HangUp
<1>2. requests' \in Seq(Parts(Requests))
  BY DEF HangUp
<1>3. QED
  BY <1>1, <1>2

LEMMA ClientTypeStep == ClientTypeOK /\ [ClientNext]_clientVars => ClientTypeOK'
<1> SUFFICES ASSUME ClientTypeOK, [ClientNext]_clientVars PROVE ClientTypeOK'
  OBVIOUS
<1>a. Asked \subseteq Requests /\ "chat" \in Requests /\ "logout" \in Requests
  BY DEF Requests, Asked
<1>b. ASSUME NEW k \in 1..Len(requests)
      PROVE  SubSeq(requests, k + 1, Len(requests)) \in Seq(Parts(Requests))
  BY RestOf DEF ClientTypeOK
<1>c. ASSUME NEW k \in 1..Len(replies)
      PROVE  SubSeq(replies, k + 1, Len(replies)) \in Seq(Parts(Reply))
  BY RestOf DEF ClientTypeOK
<1>1. ASSUME NEW request \in Asked, Ask(request) PROVE ClientTypeOK'
  <2>1. requests' \in Seq(Parts(Requests))
    BY <1>1, <1>a, SendType DEF Ask
  <2>2. made' \in 0..MaxRequests
    BY <1>1, ClientAssumption DEF Ask, ClientTypeOK
  <2>3. main' \in Waiting
    BY <1>1 DEF Ask, Waiting
  <2>4. QED
    BY <1>1, <2>1, <2>2, <2>3 DEF Ask, SendRequest, ClientTypeOK, history
<1>2. CASE Quit \/ SendFails
  BY <1>2 DEF Quit, SendFails, ClientTypeOK, wire, history
<1>3. CASE Command
  <2>1. requests' \in Seq(Parts(Requests))
    BY <1>3, <1>a, SendType DEF Command
  <2>2. made' \in 0..MaxRequests
    BY <1>3, ClientAssumption DEF Command, ClientTypeOK
  <2>3. QED
    BY <1>3, <2>1, <2>2 DEF Command, SendRequest, ClientTypeOK, history
<1>4. CASE LogOut
  <2>1. requests' \in Seq(Parts(Requests))
    BY <1>4, <1>a, SendType DEF LogOut
  <2>2. QED
    BY <1>4, <2>1 DEF LogOut, SendRequest, ClientTypeOK, history
<1>5. CASE Wake
  <2>1. sem' \in Nat
    BY <1>5 DEF Wake, ClientTypeOK
  <2>2. QED
    BY <1>5, <2>1 DEF Wake, ClientTypeOK, wire, history
<1>6. CASE Read
  <2>1. PICK k \in 1..Len(replies) :
          /\ Recv(k) /\ Whole(SubSeq(replies, 1, k)) /\ Post(TextOf(SubSeq(replies, 1, k)))
          /\ UNCHANGED <<main, aborted>>
    BY <1>6 DEF Read
  <2>2. TextOf(SubSeq(replies, 1, k)) \in Reply
    BY <2>1, ReadText DEF ClientTypeOK
  <2>3. sem' \in Nat /\ logedIn' \in BOOLEAN /\ reader' \in {"reading", "returned"}
    BY <2>1, <2>2, PostType
  <2>4. replies' \in Seq(Parts(Reply))
    BY <1>c, <2>1 DEF Recv
  <2>5. split' \in BOOLEAN
    BY <2>1 DEF Recv, Cut, ClientTypeOK
  <2>6. QED
    BY <2>1, <2>3, <2>4, <2>5 DEF Recv, ClientTypeOK
<1>7. CASE ReadAborts
  <2>1. PICK k \in 1..Len(replies) :
          /\ Recv(k) /\ main' = "exited" /\ aborted' = aborted \cup {"client"}
          /\ UNCHANGED <<reader, sem, logedIn>>
    BY <1>7 DEF ReadAborts
  <2>2. replies' \in Seq(Parts(Reply))
    BY <1>c, <2>1 DEF Recv
  <2>3. split' \in BOOLEAN
    BY <2>1 DEF Recv, Cut, ClientTypeOK
  <2>4. QED
    BY <2>1, <2>2, <2>3 DEF Recv, ClientTypeOK
<1>8. CASE ReadEnd
  BY <1>8 DEF ReadEnd, ClientTypeOK, wire, history
<1>9. ASSUME NEW ok \in BOOLEAN, ServeAsked(ok) PROVE ClientTypeOK'
  <2>1. PICK k \in 1..Len(requests), request \in (IF ok THEN Asked ELSE Refusable), of \in {2, 4} :
          /\ Handle(k, request)
          /\ replies' = replies \o Sent([to |-> request, ok |-> ok], of, 1)
          /\ session' = (session \/ (ok /\ request = "login"))
          /\ granted' = (granted \/ (ok /\ request = "login"))
          /\ refused' = (refused \/ ~ok)
    BY <1>9 DEF ServeAsked
  <2>2. request \in Asked
    BY ClientAssumption DEF Asked
  <2>3. [to |-> request, ok |-> ok] \in Reply
    BY <2>2 DEF Reply
  <2>4. Sent([to |-> request, ok |-> ok], of, 1) \in Seq(Parts(Reply))
    BY <2>3, SentType
  <2>5. replies' \in Seq(Parts(Reply))
    BY <2>1, <2>4 DEF ClientTypeOK
  <2>6. requests' \in Seq(Parts(Requests))
    BY <1>b, <2>1 DEF Handle
  <2>7. split' \in BOOLEAN /\ session' \in BOOLEAN /\ granted' \in BOOLEAN /\ refused' \in BOOLEAN
    BY <2>1 DEF Handle, Callback, Cut, ClientTypeOK
  <2>8. QED
    BY <2>1, <2>5, <2>6, <2>7 DEF Handle, Callback, ClientTypeOK
<1>10. CASE ServeOther
  <2>1. PICK k \in 1..Len(requests), request \in Requests \ Asked :
          /\ Handle(k, request)
          /\ session' = (session /\ request # "logout")
          /\ UNCHANGED <<replies, refused, granted>>
    BY <1>10 DEF ServeOther
  <2>2. requests' \in Seq(Parts(Requests))
    BY <1>b, <2>1 DEF Handle
  <2>3. split' \in BOOLEAN /\ session' \in BOOLEAN
    BY <2>1 DEF Handle, Callback, Cut, ClientTypeOK
  <2>4. QED
    BY <2>1, <2>2, <2>3 DEF Handle, Callback, ClientTypeOK
<1>11. CASE ServeAborts
  <2>1. PICK k \in 1..Len(requests) :
          /\ Callback(k) /\ HangUp /\ aborted' = aborted \cup {"server"}
          /\ UNCHANGED <<replies, refused, granted>>
    BY <1>11 DEF ServeAborts
  <2>2. split' \in BOOLEAN
    BY <2>1 DEF Callback, Cut, ClientTypeOK
  <2>3. /\ session' \in BOOLEAN /\ closed' \in BOOLEAN /\ requests' \in Seq(Parts(Requests))
        /\ aborted' \subseteq {"client", "server"}
    BY <2>1, HangUpType DEF ClientTypeOK
  <2>4. QED
    BY <2>1, <2>2, <2>3 DEF Callback, ClientTypeOK
<1>12. CASE Push
  <2>1. ChatMessage \in Reply
    BY DEF ChatMessage, Reply
  <2>2. \A of \in {2, 4} : Sent(ChatMessage, of, 0) \in Seq(Parts(Reply))
    BY <2>1, SentType
  <2>3. pushes' \in 0..MaxPushes /\ replies' \in Seq(Parts(Reply))
    BY <1>12, <2>2, ClientAssumption DEF Push, ClientTypeOK
  <2>4. QED
    BY <1>12, <2>3 DEF Push, ClientTypeOK, history
<1>13. CASE Close
  <2>1. session' \in BOOLEAN /\ closed' \in BOOLEAN /\ requests' \in Seq(Parts(Requests))
    BY <1>13, HangUpType DEF Close
  <2>2. QED
    BY <1>13, <2>1 DEF Close, ClientTypeOK, history
<1>14. CASE UNCHANGED clientVars
  BY <1>14 DEF clientVars, ClientTypeOK, wire, history
<1>15. QED
  BY <1>1, <1>2, <1>3, <1>4, <1>5, <1>6, <1>7, <1>8, <1>9, <1>10, <1>11, <1>12,
     <1>13, <1>14 DEF ClientNext, Serve, Asked

-----------------------------------------------------------------------------
\* The steps

ClientCore ==
  Streams /\ Hung /\ AskedOnce /\ SessionKnown /\ OneAtATime /\ AbortsExplained

\* What a request adds to the stream.
LEMMA Sending ==
  ASSUME ClientTypeOK, Streams, Hung, NEW request \in Requests, SendRequest(request)
  PROVE  /\ Stream(requests')
         /\ \A i \in 1..Len(requests') : requests'[i].of = 2 /\ requests'[i].part <= 2
         /\ closed => requests' = <<>>
         /\ ~closed => Len(requests') = Len(requests) + 2
         /\ \A i \in 1..Len(requests) : i \in 1..Len(requests') /\ requests'[i] = requests[i]
         /\ \A i \in 1..Len(requests') : i > Len(requests) =>
              requests'[i].text = request /\ i + 1 >= Len(requests')
<1> DEFINE n == Len(requests)
<1>1. requests \in Seq(Parts(Requests)) /\ Stream(requests) /\ n \in Nat
  BY DEF ClientTypeOK, Streams
<1>2. CASE closed
  <2>1. requests = <<>> /\ requests' = requests
    BY <1>2 DEF Hung, SendRequest
  <2>2. Len(requests) = 0
    BY <2>1
  <2>3. QED
    BY <1>1, <1>2, <2>1, <2>2
<1>3. CASE ~closed
  <2>1. requests' = requests \o Sent(request, 2, 0)
    BY <1>3 DEF SendRequest
  <2>2. /\ requests' \in Seq(Parts(Requests)) /\ Stream(requests') /\ Len(requests') = n + 2 + 0
        /\ \A i \in 1..n : requests'[i] = requests[i]
        /\ \A i \in 1..Len(requests') : i > n =>
             requests'[i] = [text |-> request, part |-> i - n, of |-> 2]
    BY <1>1, <2>1, StreamSent
  <2>3. Len(requests') = n + 2 /\ \A i \in 1..n : i \in 1..Len(requests')
    BY <1>1, <2>2
  <2>4. \A i \in 1..Len(requests') : i > n =>
          /\ requests'[i].text = request /\ requests'[i].of = 2
          /\ requests'[i].part = i - n /\ i - n <= 2 /\ i + 1 >= Len(requests')
    BY <1>1, <2>2, <2>3
  <2>5. \A i \in 1..Len(requests') : i > n \/ i \in 1..n
    BY <1>1, <2>3
  <2>6. \A i \in 1..Len(requests') : requests'[i].of = 2 /\ requests'[i].part <= 2
    BY <2>2, <2>4, <2>5 DEF Streams
  <2>7. QED
    BY <1>3, <2>2, <2>3, <2>4, <2>6
<1>4. QED
  BY <1>2, <1>3

\* The server takes one request off the stream, all of it.
LEMMA Handling ==
  ASSUME ClientTypeOK, Streams, NEW k \in 1..Len(requests), NEW request, Handle(k, request)
  PROVE  /\ k = 2 /\ Len(requests) >= 2
         /\ requests[1].text = request /\ requests[2].text = request
         /\ Stream(requests') /\ Len(requests') = Len(requests) - 2
         /\ \A i \in 1..Len(requests') :
              i + 2 \in 1..Len(requests) /\ requests'[i] = requests[i + 2]
         /\ \A i \in 1..Len(requests') : requests'[i].of = 2 /\ requests'[i].part <= 2
<1>1. requests \in Seq(Parts(Requests)) /\ Stream(requests) /\ Len(requests) \in Nat
  BY DEF ClientTypeOK, Streams
<1>2. /\ Whole(SubSeq(requests, 1, k)) /\ request = TextOf(SubSeq(requests, 1, k))
      /\ requests' = SubSeq(requests, k + 1, Len(requests))
  BY DEF Handle
<1>3. PICK f \in 1..k :
        /\ f = 1 \/ (f = 2 /\ requests[1].part = requests[1].of + 1)
        /\ requests[f].part = 1
        /\ TextOf(SubSeq(requests, 1, k)) = requests[f].text
        /\ \A i \in f..k : /\ requests[i].text = requests[f].text
                           /\ requests[i].of = requests[f].of
                           /\ requests[i].part = i - f + 1
        /\ k = f + requests[f].of - 1 \/ k = f + requests[f].of
        /\ Stream(SubSeq(requests, k + 1, Len(requests)))
  BY <1>1, <1>2, WholeRead, SMTT(40)
<1>4. \A i \in 1..Len(requests) : requests[i].of = 2 /\ requests[i].part <= 2
  BY DEF Streams
<1>5. 1 \in 1..Len(requests) /\ f \in 1..Len(requests) /\ k \in f..k /\ k \in Nat /\ f \in Nat
  BY <1>1
<1>6. f = 1
  BY <1>3, <1>4, <1>5
<1>7. requests[k].part = k /\ (k = 2 \/ k = 3)
  <2>1. requests[f].of = 2 /\ requests[k].part = k - f + 1
    BY <1>3, <1>4, <1>5
  <2>2. k = f + 2 - 1 \/ k = f + 2
    BY <1>3, <2>1
  <2>3. QED
    BY <1>5, <1>6, <2>1, <2>2
<1>8. k = 2
  BY <1>4, <1>7
<1>9. /\ Len(requests') = Len(requests) - 2
      /\ \A i \in 1..Len(requests') :
           i + 2 \in 1..Len(requests) /\ requests'[i] = requests[i + 2]
  BY <1>1, <1>2, <1>8, RestOf
<1>10. 1 \in f..k /\ 2 \in f..k /\ Len(requests) >= 2
  BY <1>1, <1>6, <1>8
<1>11. requests[1].text = request /\ requests[2].text = request
  BY <1>2, <1>3, <1>10
<1>12. Stream(requests') /\ \A i \in 1..Len(requests') : requests'[i].of = 2 /\ requests'[i].part <= 2
  BY <1>2, <1>3, <1>4, <1>9
<1>13. QED
  BY <1>8, <1>9, <1>10, <1>11, <1>12

\* The client takes one text off the other stream.  If it is the answer, no other
\* is left.
LEMMA Reading ==
  ASSUME ClientTypeOK, Streams, AskedOnce, main # "exited",
         NEW k \in 1..Len(replies), Whole(SubSeq(replies, 1, k)),
         replies' = SubSeq(replies, k + 1, Len(replies)),
         NEW reply, reply = TextOf(SubSeq(replies, 1, k))
  PROVE  /\ Stream(replies') /\ Len(replies') = Len(replies) - k
         /\ \A i \in 1..Len(replies') :
              i + k \in 1..Len(replies) /\ replies'[i] = replies[i + k]
         /\ reply \in Reply
         /\ \E i \in 1..Len(replies) :
              replies[i].text = reply /\ replies[i].part <= replies[i].of
         /\ reply.to \in Asked => \A i \in 1..Len(replies') : ~Answer(replies'[i])
<1>1. replies \in Seq(Parts(Reply)) /\ Stream(replies) /\ Len(replies) \in Nat
  BY DEF ClientTypeOK, Streams
<1>2. PICK f \in 1..k :
        /\ replies[f].part = 1 /\ reply = replies[f].text
        /\ k = f + replies[f].of - 1 \/ k = f + replies[f].of
        /\ Stream(replies')
  BY <1>1, WholeRead
<1>3. /\ Len(replies') = Len(replies) - k
      /\ \A i \in 1..Len(replies') :
           i + k \in 1..Len(replies) /\ replies'[i] = replies[i + k]
  BY <1>1, RestOf
<1>4. f \in 1..Len(replies) /\ replies[f].of \in {2, 4} /\ reply \in Reply
  <2>1. f \in 1..Len(replies)
    BY <1>1
  <2>2. QED
    BY <1>1, <1>2, <2>1, PartType
<1>5. ASSUME reply.to \in Asked, NEW i \in 1..Len(replies'), Answer(replies'[i]) PROVE FALSE
  <2>1. Answer(replies[f])
    BY <1>2, <1>4, <1>5 DEF Answer
  <2>2. i + k \in 1..Len(replies) /\ replies'[i] = replies[i + k] /\ Answer(replies[i + k])
    BY <1>3, <1>5
  <2>3. /\ f + replies[i + k].part = (i + k) + replies[f].part
        /\ replies[f].of = replies[i + k].of
    BY <1>4, <2>1, <2>2 DEF AskedOnce
  <2>4. replies[i + k].part <= replies[i + k].of /\ replies[i + k].part \in Nat
    BY <1>1, <2>2, PartType DEF Answer
  <2>5. i >= 1 /\ i \in Nat /\ k \in Nat /\ f \in Nat
    BY <1>1, <1>3
  <2>6. PICK p \in Nat, of \in Nat : p = replies[i + k].part /\ of = replies[f].of
    BY <1>4, <2>4
  <2>7. f + p = (i + k) + 1 /\ p <= of
    BY <1>2, <2>3, <2>4, <2>6
  <2>8. k = f + of - 1 \/ k = f + of
    BY <1>2, <2>6
  <2>9. \A a, b, c, d, e \in Nat :
          b + d = (a + c) + 1 /\ d <= e /\ (c = b + e - 1 \/ c = b + e) => a < 1
    OBVIOUS
  <2>10. i < 1
    BY <2>5, <2>6, <2>7, <2>8, <2>9
  <2>11. QED
    BY <2>5, <2>10
<1>6. replies[f].part <= replies[f].of
  BY <1>2, <1>4
<1>7. QED
  BY <1>2, <1>3, <1>4, <1>5, <1>6

\* The program ends.
LEMMA ExitStep ==
  ASSUME ClientCore, main' = "exited",
         UNCHANGED <<logedIn, requests, replies, session, closed, granted, split, aborted>>
  PROVE  ClientCore'
<1>1. Streams' /\ Hung' /\ AskedOnce' /\ SessionKnown' /\ AbortsExplained'
  BY DEF ClientCore, Streams, Hung, AskedOnce, SessionKnown, AbortsExplained
<1>2. OneAtATime'
  BY DEF ClientCore, OneAtATime, Short
<1>3. QED
  BY <1>1, <1>2 DEF ClientCore

\* While no answer is awaited there is none.
LEMMA NoneAwaited ==
  ASSUME ClientTypeOK, ClientCore, main \in {"menu", "main_menu"}
  PROVE  /\ \A i \in 1..Len(requests) : requests[i].text \notin Asked
         /\ \A i \in 1..Len(replies) : ~Answer(replies[i])
         /\ sem = 0
<1>1. main # "exited" /\ main \notin Waiting /\ \A request : ~Awaits(request)
  BY DEF Waiting, Awaits
<1>2. sem \in Nat
  BY DEF ClientTypeOK
<1>3. QED
  BY <1>1, <1>2 DEF ClientCore, AskedOnce

LEMMA AskStep ==
  ASSUME ClientTypeOK, ClientCore, NEW request \in Asked, Ask(request)
  PROVE  ClientCore'
<1>1. /\ main = "menu" /\ Awaits(request)' /\ main' \in Waiting
      /\ SendRequest(request) /\ UNCHANGED <<reader, sem, logedIn, pushes>>
  BY DEF Ask, Awaits, Waiting
<1>2. UNCHANGED <<replies, session, closed, refused, granted, split, aborted>>
  BY <1>1 DEF SendRequest, history
<1>3. request \in Requests
  BY DEF Requests
<1>4. /\ \A i \in 1..Len(requests) : requests[i].text \notin Asked
      /\ \A i \in 1..Len(replies) : ~Answer(replies[i])
      /\ sem = 0
  BY <1>1, NoneAwaited
<1>5. /\ Stream(requests')
      /\ \A i \in 1..Len(requests') : requests'[i].of = 2 /\ requests'[i].part <= 2
      /\ closed => requests' = <<>>
      /\ ~closed => Len(requests') = Len(requests) + 2
      /\ \A i \in 1..Len(requests) : i \in 1..Len(requests') /\ requests'[i] = requests[i]
      /\ \A i \in 1..Len(requests') : i > Len(requests) =>
           requests'[i].text = request /\ i + 1 >= Len(requests')
  BY <1>1, <1>3, Sending DEF ClientCore
<1>6. Len(requests) \in Nat
  BY DEF ClientTypeOK
<1>7. Streams' /\ Hung'
  BY <1>1, <1>2, <1>5 DEF ClientCore, Streams, Hung
<1>8. AskedOnce'
  <2>1. \A i \in 1..Len(requests') : requests'[i].text \in Asked =>
           i + 1 >= Len(requests') /\ requests'[i].text = request
    <3>1. \A i \in 1..Len(requests') : i > Len(requests) \/ i \in 1..Len(requests)
      BY <1>6
    <3>2. QED
      BY <1>4, <1>5, <3>1
  <2>2. \A i \in 1..Len(replies') : ~Answer(replies'[i])
    BY <1>2, <1>4
  <2>3. QED
    BY <1>1, <1>4, <2>1, <2>2 DEF AskedOnce
<1>9. SessionKnown'
  <2>1. session => LogoutSent
    BY <1>1 DEF ClientCore, SessionKnown
  <2>2. LogoutSent => LogoutSent'
    BY <1>5 DEF LogoutSent
  <2>3. main' # "menu" /\ main' # "main_menu"
    BY <1>1 DEF Waiting
  <2>4. \A i \in 1..Len(replies') : ~Answer(replies'[i])
    BY <1>2, <1>4
  <2>5. QED
    BY <1>1, <1>2, <1>4, <2>1, <2>2, <2>3, <2>4 DEF SessionKnown
<1>10. OneAtATime'
  <2> SUFFICES ASSUME ~granted PROVE OneAtATime'
    BY <1>2 DEF OneAtATime
  <2>1. Len(requests) = 0
    <3>1. \A i \in 1..Len(requests) : FALSE
      BY <1>4 DEF ClientCore, OneAtATime
    <3>2. QED
      BY <1>6, <3>1
  <2>2. Len(requests') <= 2
    <3>1. closed => Len(requests') = 0
      BY <1>5
    <3>2. QED
      BY <1>5, <2>1, <3>1
  <2>3. \A i \in 1..Len(requests') : requests'[i].text \in Asked
    BY <1>5, <2>1
  <2>4. main' # "main_menu" /\ main # "exited"
    BY <1>1 DEF Waiting
  <2>5. QED
    BY <1>1, <1>2, <2>2, <2>3, <2>4 DEF ClientCore, OneAtATime, Short
<1>11. AbortsExplained'
  BY <1>2 DEF ClientCore, AbortsExplained
<1>12. QED
  BY <1>7, <1>8, <1>9, <1>10, <1>11 DEF ClientCore

\* A request from the main menu: a command, or the logout that ends it.
LEMMA FromMainMenu ==
  ASSUME ClientTypeOK, ClientCore, main = "main_menu",
         NEW request \in Requests \ Asked, SendRequest(request), sem' = sem,
         \/ main' = "main_menu" /\ request # "logout"
         \/ main' = "menu" /\ request = "logout"
  PROVE  ClientCore'
<1>2. UNCHANGED <<replies, session, closed, refused, granted, split, aborted>>
  BY DEF SendRequest, history
<1>4. /\ \A i \in 1..Len(requests) : requests[i].text \notin Asked
      /\ \A i \in 1..Len(replies) : ~Answer(replies[i])
      /\ sem = 0
  BY NoneAwaited
<1>5. /\ Stream(requests')
      /\ \A i \in 1..Len(requests') : requests'[i].of = 2 /\ requests'[i].part <= 2
      /\ closed => requests' = <<>>
      /\ ~closed => Len(requests') = Len(requests) + 2
      /\ \A i \in 1..Len(requests) : i \in 1..Len(requests') /\ requests'[i] = requests[i]
      /\ \A i \in 1..Len(requests') : i > Len(requests) =>
           requests'[i].text = request /\ i + 1 >= Len(requests')
  BY Sending DEF ClientCore
<1>6. Len(requests) \in Nat /\ \A i \in 1..Len(requests') : i > Len(requests) \/ i \in 1..Len(requests)
  BY DEF ClientTypeOK
<1>7. Streams' /\ Hung'
  BY <1>2, <1>5 DEF ClientCore, Streams, Hung
<1>8. AskedOnce'
  <2>1. \A i \in 1..Len(requests') : requests'[i].text \notin Asked
    BY <1>4, <1>5, <1>6
  <2>2. \A i \in 1..Len(replies') : ~Answer(replies'[i])
    BY <1>2, <1>4
  <2>3. QED
    BY <1>4, <2>1, <2>2 DEF AskedOnce
<1>9. SessionKnown'
  <2>1. (session \/ closed) /\ ~LogoutSent
    BY DEF ClientCore, SessionKnown
  <2>2. request # "logout" => ~LogoutSent'
    BY <1>5, <1>6, <2>1 DEF LogoutSent
  <2>3. ASSUME request = "logout", session PROVE LogoutSent'
    <3>1. ~closed
      BY <2>3 DEF ClientCore, Hung
    <3>2. Len(requests) + 1 \in 1..Len(requests') /\ Len(requests) + 1 > Len(requests)
      BY <1>5, <1>6, <3>1
    <3>3. requests'[Len(requests) + 1].text = "logout"
      BY <1>5, <2>3, <3>2
    <3>4. QED
      BY <3>2, <3>3 DEF LogoutSent
  <2>4. \A i \in 1..Len(replies') : ~Answer(replies'[i])
    BY <1>2, <1>4
  <2>5. main' \notin Waiting
    BY DEF Waiting
  <2>6. QED
    BY <1>2, <1>4, <2>1, <2>2, <2>3, <2>4, <2>5 DEF SessionKnown
<1>10. granted'
  BY <1>2 DEF ClientCore, OneAtATime
<1>11. OneAtATime' /\ AbortsExplained'
  BY <1>10 DEF OneAtATime, AbortsExplained
<1>12. QED
  BY <1>7, <1>8, <1>9, <1>11 DEF ClientCore

LEMMA WakeStep ==
  ASSUME ClientTypeOK, ClientCore, Wake
  PROVE  ClientCore'
<1>1. /\ main \in Waiting /\ main # "exited" /\ sem > 0 /\ sem' = sem - 1
      /\ main' = IF main = "login_wait" /\ logedIn THEN "main_menu" ELSE "menu"
      /\ UNCHANGED <<reader, logedIn, requests, replies, session, closed, refused, granted,
                     split, aborted>>
  BY DEF Wake, wire, history, Waiting
<1>2. sem = 1 /\ sem' = 0
  BY <1>1 DEF ClientTypeOK, ClientCore, AskedOnce
<1>3. requests = <<>> /\ \A i \in 1..Len(replies) : ~Answer(replies[i])
  BY <1>1, <1>2 DEF ClientCore, AskedOnce
<1>4. requests' = <<>> /\ Len(requests') = 0 /\ \A i \in 1..Len(replies') : ~Answer(replies'[i])
  BY <1>1, <1>3
<1>5. Streams' /\ Hung' /\ AbortsExplained'
  BY <1>1 DEF ClientCore, Streams, Hung, AbortsExplained
<1>6. AskedOnce'
  BY <1>2, <1>4 DEF AskedOnce
<1>7. SessionKnown'
  <2>1. IF main = "login_wait" /\ logedIn THEN session \/ closed ELSE ~session
    BY <1>1, <1>2 DEF ClientCore, SessionKnown
  <2>2. ~LogoutSent'
    BY <1>4 DEF LogoutSent
  <2>3. QED
    BY <1>1, <1>2, <1>4, <2>1, <2>2 DEF SessionKnown, Waiting
<1>8. OneAtATime'
  BY <1>1, <1>4 DEF ClientCore, OneAtATime, Short
<1>9. QED
  BY <1>5, <1>6, <1>7, <1>8 DEF ClientCore

\* The one answer before a first login is read to its end, unless TCP cuts it.
LEMMA AnswerAlone ==
  ASSUME ClientTypeOK, ClientCore, ~granted, NEW k \in 1..Len(replies), Recv(k), ~split'
  PROVE  /\ k = 3 /\ Len(replies) = 3 /\ replies[1].part = 1 /\ replies[1].of = 2
         /\ replies[3].part = 3
<1>1. /\ main # "exited" /\ k <= RecvSize /\ ~split /\ ~Cut(replies, k, RecvSize)
  BY DEF Recv
<1>2. replies \in Seq(Parts(Reply)) /\ Stream(replies) /\ Len(replies) \in Nat
  BY <1>1 DEF ClientTypeOK, ClientCore, Streams
<1>3. Len(replies) = 3 /\ replies[1].part = 1
  BY <1>1, <1>2 DEF ClientCore, OneAtATime
<1>4. 1 \in 1..Len(replies) /\ 2 \in 1..Len(replies) /\ 3 \in 1..Len(replies)
  BY <1>3
<1>5. replies[1].of = 2
  BY <1>4 DEF ClientCore, OneAtATime, Short
<1>6. replies[2].part = 2 /\ replies[2].of = 2
  <2>1. 2 \in 1..1 + replies[1].of - 1 /\ 2 - 1 + 1 = 2
    BY <1>5
  <2>2. QED
    BY <1>2, <1>3, <1>4, <1>5, <2>1, TextStands
<1>7. replies[3].part = 3
  <2>1. replies[3].of \in {2, 4}
    BY <1>2, <1>4, PartType
  <2>2. ~(replies[3].part < replies[3].of)
    BY <1>2, <1>3, <1>4 DEF Stream
  <2>3. 2 < Len(replies) /\ 2 + 1 = 3
    BY <1>3
  <2>4. Follows(replies[2], replies[3]) \/ replies[3].part = 1
    BY <1>2, <1>4, <2>3 DEF Stream
  <2>5. replies[3].part # 1
    BY <2>1, <2>2
  <2>6. QED
    BY <1>6, <2>4, <2>5 DEF Follows
<1>8. k = 1 \/ k = 2 \/ k = 3
  BY <1>3
<1>9. k # 1 /\ k # 2
  <2>1. 1 < RecvSize /\ 2 < RecvSize
    BY ClientAssumption
  <2>2. 1 + 1 = 2 /\ 2 + 1 = 3 /\ 1 < 3 /\ 2 < 3
    OBVIOUS
  <2>3. QED
    BY <1>1, <1>3, <1>6, <1>7, <2>1, <2>2 DEF Cut
<1>10. QED
  BY <1>3, <1>5, <1>7, <1>8, <1>9

LEMMA ReadStep ==
  ASSUME ClientTypeOK, ClientCore, Read
  PROVE  ClientCore'
<1> DEFINE n == Len(replies)
<1>1. PICK k \in 1..n :
        /\ Recv(k) /\ Whole(SubSeq(replies, 1, k)) /\ Post(TextOf(SubSeq(replies, 1, k)))
        /\ UNCHANGED <<main, aborted>>
  BY DEF Read
<1>2. PICK reply : reply = TextOf(SubSeq(replies, 1, k))
  OBVIOUS
<1>3. /\ main # "exited" /\ replies' = SubSeq(replies, k + 1, n)
      /\ split' = (split \/ Cut(replies, k, RecvSize))
      /\ UNCHANGED <<requests, session, closed, granted>>
  BY <1>1 DEF Recv
<1>4. /\ Stream(replies') /\ Len(replies') = n - k
      /\ \A i \in 1..Len(replies') : i + k \in 1..n /\ replies'[i] = replies[i + k]
      /\ reply \in Reply
      /\ \E i \in 1..n : replies[i].text = reply /\ replies[i].part <= replies[i].of
      /\ reply.to \in Asked => \A i \in 1..Len(replies') : ~Answer(replies'[i])
  BY <1>1, <1>2, <1>3, Reading, ZenonT(60) DEF ClientCore
<1>5. PICK a \in 1..n : replies[a].text = reply /\ replies[a].part <= replies[a].of
  BY <1>4
<1>6. n \in Nat /\ k \in Nat /\ \A i \in 1..n : replies[i].part \in Nat
  <2>1. replies \in Seq(Parts(Reply))
    BY DEF ClientTypeOK
  <2>2. QED
    BY <2>1, PartType
<1>7. Streams' /\ Hung' /\ AbortsExplained'
  BY <1>1, <1>3, <1>4 DEF ClientCore, Streams, Hung, AbortsExplained
<1>8. Post(reply)
  BY <1>1, <1>2
<1> HIDE DEF n
<1>9. ASSUME reply.to \in Asked PROVE AskedOnce' /\ SessionKnown'
  <2>1. Answer(replies[a]) /\ replies[a].text.to = reply.to
    BY <1>5, <1>9 DEF Answer
  <2>2. Awaits(reply.to) /\ sem = 0 /\ requests = <<>>
    BY <1>3, <1>5, <2>1 DEF ClientCore, AskedOnce, n
  <2>3. IF reply = [to |-> "login", ok |-> TRUE] THEN session \/ closed ELSE ~session
    BY <1>3, <1>5, <2>1 DEF ClientCore, SessionKnown, n
  <2>4. \A i \in 1..Len(replies') : ~Answer(replies'[i])
    BY <1>4, <1>9
  <2>5. main \in Waiting /\ main # "menu" /\ main # "main_menu"
        /\ (main = "login_wait" <=> reply.to = "login")
    BY <1>9, <2>2 DEF Awaits, Waiting, Asked
  <2>6. sem' = 0 \/ sem' = 1
    BY <1>8, <2>2 DEF Post
  <2>7. requests' = <<>> /\ Len(requests') = 0 /\ main' = main
    BY <1>1, <1>3, <2>2
  <2>8. AskedOnce'
    BY <2>4, <2>5, <2>6, <2>7 DEF AskedOnce
  <2>9. reply = [to |-> "login", ok |-> TRUE] <=> (reply.to = "login" /\ reply.ok)
    <3>1. reply.ok \in BOOLEAN /\ reply = [to |-> reply.to, ok |-> reply.ok]
      BY <1>4 DEF Reply
    <3>2. ASSUME reply.to = "login", reply.ok PROVE reply = [to |-> "login", ok |-> TRUE]
      <4>1. reply.ok = TRUE
        BY <3>1, <3>2
      <4>2. QED
        BY <3>1, <3>2, <4>1
    <3>3. ASSUME reply = [to |-> "login", ok |-> TRUE] PROVE reply.to = "login" /\ reply.ok
      BY <3>3
    <3>4. QED
      BY <3>2, <3>3
  <2>10. IF main' = "login_wait" /\ logedIn' THEN session' \/ closed' ELSE ~session'
    <3>1. CASE reply.to = "login"
      <4>1. logedIn' = reply.ok /\ main' = "login_wait"
        BY <1>8, <2>5, <2>7, <3>1 DEF Post
      <4>2. logedIn' <=> reply = [to |-> "login", ok |-> TRUE]
        BY <2>9, <3>1, <4>1
      <4>3. QED
        BY <1>3, <2>3, <4>1, <4>2
    <3>2. CASE reply.to # "login"
      BY <1>3, <2>3, <2>5, <2>7, <2>9, <3>2
    <3>3. QED
      BY <3>1, <3>2
  <2>11. SessionKnown'
    BY <2>4, <2>5, <2>7, <2>10 DEF SessionKnown
  <2>12. QED
    BY <2>8, <2>11
<1>10. ASSUME reply.to \notin Asked PROVE AskedOnce' /\ SessionKnown'
  <2>1. UNCHANGED <<main, sem, requests, session, closed>> /\ logedIn' = logedIn
    BY <1>1, <1>3, <1>8, <1>10 DEF Post, Asked
  <2>2. \A i \in 1..Len(replies') : Answer(replies'[i]) =>
           i + k \in 1..n /\ replies'[i] = replies[i + k] /\ Answer(replies[i + k])
    BY <1>4
  <2>a. /\ \A i \in 1..n : Answer(replies[i]) =>
             /\ Awaits(replies[i].text.to) /\ sem = 0 /\ requests = <<>>
             /\ IF replies[i].text = [to |-> "login", ok |-> TRUE] THEN session \/ closed ELSE ~session
        /\ \A i, j \in 1..n : Answer(replies[i]) /\ Answer(replies[j]) =>
             i + replies[j].part = j + replies[i].part /\ replies[i].of = replies[j].of
        /\ sem = 1 => \A i \in 1..n : ~Answer(replies[i])
    BY <1>3 DEF ClientCore, AskedOnce, SessionKnown, n
  <2>3. AskedOnce'
    <3>1. ASSUME NEW i \in 1..Len(replies'), NEW j \in 1..Len(replies'),
                 Answer(replies'[i]), Answer(replies'[j])
          PROVE  i + replies'[j].part = j + replies'[i].part /\ replies'[i].of = replies'[j].of
      <4>1. /\ i + k \in 1..n /\ j + k \in 1..n
            /\ replies'[i] = replies[i + k] /\ replies'[j] = replies[j + k]
            /\ Answer(replies[i + k]) /\ Answer(replies[j + k])
        BY <2>2, <3>1
      <4>2. /\ (i + k) + replies[j + k].part = (j + k) + replies[i + k].part
            /\ replies[i + k].of = replies[j + k].of
        BY <2>a, <4>1
      <4>3. PICK p \in Nat, q \in Nat : p = replies[i + k].part /\ q = replies[j + k].part
        BY <1>6, <4>1
      <4>4. i \in Nat /\ j \in Nat /\ (i + k) + q = (j + k) + p
        BY <4>2, <4>3
      <4>5. i + q = j + p
        BY <1>6, <4>4
      <4>6. QED
        BY <4>1, <4>2, <4>3, <4>5
    <3>2. \A i \in 1..Len(replies') : Answer(replies'[i]) =>
            Awaits(replies'[i].text.to) /\ sem = 0 /\ requests = <<>>
      BY <2>2, <2>a
    <3>3. sem = 1 => \A i \in 1..Len(replies') : ~Answer(replies'[i])
      BY <2>2, <2>a
    <3>4. /\ \A i \in 1..Len(requests) : requests[i].text \in Asked =>
               i + 1 >= Len(requests) /\ Awaits(requests[i].text) /\ sem = 0
          /\ sem <= 1 /\ (sem = 1 => main \in Waiting /\ requests = <<>>)
      BY <1>3 DEF ClientCore, AskedOnce
    <3>5. \A i \in 1..Len(replies') : Answer(replies'[i]) => Awaits(replies[i].text.to)'
      BY <2>1, <3>2 DEF Awaits
    <3>6. \A i \in 1..Len(requests') : requests'[i].text \in Asked =>
             i + 1 >= Len(requests') /\ Awaits(requests[i].text)' /\ sem' = 0
      BY <2>1, <3>4 DEF Awaits
    <3>7. QED
      BY <2>1, <3>1, <3>2, <3>3, <3>4, <3>5, <3>6 DEF AskedOnce, Answer, Awaits
  <2>4. SessionKnown'
    <3>1. \A i \in 1..Len(replies') : Answer(replies'[i]) =>
            IF replies'[i].text = [to |-> "login", ok |-> TRUE] THEN session' \/ closed' ELSE ~session'
      BY <2>1, <2>2, <2>a
    <3>2. LogoutSent' <=> LogoutSent
      BY <2>1 DEF LogoutSent
    <3>3. /\ main = "main_menu" => (session \/ closed) /\ ~LogoutSent
          /\ main = "menu" /\ session => LogoutSent
          /\ main \in Waiting /\ requests # <<>> /\ session => LogoutSent
          /\ sem = 1 => IF main = "login_wait" /\ logedIn THEN session \/ closed ELSE ~session
      BY <1>3 DEF ClientCore, SessionKnown
    <3>4. QED
      BY <2>1, <3>1, <3>2, <3>3 DEF SessionKnown, Answer
  <2>5. QED
    BY <2>3, <2>4
<1>11. OneAtATime'
  <2> SUFFICES ASSUME ~granted PROVE OneAtATime'
    BY <1>3 DEF OneAtATime
  <2>1. /\ ~session /\ ~logedIn /\ main # "main_menu"
        /\ Len(requests) <= 2 /\ \A i \in 1..Len(requests) : requests[i].text \in Asked
        /\ \A i \in 1..n : Short(replies[i])
    BY DEF ClientCore, OneAtATime, n
  <2>2. \A i \in 1..Len(replies') : Short(replies'[i])
    BY <1>4, <2>1
  <2>3. ~logedIn'
    <3>1. reply # [to |-> "login", ok |-> TRUE]
      BY <1>5, <2>1 DEF Short
    <3>2. reply.ok \in BOOLEAN /\ reply = [to |-> reply.to, ok |-> reply.ok]
      BY <1>4 DEF Reply
    <3>3. reply.to = "login" => reply.ok # TRUE
      BY <3>1, <3>2
    <3>4. reply.to = "login" => ~reply.ok
      BY <3>2, <3>3
    <3>5. logedIn' = IF reply.to = "login" THEN reply.ok ELSE logedIn
      BY <1>8 DEF Post
    <3>6. QED
      BY <2>1, <3>4, <3>5
  <2>4. ~split' => replies' = <<>>
    <3> SUFFICES ASSUME ~split' PROVE replies' = <<>>
      OBVIOUS
    <3>1. k = 3 /\ n = 3
      BY <1>1, AnswerAlone DEF n
    <3>2. Len(replies') = 0
      BY <1>4, <3>1
    <3>3. replies' \in Seq(Parts(Reply))
      BY <1>3, RestOf DEF ClientTypeOK, n
    <3>4. QED
      BY <3>2, <3>3
  <2>5. QED
    BY <1>1, <1>3, <2>1, <2>2, <2>3, <2>4 DEF OneAtATime, Short
<1>12. QED
  BY <1>7, <1>9, <1>10, <1>11 DEF ClientCore

LEMMA ReadAbortsStep ==
  ASSUME ClientTypeOK, ClientCore, ReadAborts
  PROVE  ClientCore'
<1> DEFINE n == Len(replies)
<1>1. PICK k \in 1..n :
        /\ Recv(k) /\ ~Whole(SubSeq(replies, 1, k)) /\ main' = "exited"
        /\ UNCHANGED <<reader, sem, logedIn>>
  BY DEF ReadAborts
<1>3. /\ main # "exited" /\ replies' = SubSeq(replies, k + 1, n)
      /\ split' = (split \/ Cut(replies, k, RecvSize))
      /\ UNCHANGED <<requests, session, closed, granted>>
  BY <1>1 DEF Recv
<1>4. replies \in Seq(Parts(Reply)) /\ Stream(replies)
  BY <1>3 DEF ClientTypeOK, ClientCore, Streams
<1>5. /\ Len(replies') = n - k
      /\ \A i \in 1..Len(replies') : i + k \in 1..n /\ replies'[i] = replies[i + k]
  BY <1>3, <1>4, RestOf
<1>6. Streams' /\ Hung' /\ AskedOnce' /\ SessionKnown'
  BY <1>1, <1>3 DEF ClientCore, Streams, Hung, AskedOnce, SessionKnown
<1>7. ASSUME ~granted, ~split' PROVE FALSE
  <2>1. k = 3 /\ n = 3 /\ replies[1].part = 1 /\ replies[1].of = 2 /\ replies[3].part = 3
    BY <1>1, <1>7, AnswerAlone
  <2>2. SubSeq(replies, 1, k) = replies
    BY <1>4, <2>1, SubSeqFull
  <2>3. Len(replies) \in {2, 3} /\ replies # <<>> /\ replies[3].part # 1
    BY <1>4, <2>1
  <2>4. Whole(replies)
    BY <1>4, <2>1, <2>3, WholeShort
  <2>5. QED
    BY <1>1, <2>2, <2>4
<1>8. AbortsExplained'
  BY <1>3, <1>7 DEF AbortsExplained
<1>9. OneAtATime'
  <2>1. ~granted => \A i \in 1..Len(replies') : Short(replies'[i])
    BY <1>5 DEF ClientCore, OneAtATime
  <2>2. QED
    BY <1>1, <1>3, <2>1 DEF ClientCore, OneAtATime, Short
<1>10. QED
  BY <1>6, <1>8, <1>9 DEF ClientCore

LEMMA ServeAskedStep ==
  ASSUME ClientTypeOK, ClientCore, NEW ok \in BOOLEAN, ServeAsked(ok)
  PROVE  ClientCore'
<1> DEFINE n == Len(replies)
<1>1. PICK k \in 1..Len(requests), request \in (IF ok THEN Asked ELSE Refusable), of \in {2, 4} :
        /\ Handle(k, request)
        /\ of = 4 => ok /\ request = "login"
        /\ replies' = replies \o Sent([to |-> request, ok |-> ok], of, 1)
        /\ session' = (session \/ (ok /\ request = "login"))
        /\ granted' = (granted \/ (ok /\ request = "login"))
  BY DEF ServeAsked
<1>2. PICK reply : reply = [to |-> request, ok |-> ok]
  OBVIOUS
<1>3. request \in Asked /\ reply \in Reply /\ reply.to = request /\ reply.ok = ok
  BY <1>2, ClientAssumption DEF Asked, Reply
<1>4. /\ ~closed /\ UNCHANGED <<main, sem, logedIn, closed, aborted>>
      /\ split' = (split \/ Cut(requests, k, Len(requests)))
  BY <1>1 DEF Handle, Callback
<1>5. /\ k = 2 /\ Len(requests) >= 2
      /\ requests[1].text = request /\ requests[2].text = request
      /\ Stream(requests') /\ Len(requests') = Len(requests) - 2
      /\ \A i \in 1..Len(requests') :
           i + 2 \in 1..Len(requests) /\ requests'[i] = requests[i + 2]
      /\ \A i \in 1..Len(requests') : requests'[i].of = 2 /\ requests'[i].part <= 2
  BY <1>1, Handling DEF ClientCore
<1>6. n \in Nat /\ Len(requests) \in Nat /\ requests # <<>> /\ 1 \in 1..Len(requests)
      /\ replies \in Seq(Parts(Reply)) /\ requests' \in Seq(Parts(Requests))
  <2>1. requests' \in Seq(Parts(Requests))
    BY <1>1, RestOf DEF Handle, ClientTypeOK
  <2>2. QED
    BY <1>5, <2>1 DEF ClientTypeOK
\* What the client waits for.
<1>7. ASSUME main # "exited"
      PROVE  /\ Len(requests) = 2 /\ requests' = <<>> /\ Awaits(request) /\ sem = 0
             /\ \A i \in 1..n : ~Answer(replies[i])
             /\ ~session /\ main \in Waiting /\ main # "menu" /\ main # "main_menu"
  <2>1. 1 + 1 >= Len(requests) /\ Awaits(request) /\ sem = 0
    BY <1>3, <1>5, <1>6, <1>7 DEF ClientCore, AskedOnce
  <2>2. Len(requests) = 2 /\ Len(requests') = 0
    BY <1>5, <1>6, <2>1
  <2>3. \A i \in 1..n : ~Answer(replies[i])
    BY <1>6, <1>7 DEF ClientCore, AskedOnce, n
  <2>4. main \in Waiting /\ main # "menu" /\ main # "main_menu"
    BY <2>1 DEF Awaits, Waiting
  <2>5. ~LogoutSent
    <3>1. \A i \in 1..Len(requests) : i = 1 \/ i = 2
      BY <2>2
    <3>2. request # "logout"
      BY <1>3 DEF Asked
    <3>3. QED
      BY <1>5, <3>1, <3>2 DEF LogoutSent
  <2>6. ~session
    BY <1>6, <1>7, <2>4, <2>5 DEF ClientCore, SessionKnown
  <2>7. QED
    BY <1>6, <2>1, <2>2, <2>3, <2>4, <2>6
<1>8. ASSUME Stream(replies)
      PROVE  /\ Stream(replies') /\ Len(replies') = n + of + 1
             /\ \A i \in 1..n : replies'[i] = replies[i]
             /\ \A i \in 1..Len(replies') : i > n =>
                  replies'[i] = [text |-> reply, part |-> i - n, of |-> of]
  <2> DEFINE t == replies \o Sent(reply, of, 1)
  <2>1. 1 \in {0, 1}
    OBVIOUS
  <2>2. /\ Stream(t) /\ Len(t) = n + of + 1
        /\ \A i \in 1..n : t[i] = replies[i]
        /\ \A i \in 1..Len(t) : i > n => t[i] = [text |-> reply, part |-> i - n, of |-> of]
    BY <1>3, <1>6, <1>8, <2>1, StreamSent, SMTT(40)
  <2>3. replies' = t
    BY <1>1, <1>2
  <2> HIDE DEF t, n
  <2>4. Len(replies') = Len(t) /\ Stream(replies') /\ \A i : replies'[i] = t[i]
    BY <2>2, <2>3
  <2>5. QED
    BY <2>2, <2>4
<1>9. Streams' /\ Hung' /\ AbortsExplained'
  BY <1>1, <1>4, <1>5, <1>8 DEF ClientCore, Streams, Hung, AbortsExplained
<1>10. ASSUME main # "exited" PROVE AskedOnce' /\ SessionKnown'
  <2>1. /\ Len(requests) = 2 /\ requests' = <<>> /\ Awaits(request) /\ sem = 0
        /\ \A i \in 1..n : ~Answer(replies[i])
        /\ ~session /\ main \in Waiting /\ main # "menu" /\ main # "main_menu"
    BY <1>7, <1>10
  <2>2. /\ Len(replies') = n + of + 1
        /\ \A i \in 1..n : replies'[i] = replies[i]
        /\ \A i \in 1..Len(replies') : i > n =>
             replies'[i] = [text |-> reply, part |-> i - n, of |-> of]
    BY <1>8, <1>10 DEF ClientCore, Streams
  <2>3. \A i \in 1..Len(replies') : i > n \/ i \in 1..n
    BY <1>6, <2>2
  <2>4. \A i \in 1..Len(replies') : Answer(replies'[i]) =>
          replies'[i].text = reply /\ replies'[i].part = i - n /\ replies'[i].of = of
    BY <2>1, <2>2, <2>3
  <2>5. \A i, j \in 1..Len(replies') : Answer(replies'[i]) /\ Answer(replies'[j]) =>
          i + replies'[j].part = j + replies'[i].part /\ replies'[i].of = replies'[j].of
    <3> SUFFICES ASSUME NEW i \in 1..Len(replies'), NEW j \in 1..Len(replies'),
                        Answer(replies'[i]), Answer(replies'[j])
                 PROVE  /\ i + replies'[j].part = j + replies'[i].part
                        /\ replies'[i].of = replies'[j].of
      OBVIOUS
    <3>1. /\ replies'[i].part = i - n /\ replies'[j].part = j - n
          /\ replies'[i].of = of /\ replies'[j].of = of
      BY <2>4
    <3>2. i + (j - n) = j + (i - n)
      BY <1>6
    <3>3. QED
      BY <3>1, <3>2
  <2>6. \A i \in 1..Len(replies') : Answer(replies'[i]) => Awaits(replies[i].text.to)'
    BY <1>3, <1>4, <2>1, <2>4 DEF Awaits
  <2>7. Len(requests') = 0 /\ sem' = 0
    BY <1>4, <2>1
  <2>8. AskedOnce'
    BY <2>1, <2>5, <2>6, <2>7 DEF AskedOnce, Answer
  <2>9. reply = [to |-> "login", ok |-> TRUE] <=> (ok /\ request = "login")
    <3>1. CASE ok
      BY <1>2, <1>3, <3>1
    <3>2. CASE ~ok
      BY <1>3, <3>2
    <3>3. QED
      BY <3>1, <3>2
  <2>10. session' <=> reply = [to |-> "login", ok |-> TRUE]
    BY <1>1, <2>1, <2>9
  <2>11. \A i \in 1..Len(replies') : Answer(replies'[i]) =>
            IF replies'[i].text = [to |-> "login", ok |-> TRUE] THEN session' \/ closed' ELSE ~session'
    BY <2>4, <2>10
  <2>12. SessionKnown'
    BY <1>4, <2>1, <2>7, <2>11 DEF SessionKnown, Answer
  <2>13. QED
    BY <2>8, <2>12
<1>11. AskedOnce' /\ SessionKnown'
  BY <1>4, <1>10 DEF AskedOnce, SessionKnown
<1>12. OneAtATime'
  <2> SUFFICES ASSUME ~granted' PROVE OneAtATime'
    BY DEF OneAtATime
  <2>1. ~granted /\ ~(ok /\ request = "login") /\ of = 2
    BY <1>1
  <2>2. /\ ~session /\ ~logedIn /\ main # "main_menu"
        /\ Len(requests) <= 2 /\ \A i \in 1..Len(requests) : requests[i].text \in Asked
        /\ \A i \in 1..n : Short(replies[i])
    BY <2>1 DEF ClientCore, OneAtATime
  <2>3. ~session'
    BY <1>1, <2>1, <2>2
  <2>4. Len(requests') <= 2 /\ \A i \in 1..Len(requests') : requests'[i].text \in Asked
    BY <1>5, <1>6, <2>2
  <2>5. \A i \in 1..Len(replies') : Short(replies'[i])
    <3>1. Sent([to |-> request, ok |-> ok], of, 1) \in Seq(Parts(Reply))
          /\ Len(Sent(reply, of, 1)) = 3
          /\ \A i \in 1..3 : Sent(reply, of, 1)[i] = [text |-> reply, part |-> i, of |-> of]
      <4>1. /\ Sent(reply, of, 1) \in Seq(Parts(Reply)) /\ Len(Sent(reply, of, 1)) = of + 1
            /\ \A i \in 1..of + 1 : Sent(reply, of, 1)[i] = [text |-> reply, part |-> i, of |-> of]
        BY <1>3, SentType
      <4>2. of + 1 = 3
        BY <2>1
      <4>3. QED
        BY <1>2, <4>1, <4>2
    <3>2. /\ Len(replies') = n + 3
          /\ \A i \in 1..n : replies'[i] = replies[i]
          /\ \A i \in 1..n + 3 : i > n => i - n \in 1..3 /\ replies'[i] = Sent(reply, of, 1)[i - n]
      <4> DEFINE e == Sent(reply, of, 1)
      <4>1. replies' = replies \o e /\ e \in Seq(Parts(Reply)) /\ Len(e) = 3
        BY <1>1, <1>2, <3>1
      <4> HIDE DEF e
      <4>2. /\ Len(replies') = n + Len(e)
            /\ \A i \in 1..n : replies'[i] = replies[i]
            /\ \A i \in 1..n + Len(e) : i > n => i - n \in 1..Len(e) /\ replies'[i] = e[i - n]
        BY <1>6, <4>1, ConcatAt, ZenonT(60) DEF n
      <4>3. QED
        BY <4>1, <4>2 DEF e
    <3>3. \A i \in 1..Len(replies') : i > n \/ i \in 1..n
      BY <1>6, <3>2
    <3>4. reply # [to |-> "login", ok |-> TRUE]
      BY <1>3, <2>1
    <3>5. \A i \in 1..n + 3 : i > n => Short(replies'[i])
      BY <1>3, <2>1, <3>1, <3>2, <3>4 DEF Short
    <3>6. QED
      BY <2>2, <3>2, <3>3, <3>5
  <2>6. ASSUME main # "exited", ~split' PROVE Len(replies') = 3 /\ replies'[1].part = 1
    <3>1. \A i \in 1..n : ~Answer(replies[i])
      BY <1>7, <2>6
    <3>2. n = 0
      <4> SUFFICES ASSUME n # 0 PROVE FALSE
        OBVIOUS
      <4>a. ~split
        BY <1>4, <2>6
      <4>b. n \in Nat /\ n # 0 /\ replies # <<>>
        BY <1>6
      <4>1. replies # <<>> /\ ~split /\ 1 \in 1..n
        BY <4>a, <4>b
      <4>2. replies[1].part = 1 /\ Short(replies[1])
        BY <2>1, <2>2, <2>6, <4>1 DEF ClientCore, OneAtATime
      <4>3. QED
        BY <3>1, <4>1, <4>2 DEF Short, Answer
    <3>3. Stream(replies)
      BY <2>6 DEF ClientCore, Streams
    <3>4. Len(replies') = 3
      BY <1>8, <2>1, <3>2, <3>3
    <3>5. 1 \in 1..Len(replies') /\ 1 > n /\ 1 - n = 1
      BY <3>2, <3>4
    <3>6. replies'[1] = [text |-> reply, part |-> 1 - n, of |-> of]
      BY <1>8, <3>3, <3>5
    <3>7. replies'[1].part = 1
      BY <3>5, <3>6
    <3>8. QED
      BY <3>4, <3>7
  <2>7. QED
    BY <1>4, <2>2, <2>3, <2>4, <2>5, <2>6 DEF OneAtATime, Short
<1>13. QED
  BY <1>9, <1>11, <1>12 DEF ClientCore

LEMMA ServeOtherStep ==
  ASSUME ClientTypeOK, ClientCore, ServeOther
  PROVE  ClientCore'
<1>1. PICK k \in 1..Len(requests), request \in Requests \ Asked :
        /\ Handle(k, request)
        /\ session' = (session /\ request # "logout")
        /\ UNCHANGED <<replies, refused, granted>>
  BY DEF ServeOther
<1>2. /\ ~closed /\ UNCHANGED <<main, sem, logedIn, closed, aborted>>
  BY <1>1 DEF Handle, Callback
<1>3. /\ k = 2 /\ Len(requests) >= 2
      /\ requests[1].text = request /\ requests[2].text = request
      /\ Stream(requests') /\ Len(requests') = Len(requests) - 2
      /\ \A i \in 1..Len(requests') :
           i + 2 \in 1..Len(requests) /\ requests'[i] = requests[i + 2]
      /\ \A i \in 1..Len(requests') : requests'[i].of = 2 /\ requests'[i].part <= 2
  BY <1>1, Handling DEF ClientCore
<1>4. Len(requests) \in Nat /\ requests # <<>> /\ 1 \in 1..Len(requests)
  BY <1>3 DEF ClientTypeOK
<1>5. Streams' /\ Hung' /\ AbortsExplained'
  <2>1. split => split'
    BY <1>1 DEF Handle, Callback
  <2>2. QED
    BY <1>1, <1>2, <1>3, <2>1 DEF ClientCore, Streams, Hung, AbortsExplained
<1>6. ASSUME main # "exited" PROVE AskedOnce' /\ SessionKnown'
  <2>1. \A i \in 1..Len(replies') : ~Answer(replies'[i])
    BY <1>1, <1>4, <1>6 DEF ClientCore, AskedOnce
  <2>2. sem' # 1 /\ sem' <= 1
    BY <1>2, <1>4, <1>6 DEF ClientCore, AskedOnce
  <2>3. ASSUME NEW i \in 1..Len(requests'), requests'[i].text \in Asked
        PROVE  i + 1 >= Len(requests') /\ Awaits(requests[i].text)' /\ sem' = 0
    <3>1. i + 2 \in 1..Len(requests) /\ requests'[i] = requests[i + 2] /\ i \in Nat
      BY <1>3
    <3>2. (i + 2) + 1 >= Len(requests) /\ Awaits(requests[i + 2].text) /\ sem = 0
      BY <1>6, <2>3, <3>1 DEF ClientCore, AskedOnce
    <3>3. QED
      BY <1>2, <1>3, <1>4, <3>1, <3>2 DEF Awaits
  <2>4. AskedOnce'
    BY <2>1, <2>2, <2>3 DEF AskedOnce, Answer
  <2>5. LogoutSent /\ request # "logout" => LogoutSent' /\ requests' # <<>>
    <3> SUFFICES ASSUME LogoutSent, request # "logout" PROVE LogoutSent' /\ requests' # <<>>
      OBVIOUS
    <3>1. PICK i \in 1..Len(requests) : requests[i].text = "logout"
      BY DEF LogoutSent
    <3>2. i # 1 /\ i # 2
      BY <1>3, <3>1
    <3>3. i - 2 \in 1..Len(requests') /\ (i - 2) + 2 = i
      BY <1>3, <1>4, <3>2
    <3>4. requests'[i - 2].text = "logout"
      BY <1>3, <3>1, <3>3
    <3>5. requests' # <<>>
      BY <3>3
    <3>6. QED
      BY <3>3, <3>4, <3>5 DEF LogoutSent
  <2>6. ~LogoutSent => ~LogoutSent' /\ request # "logout"
    BY <1>3, <1>4 DEF LogoutSent
  <2>7. SessionKnown'
    <3>1. /\ main = "main_menu" => (session \/ closed) /\ ~LogoutSent
          /\ main = "menu" /\ session => LogoutSent
          /\ main \in Waiting /\ session => LogoutSent
      BY <1>4, <1>6 DEF ClientCore, SessionKnown
    <3>2. QED
      BY <1>1, <1>2, <2>1, <2>2, <2>5, <2>6, <3>1 DEF SessionKnown, Answer
  <2>8. QED
    BY <2>4, <2>7
<1>7. AskedOnce' /\ SessionKnown'
  BY <1>2, <1>6 DEF AskedOnce, SessionKnown
<1>8. granted'
  BY <1>1, <1>3, <1>4 DEF ClientCore, OneAtATime
<1>9. QED
  BY <1>5, <1>7, <1>8 DEF ClientCore, OneAtATime

\* A connection that goes away leaves the client with what was sent to it.
LEMMA HangUpStep ==
  ASSUME ClientCore, HangUp, UNCHANGED <<main, sem, logedIn, replies, granted>>,
         split => split', aborted' # {} => granted \/ split'
  PROVE  ClientCore'
<1>1. closed' /\ ~session' /\ requests' = <<>> /\ Len(requests') = 0
  BY DEF HangUp
<1>2. Streams'
  <2>1. Stream(requests')
    BY <1>1 DEF Stream
  <2>2. QED
    BY <1>1, <2>1 DEF ClientCore, Streams
<1>3. Hung' /\ AbortsExplained'
  BY <1>1 DEF Hung, AbortsExplained
<1>4. AskedOnce'
  BY <1>1 DEF ClientCore, AskedOnce, Awaits, Answer
<1>5. SessionKnown'
  <2>1. ~LogoutSent'
    BY <1>1 DEF LogoutSent
  <2>2. \A i \in 1..Len(replies) : Answer(replies[i]) =>
          IF replies[i].text = [to |-> "login", ok |-> TRUE] THEN session' \/ closed' ELSE ~session'
    BY <1>1
  <2>3. QED
    BY <1>1, <2>1, <2>2 DEF ClientCore, SessionKnown, Answer
<1>6. OneAtATime'
  BY <1>1 DEF ClientCore, OneAtATime, Short
<1>7. QED
  BY <1>2, <1>3, <1>4, <1>5, <1>6 DEF ClientCore

LEMMA CloseStep ==
  ASSUME ClientCore, Close
  PROVE  ClientCore'
<1>1. HangUp /\ UNCHANGED <<main, sem, logedIn, replies, granted, split, aborted>>
  BY DEF Close, history
<1>2. aborted' # {} => granted \/ split'
  BY <1>1 DEF ClientCore, AbortsExplained
<1>3. QED
  BY <1>1, <1>2, HangUpStep

\* Before the first login the one request is read to its end, unless TCP cuts it.
LEMMA ServeAbortsStep ==
  ASSUME ClientTypeOK, ClientCore, ServeAborts
  PROVE  ClientCore'
<1>1. PICK k \in 1..Len(requests) :
        /\ Callback(k) /\ ~Whole(SubSeq(requests, 1, k)) /\ HangUp
        /\ UNCHANGED <<replies, refused, granted>>
  BY DEF ServeAborts
<1>2. /\ UNCHANGED <<main, sem, logedIn, replies, granted>>
      /\ split' = (split \/ Cut(requests, k, Len(requests)))
  BY <1>1 DEF Callback
<1>3. requests \in Seq(Parts(Requests)) /\ Stream(requests) /\ Len(requests) \in Nat
  BY DEF ClientTypeOK, ClientCore, Streams
<1>4. ASSUME ~granted, ~split' PROVE FALSE
  <2>1. 1 \in 1..Len(requests) /\ requests # <<>>
    BY <1>3
  <2>2. requests[1].of = 2 /\ requests[1].part <= 2
    BY <2>1 DEF ClientCore, Streams
  <2>3. requests[1].part = 1
    <3>1. requests[1].part = 1 \/ requests[1].part = requests[1].of + 1
      BY <1>3, <2>1 DEF Stream
    <3>2. QED
      BY <2>2, <3>1
  <2>4. 1 + 2 - 1 <= Len(requests)
        /\ \A i \in 1..1 + 2 - 1 : requests[i].part = i - 1 + 1
    BY <1>3, <2>1, <2>2, <2>3, TextStands, ZenonT(60)
  <2>5. Len(requests) <= 2
    BY <1>4 DEF ClientCore, OneAtATime
  <2>6. Len(requests) = 2
    <3>1. 1 + 2 - 1 <= Len(requests)
      BY <2>4
    <3>2. \A m \in Nat : 1 + 2 - 1 <= m /\ m <= 2 => m = 2
      OBVIOUS
    <3>3. Len(requests) \in Nat
      BY <1>3
    <3>4. QED
      BY <2>5, <3>1, <3>2, <3>3
  <2>7. 2 \in 1..1 + 2 - 1 /\ 2 - 1 + 1 = 2
    OBVIOUS
  <2>8. requests[2].part = 2
    BY <2>4, <2>7
  <2>9. k = 1 \/ k = 2
    BY <2>6
  <2>10. CASE k = 1
    <3>1. 1 < Len(requests) /\ 1 + 1 = 2
      BY <2>6
    <3>2. requests[1 + 1].part # 1
      BY <2>8, <3>1
    <3>3. Cut(requests, k, Len(requests))
      BY <2>10, <3>1, <3>2 DEF Cut
    <3>4. QED
      BY <1>2, <1>4, <3>3
  <2>11. CASE k = 2
    <3>1. SubSeq(requests, 1, k) = requests
      BY <1>3, <2>6, <2>11, SubSeqFull
    <3>2. Len(requests) \in {2, 3} /\ Len(requests) # 3
      BY <2>6
    <3>3. Whole(requests)
      BY <1>3, <2>1, <2>2, <2>3, <3>2, WholeShort
    <3>4. QED
      BY <1>1, <3>1, <3>3
  <2>12. QED
    BY <2>9, <2>10, <2>11
<1>5. split => split'
  BY <1>2
<1>6. aborted' # {} => granted \/ split'
  BY <1>4
<1>7. QED
  BY <1>1, <1>2, <1>5, <1>6, HangUpStep

\* A chat message answers nobody, and comes during a session only.
LEMMA PushStep ==
  ASSUME ClientTypeOK, ClientCore, Push
  PROVE  ClientCore'
<1> DEFINE n == Len(replies)
<1>1. /\ session /\ ~closed
      /\ \E of \in {2, 4} : replies' = replies \o Sent(ChatMessage, of, 0)
      /\ UNCHANGED <<main, sem, logedIn, requests, session, closed, granted, split, aborted>>
  BY DEF Push, history
<1>2. granted
  BY <1>1 DEF ClientCore, OneAtATime
<1>3. replies \in Seq(Parts(Reply)) /\ ChatMessage \in Reply /\ n \in Nat
      /\ ChatMessage.to \notin Asked
  BY DEF ClientTypeOK, ChatMessage, Reply, Asked
<1>4. ASSUME main # "exited"
      PROVE  /\ Stream(replies')
             /\ \A i \in 1..Len(replies') : Answer(replies'[i]) =>
                  i \in 1..n /\ replies'[i] = replies[i] /\ Answer(replies[i])
  <2>1. Stream(replies)
    BY <1>4 DEF ClientCore, Streams
  <2>2. PICK of \in {2, 4} : replies' = replies \o Sent(ChatMessage, of, 0)
    BY <1>1
  <2>3. /\ Stream(replies') /\ Len(replies') = n + of + 0
        /\ \A i \in 1..n : replies'[i] = replies[i]
        /\ \A i \in 1..Len(replies') : i > n =>
             replies'[i] = [text |-> ChatMessage, part |-> i - n, of |-> of]
    BY <1>3, <2>1, <2>2, StreamSent, SMTT(40)
  <2>4. \A i \in 1..Len(replies') : i > n \/ i \in 1..n
    BY <1>3, <2>3
  <2>5. \A i \in 1..Len(replies') : i > n => replies'[i].text = ChatMessage
    BY <2>3
  <2>6. \A i \in 1..Len(replies') : i > n => ~Answer(replies'[i])
    BY <1>3, <2>5 DEF Answer
  <2>7. QED
    BY <2>4, <2>6, <2>3
<1>5. Streams' /\ Hung' /\ AbortsExplained'
  BY <1>1, <1>4 DEF ClientCore, Streams, Hung, AbortsExplained
<1>6. AskedOnce'
  <2> SUFFICES ASSUME main # "exited" PROVE AskedOnce'
    BY <1>1 DEF AskedOnce
  <2>1. /\ \A i \in 1..Len(requests) : requests[i].text \in Asked =>
             i + 1 >= Len(requests) /\ Awaits(requests[i].text) /\ sem = 0
        /\ sem <= 1 /\ (sem = 1 => main \in Waiting /\ requests = <<>>)
    BY DEF ClientCore, AskedOnce
  <2>2. \A i \in 1..Len(replies') : Answer(replies'[i]) =>
          Awaits(replies'[i].text.to) /\ sem = 0 /\ requests = <<>>
    BY <1>4 DEF ClientCore, AskedOnce
  <2>3. sem = 1 => \A i \in 1..Len(replies') : ~Answer(replies'[i])
    BY <1>4 DEF ClientCore, AskedOnce
  <2>4. \A i, j \in 1..Len(replies') : Answer(replies'[i]) /\ Answer(replies'[j]) =>
          i + replies'[j].part = j + replies'[i].part /\ replies'[i].of = replies'[j].of
    <3> SUFFICES ASSUME NEW i \in 1..Len(replies'), NEW j \in 1..Len(replies'),
                        Answer(replies'[i]), Answer(replies'[j])
                 PROVE  /\ i + replies'[j].part = j + replies'[i].part
                        /\ replies'[i].of = replies'[j].of
      OBVIOUS
    <3>1. /\ i \in 1..n /\ replies'[i] = replies[i] /\ Answer(replies[i])
          /\ j \in 1..n /\ replies'[j] = replies[j] /\ Answer(replies[j])
      BY <1>4
    <3>2. i + replies[j].part = j + replies[i].part /\ replies[i].of = replies[j].of
      BY <3>1 DEF ClientCore, AskedOnce
    <3>3. QED
      BY <3>1, <3>2
  <2>5. \A i \in 1..Len(replies') : Answer(replies'[i]) => Awaits(replies[i].text.to)'
    BY <1>1, <2>2 DEF Awaits
  <2>6. \A i \in 1..Len(requests') : requests'[i].text \in Asked =>
          i + 1 >= Len(requests') /\ Awaits(requests[i].text)' /\ sem' = 0
    BY <1>1, <2>1 DEF Awaits
  <2>7. QED
    BY <1>1, <2>1, <2>2, <2>3, <2>4, <2>5, <2>6 DEF AskedOnce, Answer
<1>7. SessionKnown'
  <2> SUFFICES ASSUME main # "exited" PROVE SessionKnown'
    BY <1>1 DEF SessionKnown
  <2>1. \A i \in 1..Len(replies') : Answer(replies'[i]) =>
          IF replies'[i].text = [to |-> "login", ok |-> TRUE] THEN session' \/ closed' ELSE ~session'
    BY <1>1, <1>4 DEF ClientCore, SessionKnown
  <2>2. LogoutSent' <=> LogoutSent
    BY <1>1 DEF LogoutSent
  <2>3. /\ main = "main_menu" => (session \/ closed) /\ ~LogoutSent
        /\ main = "menu" /\ session => LogoutSent
        /\ main \in Waiting /\ requests # <<>> /\ session => LogoutSent
        /\ sem = 1 => IF main = "login_wait" /\ logedIn THEN session \/ closed ELSE ~session
    BY DEF ClientCore, SessionKnown
  <2>4. QED
    BY <1>1, <2>1, <2>2, <2>3 DEF SessionKnown, Answer
<1>8. OneAtATime'
  BY <1>1, <1>2 DEF OneAtATime
<1>9. QED
  BY <1>5, <1>6, <1>7, <1>8 DEF ClientCore

-----------------------------------------------------------------------------
\* The invariant

LEMMA ClientInitInv == ClientInit => ClientTypeOK /\ ClientCore
<1> SUFFICES ASSUME ClientInit PROVE ClientTypeOK /\ ClientCore
  OBVIOUS
<1>1. ClientTypeOK
  <2>1. requests \in Seq(Parts(Requests)) /\ replies \in Seq(Parts(Reply))
    BY DEF ClientInit
  <2>2. made \in 0..MaxRequests /\ pushes \in 0..MaxPushes
    BY ClientAssumption DEF ClientInit
  <2>3. QED
    BY <2>1, <2>2 DEF ClientInit, ClientTypeOK
<1>2. /\ main = "menu" /\ sem = 0 /\ ~session /\ ~logedIn /\ ~closed /\ aborted = {}
      /\ requests = <<>> /\ replies = <<>> /\ Len(requests) = 0 /\ Len(replies) = 0
  BY DEF ClientInit
<1>3. Streams
  BY <1>2 DEF Streams, Stream
<1>4. Hung /\ AskedOnce /\ SessionKnown /\ OneAtATime /\ AbortsExplained
  BY <1>2 DEF Hung, AskedOnce, SessionKnown, OneAtATime, AbortsExplained, LogoutSent, Waiting
<1>5. QED
  BY <1>1, <1>3, <1>4 DEF ClientCore

LEMMA ClientCoreStep ==
  ASSUME ClientTypeOK, ClientCore, [ClientNext]_clientVars
  PROVE  ClientCore'
<1>a. /\ "reg" \in Asked /\ "login" \in Asked
      /\ "chat" \in Requests \ Asked /\ "logout" \in Requests \ Asked
  BY DEF Asked, Requests
<1>1. CASE Ask("reg") \/ Ask("login")
  BY <1>a, <1>1, AskStep
<1>2. CASE Quit \/ SendFails
  <2>1. /\ main' = "exited"
        /\ UNCHANGED <<logedIn, requests, replies, session, closed, granted, split, aborted>>
    BY <1>2 DEF Quit, SendFails, wire, history
  <2>2. QED
    BY <2>1, ExitStep
<1>3. CASE Command
  BY <1>a, <1>3, FromMainMenu DEF Command
<1>4. CASE LogOut
  BY <1>a, <1>4, FromMainMenu DEF LogOut
<1>5. CASE Wake
  BY <1>5, WakeStep
<1>6. CASE Read
  BY <1>6, ReadStep
<1>7. CASE ReadAborts
  BY <1>7, ReadAbortsStep
<1>8. CASE ReadEnd
  <2>1. /\ main' = "exited"
        /\ UNCHANGED <<logedIn, requests, replies, session, closed, granted, split, aborted>>
    BY <1>8 DEF ReadEnd, wire, history
  <2>2. QED
    BY <2>1, ExitStep
<1>9. CASE ServeAsked(TRUE) \/ ServeAsked(FALSE)
  <2>1. TRUE \in BOOLEAN /\ FALSE \in BOOLEAN
    OBVIOUS
  <2>2. QED
    BY <1>9, <2>1, ServeAskedStep
<1>10. CASE ServeOther
  BY <1>10, ServeOtherStep
<1>11. CASE ServeAborts
  BY <1>11, ServeAbortsStep
<1>12. CASE Push
  BY <1>12, PushStep
<1>13. CASE Close
  BY <1>13, CloseStep
<1>14. CASE UNCHANGED clientVars
  <2>1. UNCHANGED <<main, sem, logedIn, requests, replies, session, closed, granted, split, aborted>>
    BY <1>14 DEF clientVars, wire, history
  <2>2. Streams' /\ Hung' /\ AbortsExplained'
    BY <2>1 DEF ClientCore, Streams, Hung, AbortsExplained
  <2>3. AskedOnce'
    BY <2>1 DEF ClientCore, AskedOnce, Awaits, Answer
  <2>4. SessionKnown'
    BY <2>1 DEF ClientCore, SessionKnown, LogoutSent, Answer
  <2>5. OneAtATime'
    BY <2>1 DEF ClientCore, OneAtATime, Short
  <2>6. QED
    BY <2>2, <2>3, <2>4, <2>5 DEF ClientCore
<1>15. QED
  BY <1>1, <1>2, <1>3, <1>4, <1>5, <1>6, <1>7, <1>8, <1>9, <1>10, <1>11, <1>12,
     <1>13, <1>14 DEF ClientNext, Serve

LEMMA ClientInvariant == ClientSpec => []ClientInv
<1>1. ClientInit => ClientInv
  BY ClientInitInv DEF ClientInv, ClientCore
<1>2. ClientInv /\ [ClientNext]_clientVars => ClientInv'
  <2> SUFFICES ASSUME ClientInv, [ClientNext]_clientVars PROVE ClientInv'
    OBVIOUS
  <2>1. ClientTypeOK /\ ClientCore
    BY DEF ClientInv, ClientCore
  <2>2. ClientTypeOK' /\ ClientCore'
    BY <2>1, ClientTypeStep, ClientCoreStep
  <2>3. QED
    BY <2>2 DEF ClientInv, ClientCore
<1>3. QED
  BY <1>1, <1>2, PTL DEF ClientSpec

-----------------------------------------------------------------------------
\* The results

\* ClientTypeOK: both streams of main.cpp's socket hold parts of texts the two
\* sides can have sent, and the semaphore is never below zero.
THEOREM ClientTypeCorrect == ClientSpec => []ClientTypeOK
<1>1. ClientInv => ClientTypeOK
  BY DEF ClientInv
<1>2. QED
  BY <1>1, ClientInvariant, PTL

\* NoStalePost: each sem_post of readHandler is for the request the main thread
\* waits for in sem_wait, and comes when its acknowledgement has been read, however
\* often the user is refused, logs out and in again, and however TCP cuts and joins
\* the texts.
THEOREM NoStalePostCorrect == ClientSpec => []NoStalePost
<1>1. ClientInv => NoStalePost
  <2> SUFFICES ASSUME ClientInv, main # "exited"
               PROVE  (sem > 0 => main \in Waiting /\ ~Outstanding) /\ sem <= 1
    BY DEF NoStalePost
  <2>1. sem \in Nat /\ sem <= 1
    BY DEF ClientInv, ClientTypeOK, AskedOnce
  <2>2. ASSUME sem > 0 PROVE main \in Waiting /\ ~Outstanding
    <3>1. sem = 1
      BY <2>1, <2>2
    <3>2. /\ main \in Waiting /\ requests = <<>>
          /\ \A i \in 1..Len(replies) : ~Answer(replies[i])
      BY <3>1 DEF ClientInv, AskedOnce
    <3>3. Len(requests) = 0
      BY <3>2
    <3>4. QED
      BY <3>2, <3>3 DEF Outstanding, Answer
  <2>3. QED
    BY <2>1, <2>2
<1>2. QED
  BY <1>1, ClientInvariant, PTL

\* SessionsAgree: g_logedIn, which chooses the menu after a login, and the server's
\* record of the session never tell two stories: a user in the main menu is logged
\* in unless the connection is gone, and one back in the first menu is not, or the
\* logout is on its way.
THEOREM SessionsAgreeCorrect == ClientSpec => []SessionsAgree
<1>1. ClientInv => SessionsAgree
  <2> SUFFICES ASSUME ClientInv PROVE SessionsAgree
    OBVIOUS
  <2>1. main = "main_menu" \/ main = "menu" => main # "exited"
    OBVIOUS
  <2>2. QED
    BY <2>1 DEF ClientInv, SessionKnown, LogoutSent, SessionsAgree
<1>2. QED
  BY <1>1, ClientInvariant, PTL

\* AbortsExplained: an exception of json::parse, which neither side catches, has one
\* of two causes: TCP has cut a text, or texts may follow each other because a login
\* was granted.
THEOREM AbortsExplainedCorrect == ClientSpec => []AbortsExplained
<1>1. ClientInv => AbortsExplained
  BY DEF ClientInv
<1>2. QED
  BY <1>1, ClientInvariant, PTL
=============================================================================
