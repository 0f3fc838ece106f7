-------------------------- MODULE SmtpSessionProofs ---------------------------
(***************************************************************************)
(* What holds of an SMTP session for any addresses, messages and number of *)
(* reads: mail is taken after a password only, the envelope is the one     *)
(* that was acknowledged, and messages are told apart from commands.       *)
(***************************************************************************)
EXTENDS SmtpSession, SequenceTheorems, TLAPS

States == {"ExpectHello", "ExpectAuth", "AuthExpectUsername", "AuthExpectPassword",
           "ExpectMail", "ExpectRecipient", "ExpectData", "Quit"}
Rcpts  == Addresses \cup {""}

Types ==
    /\ state \in States /\ live \in BOOLEAN /\ (state = "Quit" => ~ live)
    /\ from \in Addresses \cup {NoOne}
    /\ rcpts \in Seq(Rcpts) /\ Len(rcpts) <= MaxRcpts
    /\ mails \in 0 .. MaxMails /\ authed \in BOOLEAN
    /\ agreed \in [from : Addresses \cup {NoOne}, to : SUBSET Rcpts]

(* What was received as data since the end of the message before last: the *)
(* window is not cleared between messages, so that the end of the message  *)
(* before is in it when the next one begins.                               *)
Seen == (IF mails <= 1 THEN <<>> ELSE Terminator) \o received

(* The window holds the last bytes of s.                                   *)
IsLast(t, s) == /\ Len(t) <= Len(s)
                /\ \A j \in 0 .. Len(t) - 1 : t[Len(t) - j] = s[Len(s) - j]

Framed ==
    /\ {term, received, wire, message} \subseteq Seq(Bytes)
    /\ longest \in 0 .. 5 /\ Len(term) = longest
    /\ received \o wire = message
    /\ lost \in BOOLEAN /\ (~ lost => stored = received)
    /\ IsLast(term, Seen)
    /\ mails = 0 => longest = 0 /\ state # "ExpectData"
    /\ mails > 0 => \E b \in Bodies : message = b \o Terminator
    /\ state # "ExpectData" => wire = <<>> /\ (mails > 0 => term = Terminator)
    /\ state = "ExpectData" /\ wire = <<>> => longest < 5

IInv == Types /\ Framed

----------------------------------------------------------------------------
(* The window                                                              *)

(* The lesser of two numbers.                                              *)
LEMMA MinOfTwo ==
    ASSUME NEW a \in Nat, NEW b \in Nat
    PROVE  Min({a, b}) = IF a <= b THEN a ELSE b
<1>1. \E x \in {a, b} : \A y \in {a, b} : x <= y
    OBVIOUS
<1>2. Min({a, b}) \in {a, b} /\ \A y \in {a, b} : Min({a, b}) <= y
    BY <1>1 DEF Min
<1>. QED
    BY <1>2

(* The greater of two numbers.                                             *)
LEMMA MaxOfTwo ==
    ASSUME NEW a \in Nat, NEW b \in Nat
    PROVE  Max({a, b}) = IF a >= b THEN a ELSE b
<1>1. \E x \in {a, b} : \A y \in {a, b} : x >= y
    OBVIOUS
<1>2. Max({a, b}) \in {a, b} /\ \A y \in {a, b} : Max({a, b}) >= y
    BY <1>1 DEF Max
<1>. QED
    BY <1>2

(* isTermination keeps the last bytes of all that was received.            *)
LEMMA WindowIsLast ==
    ASSUME NEW s \in Seq(Bytes), NEW t \in Seq(Bytes), NEW chunk \in Seq(Bytes),
           Len(t) <= 5, IsLast(t, s)
    PROVE  /\ Window(t, chunk) \in Seq(Bytes)
           /\ Len(Window(t, chunk)) = Max({Len(t), Min({Len(chunk), 5})})
           /\ IsLast(Window(t, chunk), s \o chunk)
<1> DEFINE w == Window(t, chunk)
           pick == Min({Len(chunk), 5})
           lt == Len(t)  lc == Len(chunk)  ls == Len(s)
           skip == lc - pick
           la == IF pick < lt THEN lt - pick ELSE 0
           a == SubSeq(t, pick + 1, lt)
           b == SubSeq(chunk, skip + 1, lc)
<1>1. lt \in Nat /\ lt <= 5 /\ lc \in Nat /\ ls \in Nat
    OBVIOUS
<1>2. lt <= ls /\ \A j \in 0 .. lt - 1 : t[lt - j] = s[ls - j]
    BY DEF IsLast
<1>3. pick = IF lc <= 5 THEN lc ELSE 5
    BY <1>1, MinOfTwo
<1>4. w = a \o b
    BY DEF Window, LastOf
<1>5. \A i \in 1 .. lt : t[i] \in Bytes
    OBVIOUS
<1>6. \A i \in 1 .. lc : chunk[i] \in Bytes
    OBVIOUS
<1> HIDE DEF w, pick
<1>7. pick \in Nat /\ pick <= 5 /\ pick <= lc /\ (pick < 5 => pick = lc)
    BY <1>1, <1>3
<1>8. skip \in Nat /\ lc = skip + pick
    BY <1>1, <1>7
<1>9. /\ la \in Nat /\ la + pick <= 5 /\ la + pick <= ls + lc
      /\ la + pick = IF lt >= pick THEN lt ELSE pick
      /\ la > 0 => la = lt - pick /\ pick = lc
    BY <1>1, <1>2, <1>7
<1> HIDE DEF lt, lc, ls, skip
<1>10. a \in Seq(Bytes) /\ Len(a) = la /\ \A i \in 1 .. la : a[i] = t[i + pick]
    <2> DEFINE m == pick + 1
    <2>1. m \in Int /\ lt \in Int /\ \A i \in m .. lt : t[i] \in Bytes
        BY <1>1, <1>5, <1>7
    <2> HIDE DEF m
    <2>2. /\ SubSeq(t, m, lt) \in Seq(Bytes)
          /\ Len(SubSeq(t, m, lt)) = IF m <= lt THEN lt - m + 1 ELSE 0
          /\ \A i \in 1 .. lt - m + 1 : SubSeq(t, m, lt)[i] = t[m + i - 1]
        BY <2>1, SubSeqProperties
    <2>3. /\ \A i \in Int : m + i - 1 = i + pick
          /\ \A i \in 1 .. la : i \in 1 .. lt - m + 1
          /\ la = IF m <= lt THEN lt - m + 1 ELSE 0
        BY <1>1, <1>7 DEF m
    <2> HIDE DEF la
    <2>4. Len(SubSeq(t, m, lt)) = la /\ \A i \in 1 .. la : i \in Int
        BY <2>2, <2>3, <1>9
    <2>5. ASSUME NEW i \in 1 .. la PROVE SubSeq(t, m, lt)[i] = t[i + pick]
        BY <2>2, <2>3, <2>4
    <2>6. a = SubSeq(t, m, lt)
        BY DEF m
    <2> HIDE DEF a
    <2>. QED
        BY <2>2, <2>4, <2>5, <2>6
<1>11. b \in Seq(Bytes) /\ Len(b) = pick /\ \A i \in 1 .. pick : b[i] = chunk[skip + i]
    <2> DEFINE m == skip + 1
    <2>1. m \in Int /\ lc \in Int /\ \A i \in m .. lc : chunk[i] \in Bytes
        BY <1>1, <1>6, <1>8
    <2> HIDE DEF m
    <2>2. /\ SubSeq(chunk, m, lc) \in Seq(Bytes)
          /\ Len(SubSeq(chunk, m, lc)) = IF m <= lc THEN lc - m + 1 ELSE 0
          /\ \A i \in 1 .. lc - m + 1 : SubSeq(chunk, m, lc)[i] = chunk[m + i - 1]
        BY <2>1, SubSeqProperties
    <2>3. /\ \A i \in Int : m + i - 1 = skip + i
          /\ \A i \in 1 .. pick : i \in 1 .. lc - m + 1
          /\ pick = IF m <= lc THEN lc - m + 1 ELSE 0
        BY <1>7, <1>8 DEF m
    <2>4. Len(SubSeq(chunk, m, lc)) = pick /\ \A i \in 1 .. pick : i \in Int
        BY <2>2, <2>3, <1>7
    <2>5. ASSUME NEW i \in 1 .. pick PROVE SubSeq(chunk, m, lc)[i] = chunk[skip + i]
        BY <2>2, <2>3, <2>4
    <2>6. b = SubSeq(chunk, m, lc)
        BY DEF m
    <2> HIDE DEF b
    <2>. QED
        BY <2>2, <2>4, <2>5, <2>6
<1> HIDE DEF a, b, la
<1> DEFINE lw == la + pick
<1>12. /\ w \in Seq(Bytes) /\ Len(w) = lw
       /\ \A i \in 1 .. la : w[i] = a[i]
       /\ \A i \in 1 .. pick : w[la + i] = b[i]
    <2>1. Len(w) = Len(a) + Len(b) /\ w \in Seq(Bytes)
        BY <1>4, <1>10, <1>11, ConcatProperties
    <2>2. \A i \in 1 .. Len(a) + Len(b) :
             w[i] = IF i <= Len(a) THEN a[i] ELSE b[i - Len(a)]
        BY <1>4, <1>10, <1>11, ConcatProperties
    <2>3. ASSUME NEW i \in 1 .. pick PROVE w[la + i] = b[i]
        <3>1. la + i \in 1 .. la + pick /\ ~ (la + i <= la) /\ la + i - la = i
            BY <1>7, <1>9
        <3>2. la + i \in 1 .. Len(a) + Len(b) /\ ~ (la + i <= Len(a)) /\ la + i - Len(a) = i
            BY <1>10, <1>11, <3>1
        <3>3. PICK k \in 1 .. Len(a) + Len(b) :
                 k = la + i /\ ~ (k <= Len(a)) /\ k - Len(a) = i
            BY <1>7, <1>9, <1>10, <1>11, <3>2
        <3>4. w[k] = b[k - Len(a)]
            BY <2>2, <3>3
        <3>. QED
            BY <3>3, <3>4
    <2>4. ASSUME NEW i \in 1 .. la PROVE w[i] = a[i]
        <3>1. i \in 1 .. la + pick /\ i <= la
            BY <1>7, <1>9
        <3>. QED
            BY <1>10, <1>11, <2>2, <3>1
    <2>. QED
        BY <1>10, <1>11, <2>1, <2>3, <2>4
<1>13. /\ Len(s \o chunk) = ls + lc
       /\ \A i \in 1 .. ls : (s \o chunk)[i] = s[i]
       /\ \A i \in 1 .. lc : (s \o chunk)[ls + i] = chunk[i]
    <2>1. \A i \in 1 .. Len(s) + Len(chunk) :
             (s \o chunk)[i] = IF i <= Len(s) THEN s[i] ELSE chunk[i - Len(s)]
        BY ConcatProperties
    <2>2. ASSUME NEW i \in 1 .. lc PROVE (s \o chunk)[ls + i] = chunk[i]
        <3>1. ls + i \in 1 .. ls + lc /\ ~ (ls + i <= ls) /\ ls + i - ls = i
            BY <1>1
        <3>. QED
            BY <2>1, <3>1 DEF ls, lc
    <2>3. ASSUME NEW i \in 1 .. ls PROVE (s \o chunk)[i] = s[i]
        <3>1. i \in 1 .. ls + lc /\ i <= ls
            BY <1>1
        <3>. QED
            BY <2>1, <3>1 DEF ls, lc
    <2>. QED
        BY <2>2, <2>3 DEF ls, lc
<1>14. lw = Max({lt, pick})
    <2>1. Max({lt, pick}) = IF lt >= pick THEN lt ELSE pick
        BY <1>1, <1>7, MaxOfTwo
    <2>. QED
        BY <1>9, <2>1
<1>15. ASSUME NEW j \in 0 .. lw - 1
       PROVE  w[lw - j] = (s \o chunk)[ls + lc - j]
    <2>1. CASE j < pick
        <3>1. /\ pick - j \in 1 .. pick /\ la + (pick - j) = lw - j
              /\ lc - j \in 1 .. lc /\ skip + (pick - j) = lc - j
              /\ ls + (lc - j) = ls + lc - j
            BY <1>1, <1>7, <1>8, <1>9, <2>1
        <3>2. w[lw - j] = b[pick - j]
            BY <1>12, <3>1
        <3>3. b[pick - j] = chunk[lc - j]
            BY <1>11, <3>1
        <3>4. (s \o chunk)[ls + lc - j] = chunk[lc - j]
            BY <1>13, <3>1
        <3>. QED
            BY <3>2, <3>3, <3>4
    <2>2. CASE j >= pick
        <3> DEFINE r == j - pick
        <3>1. /\ r \in 0 .. lt - 1 /\ lw - j \in 1 .. la /\ lw - j + pick = lt - r
              /\ ls + lc - j = ls - r /\ ls - r \in 1 .. ls
            BY <1>1, <1>2, <1>7, <1>9, <2>2
        <3> HIDE DEF r
        <3>2. w[lw - j] = a[lw - j]
            BY <1>12, <3>1
        <3>3. a[lw - j] = t[lt - r]
            BY <1>10, <3>1
        <3>4. t[lt - r] = s[ls - r]
            BY <1>2, <3>1
        <3>5. (s \o chunk)[ls + lc - j] = s[ls - r]
            BY <1>13, <3>1
        <3>. QED
            BY <3>2, <3>3, <3>4, <3>5
    <2>3. j < pick \/ j >= pick
        BY <1>7, <1>9
    <2>. QED
        BY <2>1, <2>2, <2>3
<1> HIDE DEF lw
<1>16. IsLast(w, s \o chunk)
    <2>1. Len(w) = lw /\ Len(s \o chunk) = ls + lc /\ lw <= ls + lc
        BY <1>9, <1>12, <1>13 DEF lw
    <2>2. ASSUME NEW j \in 0 .. Len(w) - 1
          PROVE  w[Len(w) - j] = (s \o chunk)[Len(s \o chunk) - j]
        <3>1. j \in 0 .. lw - 1
            BY <2>1
        <3>2. w[lw - j] = (s \o chunk)[ls + lc - j]
            BY <1>15, <3>1
        <3>3. lw = Len(w)
            BY <2>1
        <3>4. ls + lc = Len(s \o chunk)
            BY <2>1
        <3>5. lw - j = Len(w) - j
            BY <3>3
        <3>6. ls + lc - j = Len(s \o chunk) - j
            BY <1>1, <3>4
        <3>. QED
            BY <3>2, <3>5, <3>6, Zenon
    <2>. QED
        BY <2>1, <2>2 DEF IsLast
<1>. QED
    BY <1>12, <1>14, <1>16 DEF w, pick, lt

(* The end of a message, byte by byte.                                     *)
LEMMA TerminatorBytes ==
    /\ Terminator \in Seq(Bytes) /\ Len(Terminator) = 5
    /\ Terminator[1] = CR /\ Terminator[2] = LF /\ Terminator[3] = "."
    /\ Terminator[4] = CR /\ Terminator[5] = LF
    /\ CR # LF /\ CR # "." /\ CR \in Bytes /\ LF \in Bytes
    BY SmtpAssumption DEF Terminator, CR, LF

(* Bytes of a concatenation.                                               *)
LEMMA Concat ==
    ASSUME NEW x \in Seq(Bytes), NEW y \in Seq(Bytes)
    PROVE  /\ x \o y \in Seq(Bytes) /\ Len(x \o y) = Len(x) + Len(y)
           /\ \A i \in 1 .. Len(x) : (x \o y)[i] = x[i]
           /\ \A i \in 1 .. Len(y) : (x \o y)[Len(x) + i] = y[i]
<1>1. Len(x) \in Nat /\ Len(y) \in Nat
    OBVIOUS
<1>2. /\ x \o y \in Seq(Bytes) /\ Len(x \o y) = Len(x) + Len(y)
      /\ \A i \in 1 .. Len(x) + Len(y) :
            (x \o y)[i] = IF i <= Len(x) THEN x[i] ELSE y[i - Len(x)]
    BY ConcatProperties
<1>3. ASSUME NEW i \in 1 .. Len(x) PROVE (x \o y)[i] = x[i]
    <2>1. i \in 1 .. Len(x) + Len(y) /\ i <= Len(x)
        BY <1>1
    <2>. QED
        BY <1>2, <2>1
<1>4. ASSUME NEW i \in 1 .. Len(y) PROVE (x \o y)[Len(x) + i] = y[i]
    <2>1. PICK k \in 1 .. Len(x) + Len(y) : k = Len(x) + i
        BY <1>1
    <2>2. ~ (k <= Len(x)) /\ k - Len(x) = i
        BY <1>1, <2>1
    <2>3. (x \o y)[k] = y[k - Len(x)]
        BY <1>2, <2>2
    <2>. QED
        BY <2>1, <2>2, <2>3
<1>. QED
    BY <1>2, <1>3, <1>4

(* Concatenation is associative.                                           *)
LEMMA ConcatAssoc ==
    ASSUME NEW x \in Seq(Bytes), NEW y \in Seq(Bytes), NEW z \in Seq(Bytes)
    PROVE  (x \o y) \o z = x \o (y \o z)
    OBVIOUS

(* A full window, byte by byte.                                            *)
LEMMA LastFive ==
    ASSUME NEW t \in Seq(Bytes), NEW z \in Seq(Bytes), NEW n \in Nat,
           Len(t) = 5, n = Len(z), IsLast(t, z)
    PROVE  5 <= n /\ \A j \in 0 .. 4 : t[5 - j] = z[n - j]
<1>1. Len(t) <= Len(z) /\ \A j \in 0 .. Len(t) - 1 : t[Len(t) - j] = z[Len(z) - j]
    BY Zenon DEF IsLast
<1>2. ASSUME NEW j \in 0 .. 4 PROVE t[5 - j] = z[n - j]
    <2>1. j \in 0 .. Len(t) - 1
        OBVIOUS
    <2>2. t[Len(t) - j] = z[Len(z) - j]
        BY <1>1, <2>1
    <2>. QED
        BY <2>2
<1>. QED
    BY <1>1, <1>2

(* Of the bytes x of a message that were received, after p, the last five  *)
(* are the terminator at the end of the message only.                      *)
LEMMA EndsOnce ==
    ASSUME NEW b \in Bodies, NEW p \in {<<>>, Terminator},
           NEW x \in Seq(Bytes), NEW y \in Seq(Bytes), x # <<>>,
           x \o y = b \o Terminator, IsLast(Terminator, p \o x)
    PROVE  y = <<>>
<1> DEFINE M == <<CR, LF>> \o b \o Terminator
           n == Len(x)
<1>1. b \in Seq(Bytes) /\ Len(b) \in Nat /\ n \in Nat \ {0} /\ Len(y) \in Nat
    BY SmtpAssumption
<1>2. p \in Seq(Bytes) /\ Len(p) \in {0, 5} /\ (p = <<>> => Len(p) = 0)
      /\ (p # <<>> => p = Terminator /\ Len(p) = 5)
    <2>1. CASE p = <<>>
        BY <2>1
    <2>2. CASE p = Terminator
        <3>1. p \in Seq(Bytes) /\ Len(p) = 5
            BY <2>2, TerminatorBytes, Zenon
        <3>. QED
            BY <2>2, <3>1
    <2>. QED
        BY <2>1, <2>2
<1>3. n + Len(y) = Len(b) + 5
    <2>1. Len(x \o y) = n + Len(y)
        BY Concat
    <2>2. Len(b \o Terminator) = Len(b) + Len(Terminator)
        BY <1>1, Concat, TerminatorBytes, Zenon
    <2>. QED
        BY <2>1, <2>2, TerminatorBytes, Zenon
<1>4. /\ Len(M) = Len(b) + 7 /\ M \in Seq(Bytes) /\ M[1] = CR /\ M[2] = LF
      /\ \A i \in 1 .. n : M[i + 2] = x[i]
    <2> DEFINE c == <<CR, LF>>
    <2>1. c \in Seq(Bytes) /\ Len(c) = 2 /\ c[1] = CR /\ c[2] = LF
        BY TerminatorBytes
    <2> HIDE DEF c
    <2>2. PICK cb \in Seq(Bytes) : /\ cb = c \o b /\ Len(cb) = 2 + Len(b)
                                   /\ cb[1] = CR /\ cb[2] = LF
                                   /\ \A i \in 1 .. Len(b) : cb[2 + i] = b[i]
        <3>1. /\ c \o b \in Seq(Bytes) /\ Len(c \o b) = Len(c) + Len(b)
              /\ \A i \in 1 .. Len(c) : (c \o b)[i] = c[i]
              /\ \A i \in 1 .. Len(b) : (c \o b)[Len(c) + i] = b[i]
            BY <1>1, <2>1, Concat, Zenon
        <3>2. Len(c \o b) = 2 + Len(b) /\ 1 \in 1 .. Len(c) /\ 2 \in 1 .. Len(c)
            BY <2>1, <3>1
        <3>3. (c \o b)[1] = CR /\ (c \o b)[2] = LF
            BY <2>1, <3>1, <3>2, Zenon
        <3>4. \A i \in 1 .. Len(b) : (c \o b)[2 + i] = b[i]
            BY <2>1, <3>1, Zenon
        <3>. QED
            BY <3>1, <3>2, <3>3, <3>4, Zenon
    <2>7. M = cb \o Terminator
        BY <2>2, Zenon DEF c
    <2> HIDE DEF M
    <2>8. /\ M \in Seq(Bytes) /\ Len(M) = Len(cb) + Len(Terminator)
          /\ \A i \in 1 .. Len(cb) : M[i] = cb[i]
          /\ \A i \in 1 .. Len(Terminator) : M[Len(cb) + i] = Terminator[i]
        BY <2>2, <2>7, TerminatorBytes, Concat, Zenon
    <2>3. /\ b \o Terminator \in Seq(Bytes)
          /\ Len(b \o Terminator) = Len(b) + Len(Terminator)
          /\ \A i \in 1 .. Len(b) : (b \o Terminator)[i] = b[i]
          /\ \A i \in 1 .. Len(Terminator) : (b \o Terminator)[Len(b) + i] = Terminator[i]
        BY <1>1, Concat, TerminatorBytes, Zenon
    <2>9. Len(Terminator) = 5
        BY TerminatorBytes
    <2>4. ASSUME NEW i \in 1 .. Len(b) + 5
          PROVE  M[2 + i] = (b \o Terminator)[i]
        <3>1. CASE i <= Len(b)
            <4>1. i \in 1 .. Len(b) /\ 2 + i \in 1 .. Len(cb)
                BY <1>1, <2>2, <3>1
            <4>. QED
                BY <2>2, <2>3, <2>8, <4>1, Zenon
        <3>2. CASE i > Len(b)
            <4>3. i - Len(b) \in Int
                BY <1>1
            <4>0. PICK h \in Int : h = i - Len(b)
                BY <4>3, Zenon
            <4>2. h \in 1 .. 5 /\ i = Len(b) + h /\ 2 + i = Len(cb) + h
                BY <1>1, <2>2, <3>2, <4>0
            <4>1. h \in 1 .. Len(Terminator) /\ i = Len(b) + h /\ 2 + i = Len(cb) + h
                BY <2>9, <4>2, Zenon
            <4>. QED
                BY <2>3, <2>8, <4>1, Zenon
        <3>3. i <= Len(b) \/ i > Len(b)
            BY <1>1
        <3>. QED
            BY <3>1, <3>2, <3>3
    <2>5. Len(M) = Len(b) + 7 /\ M[1] = CR /\ M[2] = LF
        <3>1. 1 \in 1 .. Len(cb) /\ 2 \in 1 .. Len(cb) /\ Len(cb) + 5 = Len(b) + 7
            BY <1>1, <2>2
        <3>. QED
            BY <2>2, <2>8, <2>9, <3>1, Zenon
    <2>6. ASSUME NEW i \in 1 .. n PROVE M[i + 2] = x[i]
        <3>1. i \in 1 .. Len(b) + 5 /\ i + 2 = 2 + i
            BY <1>1, <1>3
        <3>2. M[2 + i] = (x \o y)[i]
            BY <2>4, <3>1, Zenon
        <3>3. (x \o y)[i] = x[i]
            BY Concat
        <3>. QED
            BY <3>1, <3>2, <3>3
    <2>. QED
        BY <2>8, <2>5, <2>6
<1> HIDE DEF M
<1>5. /\ 5 <= Len(p) + n
      /\ \A j \in 0 .. 4 : Terminator[5 - j] = (p \o x)[Len(p) + n - j]
    <2>1. p \o x \in Seq(Bytes) /\ Len(p \o x) = Len(p) + n
        BY <1>2, Concat
    <2>2. Len(p) + n \in Nat /\ Len(Terminator) = 5 /\ Terminator \in Seq(Bytes)
        BY <1>1, <1>2, TerminatorBytes
    <2>. QED
        <3>1. PICK k \in Nat : k = Len(p) + n
            BY <2>2
        <3>2. k = Len(p \o x)
            BY <2>1, <3>1, Zenon
        <3>3. 5 <= k /\ \A j \in 0 .. 4 : Terminator[5 - j] = (p \o x)[k - j]
            BY <2>1, <2>2, <3>2, LastFive, Zenon
        <3>. QED
            <4>1. ASSUME NEW j \in 0 .. 4
                  PROVE  Terminator[5 - j] = (p \o x)[Len(p) + n - j]
                <5>1. k - j = Len(p) + n - j
                    BY <3>1
                <5>2. Terminator[5 - j] = (p \o x)[k - j]
                    BY <3>3, Zenon
                <5>. QED
                    BY <5>1, <5>2, Zenon
            <4>2. 5 <= Len(p) + n
                BY <3>1, <3>3
            <4>. QED
                BY <4>1, <4>2, Zenon
<1>6. \A i \in 1 .. n : (p \o x)[Len(p) + i] = x[i]
    BY <1>2, Concat
<1>7. \A i \in 1 .. 5 : p # <<>> => (p \o x)[i] = Terminator[i]
    <2> TAKE i \in 1 .. 5
    <2> HAVE p # <<>>
    <2>1. p = Terminator /\ i \in 1 .. Len(p)
        BY <1>2
    <2>2. (p \o x)[i] = p[i]
        BY <1>2, <2>1, Concat
    <2>. QED
        BY <2>1, <2>2, Zenon
<1> HIDE DEF n
<1>8. n >= 3
    <2>1. ASSUME p # <<>>, n \in {1, 2} PROVE FALSE
        <3>1. Len(p) = 5 /\ 5 + n - 4 \in 1 .. 5
            BY <1>2, <2>1
        <3>2. Terminator[1] = Terminator[n + 1]
            <4>1. 5 - 4 = 1 /\ 5 + n - 4 = n + 1 /\ 4 \in 0 .. 4 /\ n + 1 \in 1 .. 5
                BY <2>1
            <4>2. Terminator[5 - 4] = (p \o x)[5 + n - 4]
                BY <1>5, <3>1, <4>1
            <4>. QED
                BY <1>7, <2>1, <4>1, <4>2
        <3>3. n + 1 = 2 \/ n + 1 = 3
            BY <2>1
        <3>4. Terminator[1] = Terminator[2] \/ Terminator[1] = Terminator[3]
            BY <3>2, <3>3
        <3>. QED
            BY <3>4, TerminatorBytes, Zenon
    <2>. QED
        BY <1>1, <1>2, <1>5, <2>1
<1>9. ASSUME NEW j \in 0 .. 4 PROVE M[n + 2 - j] = Terminator[5 - j]
    <2>1. CASE j < n
        <3>1. PICK i \in 1 .. n : i = n - j /\ n + 2 - j = i + 2 /\ Len(p) + n - j = Len(p) + i
            BY <1>1, <1>2, <2>1
        <3>. QED
            BY <1>4, <1>5, <1>6, <3>1
    <2>2. CASE j >= n
        <3>1. p # <<>> /\ Len(p) = 5 /\ n \in {3, 4} /\ n - j \in {0, -1}
            BY <1>1, <1>2, <1>5, <1>8, <2>2
        <3>2. Terminator[5 - j] = (p \o x)[5 + n - j] /\ 5 + n - j \in 1 .. 5
            BY <1>1, <1>5, <3>1
        <3>3. Terminator[5 - j] = Terminator[5 + n - j]
            BY <1>7, <3>1, <3>2
        <3>4. CASE n - j = 0
            <4>1. n + 2 - j = 2 /\ 5 + n - j = 5
                BY <1>1, <3>4
            <4>. QED
                BY <1>4, <3>3, <4>1, TerminatorBytes, Zenon
        <3>5. CASE n - j = -1
            <4>1. n + 2 - j = 1 /\ 5 + n - j = 4
                BY <1>1, <3>5
            <4>. QED
                BY <1>4, <3>3, <4>1, TerminatorBytes, Zenon
        <3>. QED
            BY <3>1, <3>4, <3>5
    <2>. QED
        BY <1>1, <2>1, <2>2
<1>10. n + 2 \in Ends(M)
    <2>1. PICK lo \in Nat : lo = n - 2 /\ lo >= 1
        BY <1>1, <1>8
    <2>2. PICK hi \in Nat : hi = n + 2 /\ hi <= Len(M)
        BY <1>1, <1>3, <1>4
    <2>3. \A i \in lo .. hi : M[i] \in Bytes
        BY <1>4, <2>1, <2>2
    <2>4. /\ SubSeq(M, lo, hi) \in Seq(Bytes) /\ Len(SubSeq(M, lo, hi)) = 5
          /\ \A i \in 1 .. 5 : SubSeq(M, lo, hi)[i] = M[lo + i - 1]
        <3>1. lo <= hi /\ hi - lo + 1 = 5
            BY <1>1, <2>1, <2>2
        <3>. QED
            BY <1>4, <2>3, <3>1, SubSeqProperties
    <2>5. \A i \in 1 .. 5 : SubSeq(M, lo, hi)[i] = Terminator[i]
        <3> TAKE i \in 1 .. 5
        <3>1. PICK j \in 0 .. 4 : j = 5 - i /\ 5 - j = i /\ n + 2 - j = lo + i - 1
            BY <1>1, <2>1
        <3>. QED
            BY <1>9, <2>4, <3>1
    <2>6. SubSeq(M, lo, hi) = Terminator
        BY <2>4, <2>5, TerminatorBytes, SeqEqual
    <2>7. hi - 4 = lo /\ hi \in 5 .. Len(M)
        BY <1>1, <1>4, <1>8, <2>1, <2>2
    <2>. QED
        BY <2>2, <2>6, <2>7 DEF Ends
<1>11. n + 2 = Len(b) + 7
    BY <1>10, SmtpAssumption DEF M
<1>. QED
    BY <1>1, <1>3, <1>11

(* A window of five bytes on a complete message holds the terminator.      *)
LEMMA EndsThen ==
    ASSUME NEW b \in Bodies, NEW p \in Seq(Bytes), NEW t \in Seq(Bytes),
           Len(t) = 5, IsLast(t, p \o (b \o Terminator))
    PROVE  t = Terminator
<1> DEFINE m == b \o Terminator
<1>1. b \in Seq(Bytes) /\ Len(b) \in Nat /\ Len(p) \in Nat
    BY SmtpAssumption
<1>2. /\ m \in Seq(Bytes) /\ Len(m) = Len(b) + 5
      /\ \A i \in 1 .. 5 : m[Len(b) + i] = Terminator[i]
    <2>1. /\ m \in Seq(Bytes) /\ Len(m) = Len(b) + Len(Terminator)
          /\ \A i \in 1 .. Len(Terminator) : m[Len(b) + i] = Terminator[i]
        BY <1>1, Concat, TerminatorBytes, Zenon
    <2>. QED
        BY <2>1, TerminatorBytes, Zenon
<1> HIDE DEF m
<1>3. /\ Len(p \o m) = Len(p) + Len(m)
      /\ \A i \in 1 .. Len(m) : (p \o m)[Len(p) + i] = m[i]
    BY <1>2, Concat
<1>6. PICK z \in Seq(Bytes) : z = p \o m
    BY <1>2, Concat
<1>7. Len(z) = Len(p) + Len(m) /\ Len(m) \in Nat
    BY <1>2, <1>3, <1>6, Zenon, LenProperties
<1>10. PICK k \in Nat : k = Len(p) + Len(m)
    BY <1>1, <1>7
<1>8. \A j \in 0 .. 4 : t[5 - j] = z[k - j]
    <2>1. IsLast(t, z)
        BY <1>6, Zenon DEF m
    <2>2. k = Len(z)
        BY <1>7, <1>10, Zenon
    <2>. QED
        BY <2>1, <2>2, LastFive, Zenon
<1>9. \A i \in 1 .. Len(m) : z[Len(p) + i] = m[i]
    BY <1>3, <1>6, Zenon
<1>5. ASSUME NEW i \in 1 .. 5 PROVE t[i] = Terminator[i]
    <2>1. PICK j \in 0 .. 4 : j = 5 - i /\ i = 5 - j
        OBVIOUS
    <2>2. PICK h \in 1 .. Len(m) : h = Len(b) + i
        BY <1>1, <1>2, <1>7
    <2>3. k - j = Len(p) + h
        BY <1>1, <1>2, <1>7, <1>10, <2>1, <2>2
    <2>4. t[i] = z[k - j]
        BY <1>8, <2>1, Zenon
    <2>5. z[Len(p) + h] = m[h] /\ m[h] = Terminator[i]
        BY <1>2, <1>9, <2>2
    <2>. QED
        BY <2>3, <2>4, <2>5, Zenon
<1>. QED
    BY <1>5, TerminatorBytes, SeqEqual

----------------------------------------------------------------------------
(* The invariant                                                           *)

(* The invariant holds at the start.                                       *)
LEMMA InitIInv ==
    Init => IInv
<1> SUFFICES ASSUME Init PROVE IInv
    OBVIOUS
<1>1. Types
    <2>1. rcpts \in Seq(Rcpts) /\ Len(rcpts) <= MaxRcpts /\ mails \in 0 .. MaxMails
        BY SmtpAssumption DEF Init
    <2>2. agreed \in [from : Addresses \cup {NoOne}, to : SUBSET Rcpts]
        BY DEF Init, NoEnvelope
    <2>. QED
        BY <2>1, <2>2 DEF Init, Types, States
<1>2. Framed
    <2>1. Seen = <<>> /\ term = <<>> /\ <<>> \in Seq(Bytes)
        BY DEF Init, Seen
    <2>2. IsLast(term, Seen)
        BY <2>1 DEF IsLast
    <2>3. lost \in BOOLEAN /\ (~ lost => stored = received)
        BY DEF Init
    <2>. QED
        BY <2>1, <2>2, <2>3 DEF Init, Framed
<1>. QED
    BY <1>1, <1>2 DEF IInv

(* Between messages the data is not touched.                               *)
LEMMA CommandsFramed ==
    ASSUME Framed, UNCHANGED data,
           state' = state \/ (state # "ExpectData" /\ state' # "ExpectData")
    PROVE  Framed'
<1>1. Seen' = Seen
    BY DEF data, Seen
<1>. QED
    BY <1>1 DEF data, Framed, IsLast

(* A new message begins: the window holds the end of the one before.       *)
LEMMA StartDataFramed ==
    ASSUME IInv, StartData
    PROVE  Framed'
<1>1. /\ state = "ExpectRecipient" /\ state' = "ExpectData"
      /\ received' = <<>> /\ stored' = <<>> /\ lost' = FALSE
      /\ mails' = mails + 1 /\ term' = term /\ longest' = longest
    BY DEF StartData, GoTo
<1>2. PICK b \in Bodies : message' = b \o Terminator /\ wire' = b \o Terminator
    BY DEF StartData
<1>3. b \in Seq(Bytes) /\ Len(b) \in Nat
    BY SmtpAssumption
<1>4. b \o Terminator \in Seq(Bytes) /\ Len(b \o Terminator) = Len(b) + 5
    <2>1. b \o Terminator \in Seq(Bytes) /\ Len(b \o Terminator) = Len(b) + Len(Terminator)
        BY <1>3, TerminatorBytes, Concat, Zenon
    <2>. QED
        BY <2>1, TerminatorBytes, Zenon
<1>5. /\ wire' \in Seq(Bytes) /\ message' \in Seq(Bytes) /\ wire' # <<>>
      /\ received' \in Seq(Bytes) /\ received' \o wire' = message'
    <2>1. wire' \in Seq(Bytes) /\ Len(wire') = Len(b) + 5 /\ message' = wire'
        BY <1>2, <1>4, Zenon
    <2>2. wire' # <<>>
        BY <1>3, <2>1
    <2>. QED
        BY <1>1, <2>1, <2>2
<1>6. IsLast(term', Seen')
    <2>1. mails \in Nat
        BY SmtpAssumption DEF IInv, Types
    <2>2. CASE mails = 0
        <3>1. Seen' = <<>> /\ term' \in Seq(Bytes) /\ Len(term') = 0
            BY <1>1, <2>2 DEF IInv, Framed, Seen
        <3>. QED
            BY <3>1 DEF IsLast
    <2>3. CASE mails > 0
        <3>1. term' = Terminator
            BY <1>1, <2>3 DEF IInv, Framed
        <3>2. Seen' = Terminator \o <<>>
            BY <1>1, <2>1, <2>3 DEF Seen
        <3>3. Terminator \o <<>> = Terminator
            BY TerminatorBytes, ConcatEmptySeq
        <3>4. Len(Terminator) = 5
            BY TerminatorBytes
        <3>5. IsLast(Terminator, Terminator)
            BY <3>4 DEF IsLast
        <3>. QED
            BY <3>1, <3>2, <3>3, <3>5, Zenon
    <2>. QED
        BY <2>1, <2>2, <2>3
<1>7. mails' > 0 /\ mails' # 0
    BY <1>1, SmtpAssumption DEF IInv, Types
<1>. QED
    BY <1>1, <1>2, <1>5, <1>6, <1>7 DEF IInv, Framed

(* A read of any length: the end is found if and only if it is there.      *)
LEMMA ReceiveDataFramed ==
    ASSUME IInv, NEW k \in 1 .. Len(wire), ReceiveData(k)
    PROVE  Framed'
<1> DEFINE chunk == SubSeq(wire, 1, k)
           p == IF mails <= 1 THEN <<>> ELSE Terminator
<1>1. /\ state = "ExpectData" /\ term' = Window(term, chunk)
      /\ received' = received \o chunk /\ wire' = SubSeq(wire, k + 1, Len(wire))
      /\ longest' = Max({longest, Min({k, 5})})
      /\ state' = IF Ended(term') THEN "ExpectMail" ELSE "ExpectData"
      /\ message' = message /\ mails' = mails
    BY DEF ReceiveData, ExpectsData, GoTo
<1>2. /\ term \in Seq(Bytes) /\ received \in Seq(Bytes) /\ wire \in Seq(Bytes)
      /\ message \in Seq(Bytes) /\ mails \in Nat /\ mails > 0
      /\ longest \in 0 .. 5 /\ Len(term) = longest /\ Len(term) <= 5
      /\ received \o wire = message /\ IsLast(term, Seen)
    <2>1. mails \in Nat /\ mails # 0
        BY <1>1, SmtpAssumption DEF IInv, Types, Framed
    <2>. QED
        BY <2>1 DEF IInv, Framed
<1>3. PICK b \in Bodies : message = b \o Terminator
    BY <1>2 DEF IInv, Framed
<1>4. Len(wire) \in Nat /\ k \in Nat /\ 1 <= k /\ k <= Len(wire)
    BY <1>2
<1>5. chunk \in Seq(Bytes) /\ Len(chunk) = k
    BY <1>2, <1>4, SubSeqProperties
<1>6. wire' \in Seq(Bytes)
    BY <1>1, <1>2, <1>4, SubSeqProperties
<1>7. chunk \o wire' = wire
    BY <1>1, <1>2, <1>4, ConcatAdjacentSubSeq, SubSeqFull
<1> HIDE DEF chunk
<1>8. received' \in Seq(Bytes) /\ received' # <<>> /\ received' \o wire' = message
    <2>1. Len(received') = Len(received) + Len(chunk) /\ received' \in Seq(Bytes)
        BY <1>1, <1>2, <1>5, Concat
    <2>2. received' # <<>>
        BY <1>2, <1>4, <1>5, <2>1
    <2>3. (received \o chunk) \o wire' = received \o (chunk \o wire')
        <3>1. /\ wire' \in Seq(Bytes) /\ received \in Seq(Bytes) /\ chunk \in Seq(Bytes)
            BY <1>2, <1>5, <1>6
        <3>. QED
            BY <3>1
    <2>. QED
        BY <1>1, <1>2, <1>7, <2>1, <2>2, <2>3, Zenon
<1>17. lost' \in BOOLEAN /\ (~ lost' => stored' = received')
    <2>1. lost \in BOOLEAN /\ (~ lost => stored = received)
        BY DEF IInv, Framed
    <2>2. PICK n \in 0 .. k : /\ stored' = stored \o SubSeq(chunk, 1, n)
                             /\ lost' = (lost \/ n < k)
        BY <1>5 DEF ReceiveData, Store, chunk
    <2>3. ASSUME ~ lost' PROVE stored' = received'
        <3>3. ~ lost /\ ~ (n < k)
            BY <2>2, <2>3, Zenon
        <3>1. ~ lost /\ n = k
            BY <1>4, <3>3
        <3>2. SubSeq(chunk, 1, n) = chunk
            BY <1>5, <3>1, SubSeqFull
        <3>. QED
            BY <1>1, <2>1, <2>2, <3>1, <3>2, Zenon
    <2>. QED
        BY <2>1, <2>2, <2>3
<1>9. p \in Seq(Bytes) /\ p \in {<<>>, Terminator}
    BY TerminatorBytes
<1>10. Seen = p \o received /\ Seen' = p \o received'
    BY <1>1 DEF Seen
<1> HIDE DEF p
<1>11. Seen \in Seq(Bytes) /\ Seen' = Seen \o chunk
    <2>1. (p \o received) \o chunk = p \o (received \o chunk)
        <3>1. /\ p \in Seq(Bytes) /\ received \in Seq(Bytes) /\ chunk \in Seq(Bytes)
            BY <1>2, <1>5, <1>9
        <3>. QED
            BY <3>1, ConcatAssoc
    <2>2. Seen \in Seq(Bytes)
        BY <1>2, <1>9, <1>10, Concat
    <2>. QED
        BY <1>1, <1>10, <2>1, <2>2, Zenon
<1>12. /\ term' \in Seq(Bytes) /\ IsLast(term', Seen') /\ Len(term') = longest'
    <2>1. /\ Window(term, chunk) \in Seq(Bytes)
          /\ Len(Window(term, chunk)) = Max({Len(term), Min({Len(chunk), 5})})
          /\ IsLast(Window(term, chunk), Seen \o chunk)
        BY <1>2, <1>5, <1>11, WindowIsLast, Zenon
    <2>. QED
        BY <1>1, <1>2, <1>5, <1>11, <2>1, Zenon
<1>13. longest' \in 0 .. 5
    <2>1. PICK m \in 0 .. 5 : m = Min({k, 5})
        BY <1>4, MinOfTwo
    <2>3. longest \in Nat /\ m \in Nat
        BY <1>2, <2>1
    <2>2. Max({longest, m}) = IF longest >= m THEN longest ELSE m
        BY <2>3, MaxOfTwo
    <2>. QED
        BY <1>1, <1>2, <2>1, <2>2
<1>16. /\ {term', received', wire', message'} \subseteq Seq(Bytes)
       /\ received' \o wire' = message' /\ mails' # 0
       /\ \E body \in Bodies : message' = body \o Terminator
    <2>1. \E body \in Bodies : message' = body \o Terminator
        BY <1>1, <1>3, Zenon
    <2>2. message' = message /\ mails' = mails /\ mails # 0
        BY <1>1, <1>2
    <2>. QED
        BY <1>2, <1>6, <1>8, <1>12, <2>1, <2>2, Zenon
<1>14. CASE Ended(term')
    <2>1. state' = "ExpectMail" /\ term' = Terminator
        BY <1>1, <1>14 DEF Ended
    <2>2. IsLast(Terminator, p \o received')
        BY <1>10, <1>12, <2>1, Zenon
    <2>3. wire' = <<>>
        BY <1>3, <1>6, <1>8, <1>9, <2>2, EndsOnce
    <2>4. state' # "ExpectData"
        BY <2>1
    <2>. QED
        BY <1>12, <1>13, <1>16, <1>17, <2>1, <2>3, <2>4, Zenon DEF Framed
<1>15. CASE ~ Ended(term')
    <2>1. state' = "ExpectData" /\ term' # Terminator
        BY <1>1, <1>15 DEF Ended
    <2>2. ASSUME wire' = <<>>, longest' = 5 PROVE FALSE
        <3>1. received' = b \o Terminator
            <4>1. received' \o <<>> = received'
                BY <1>8, ConcatEmptySeq
            <4>. QED
                BY <1>3, <1>8, <2>2, <4>1, Zenon
        <3>2. IsLast(term', p \o (b \o Terminator)) /\ Len(term') = 5
            BY <1>10, <1>12, <2>2, <3>1, Zenon
        <3>. QED
            BY <1>9, <1>12, <2>1, <3>2, EndsThen
    <2>3. wire' = <<>> => longest' < 5
        BY <1>13, <2>2
    <2>. QED
        BY <1>12, <1>13, <1>16, <1>17, <2>1, <2>3, Zenon DEF Framed
<1>. QED
    BY <1>14, <1>15

(* The steps keep the types.                                               *)
LEMMA NextTypes ==
    ASSUME Types, Next
    PROVE  Types'
<1> USE DEF GoTo, ClearEnvelope
<1>1. CASE Hello \/ Quit \/ Reset
    <2>1. /\ state' \in States /\ live' \in BOOLEAN /\ (state' = "Quit" => ~ live')
          /\ UNCHANGED <<mails, authed>>
        <3>1. CASE Hello
            BY <3>1 DEF Hello, Types, States, data
        <3>2. CASE Quit
            BY <3>2 DEF Quit, Types, States, data
        <3>3. CASE Reset
            BY <3>3 DEF Reset, Types, States, data
        <3>. QED
            BY <1>1, <3>1, <3>2, <3>3
    <2>2. ClearEnvelope \/ UNCHANGED envelope
        BY <1>1 DEF Hello, Quit, Reset
    <2>3. CASE ClearEnvelope
        <3>1. rcpts' = <<>> /\ from' = NoOne /\ agreed' = NoEnvelope
            BY <2>3
        <3>2. rcpts' \in Seq(Rcpts) /\ Len(rcpts') <= MaxRcpts
            BY <3>1, SmtpAssumption
        <3>3. agreed' \in [from : Addresses \cup {NoOne}, to : SUBSET Rcpts]
            BY <3>1 DEF NoEnvelope
        <3>. QED
            BY <2>1, <3>1, <3>2, <3>3 DEF Types
    <2>4. CASE UNCHANGED envelope
        BY <2>1, <2>4 DEF envelope, Types
    <2>. QED
        BY <2>2, <2>3, <2>4
<1>2. CASE StartAuth \/ Username \/ Password
    BY <1>2 DEF StartAuth, Username, Password, Types, States, data, envelope
<1>3. ASSUME NEW a \in Addresses, MailFrom(a) PROVE Types'
    <2>1. /\ from' \in Addresses \cup {NoOne}
          /\ agreed' \in [from : Addresses \cup {NoOne}, to : SUBSET Rcpts]
          /\ state' \in {state, "ExpectRecipient"} /\ live' = live
        <3>1. live = TRUE /\ [from |-> a, to |-> {}] \in [from : Addresses \cup {NoOne}, to : SUBSET Rcpts]
              /\ NoEnvelope \in [from : Addresses \cup {NoOne}, to : SUBSET Rcpts]
            BY <1>3 DEF MailFrom, NoEnvelope, ExpectsCommand, Types
        <3>. QED
            BY <1>3, <3>1 DEF MailFrom
    <2>. QED
        BY <1>3, <2>1 DEF MailFrom, Types, States, data, ExpectsCommand
<1>4. ASSUME NEW a \in Rcpts, RcptTo(a) PROVE Types'
    <2>1. agreed' \in [from : Addresses \cup {NoOne}, to : SUBSET Rcpts]
        BY <1>4 DEF RcptTo, Types
    <2>2. rcpts' \in Seq(Rcpts) /\ Len(rcpts') <= MaxRcpts
        <3>1. Len(rcpts) \in Nat /\ Len(rcpts) < MaxRcpts /\ rcpts' = Append(rcpts, a)
            BY <1>4 DEF RcptTo, Types
        <3>2. Append(rcpts, a) \in Seq(Rcpts) /\ Len(Append(rcpts, a)) = Len(rcpts) + 1
            BY AppendProperties DEF Types
        <3>. QED
            BY <3>1, <3>2, SmtpAssumption
    <2>. QED
        BY <1>4, <2>1, <2>2 DEF RcptTo, Types, data
<1>5. CASE StartData
    <2>1. mails' \in 0 .. MaxMails
        BY <1>5, SmtpAssumption DEF StartData, Types
    <2>. QED
        BY <1>5, <2>1 DEF StartData, Types, States, envelope, ExpectsCommand
<1>6. ASSUME NEW k \in 1 .. Len(wire), ReceiveData(k) PROVE Types'
    <2>1. state' \in {"ExpectMail", "ExpectData"} /\ live' = live
        BY <1>6 DEF ReceiveData, ExpectsData, Types
    <2>. QED
        BY <1>6, <2>1 DEF ReceiveData, Types, States, envelope
<1>7. CASE Disconnect
    BY <1>7 DEF Disconnect, Types, envelope, data
<1>. QED
    BY <1>1, <1>2, <1>3, <1>4, <1>5, <1>6, <1>7 DEF Next, Rcpts

(* Every step keeps it.                                                    *)
LEMMA NextIInv ==
    IInv /\ [Next]_vars => IInv'
<1> SUFFICES ASSUME IInv, [Next]_vars PROVE IInv'
    OBVIOUS
<1>1. Types'
    <2>1. UNCHANGED vars => Types'
        BY DEF vars, IInv, Types
    <2>. QED
        BY <2>1, NextTypes DEF IInv
<1>2. StartData => Framed'
    BY StartDataFramed
<1>3. ASSUME NEW k \in 1 .. Len(wire), ReceiveData(k) PROVE Framed'
    BY <1>3, ReceiveDataFramed
<1>4. ASSUME \/ Disconnect \/ Hello \/ Quit \/ Reset \/ StartAuth \/ Username \/ Password
             \/ UNCHANGED vars
      PROVE  Framed'
    <2>1. UNCHANGED data
        BY <1>4 DEF Disconnect, Hello, Quit, Reset, StartAuth, Username, Password, vars, data
    <2>2. state' = state \/ (state # "ExpectData" /\ state' # "ExpectData")
        BY <1>4 DEF Disconnect, Hello, Quit, Reset, StartAuth, Username, Password, vars,
                    ExpectsCommand, GoTo
    <2>. QED
        BY <2>1, <2>2, CommandsFramed DEF IInv
<1>5. ASSUME NEW a, MailFrom(a) \/ RcptTo(a) PROVE Framed'
    <2>1. UNCHANGED data /\ state # "ExpectData" /\ state' # "ExpectData"
        BY <1>5 DEF MailFrom, RcptTo, GoTo
    <2>. QED
        BY <2>1, CommandsFramed DEF IInv
<1>6. Framed'
    BY <1>2, <1>3, <1>4, <1>5 DEF Next
<1>. QED
    BY <1>1, <1>6 DEF IInv

(* So it holds always.                                                     *)
LEMMA Invariance ==
    Spec => []IInv
    BY InitIInv, NextIInv, PTL DEF Spec

(* Whatever the messages, the reads they are cut into and the commands     *)
(* between them: what is read as data is what was sent, the file holds it  *)
(* if no write of that message failed, no byte of a message is read as a   *)
(* command, and isTermination misses the end only when every read of the   *)
(* session was shorter than the terminator.                                *)
THEOREM MessagesAreFramed ==
    Spec => []MessageFramed
<1>1. IInv => TypeOK
    <2> SUFFICES ASSUME IInv PROVE TypeOK
        OBVIOUS
    <2>1. Len(term) <= 5 /\ longest \in 0 .. 5 /\ lost \in BOOLEAN
        BY DEF IInv, Framed
    <2>. QED
        BY <2>1 DEF IInv, Types, TypeOK, States, Rcpts
<1>2. IInv => ReadAsSent /\ StoredAsRead /\ StuckOnlyIfShort
    BY DEF IInv, Framed, ReadAsSent, StoredAsRead, StuckOnlyIfShort, ExpectsCommand
<1>3. IInv => MessageFramed
    BY <1>1, <1>2 DEF MessageFramed
<1>. QED
    BY <1>3, Invariance, PTL

----------------------------------------------------------------------------
(* Who may send mail, and to whom                                          *)

(* The states that take mail are reached through a password that was       *)
(* accepted, and no command of theirs asks for another.                    *)
THEOREM AuthenticatedBeforeMail ==
    Spec => []AuthBeforeMail
<1>1. Init => AuthBeforeMail
    BY DEF Init, AuthBeforeMail
<1>2. ASSUME AuthBeforeMail, [Next]_vars PROVE AuthBeforeMail'
    <2>1. CASE Hello \/ Quit \/ Reset
        BY <1>2, <2>1 DEF Hello, Quit, Reset, GoTo, AuthBeforeMail
    <2>2. CASE StartAuth \/ Username \/ Password
        BY <1>2, <2>2 DEF StartAuth, Username, Password, GoTo, AuthBeforeMail
    <2>3. ASSUME NEW a, MailFrom(a) \/ RcptTo(a) PROVE AuthBeforeMail'
        BY <1>2, <2>3 DEF MailFrom, RcptTo, GoTo, AuthBeforeMail
    <2>4. CASE StartData
        BY <1>2, <2>4 DEF StartData, GoTo, AuthBeforeMail
    <2>5. ASSUME NEW k \in 1 .. Len(wire), ReceiveData(k) PROVE AuthBeforeMail'
        BY <1>2, <2>5 DEF ReceiveData, ExpectsData, GoTo, AuthBeforeMail
    <2>6. CASE Disconnect \/ UNCHANGED vars
        BY <1>2, <2>6 DEF Disconnect, vars, AuthBeforeMail
    <2>. QED
        BY <1>2, <2>1, <2>2, <2>3, <2>4, <2>5, <2>6 DEF Next
<1>. QED
    BY <1>1, <1>2, PTL DEF Spec

(* What is in a sequence stays in it.                                      *)
LEMMA Appended ==
    ASSUME NEW S, NEW s \in Seq(S), NEW e \in S
    PROVE  ToSet(s) \cup {e} \subseteq ToSet(Append(s, e))
<1>1. /\ Len(s) \in Nat /\ DOMAIN s = 1 .. Len(s)
      /\ DOMAIN Append(s, e) = 1 .. Len(s) + 1
    OBVIOUS
<1>2. /\ \A i \in DOMAIN s : i \in DOMAIN Append(s, e) /\ Append(s, e)[i] = s[i]
      /\ Len(s) + 1 \in DOMAIN Append(s, e) /\ Append(s, e)[Len(s) + 1] = e
    BY <1>1
<1>. QED
    BY <1>2 DEF ToSet

(* The sender and the recipients that a 250 acknowledged are those of the  *)
(* message that follows: no HELO, RSET or refused command in between       *)
(* leaves the envelope and the state apart.                                *)
THEOREM EnvelopeIsKept ==
    Spec => []EnvelopeKept
<1>1. Init => EnvelopeKept
    BY DEF Init, EnvelopeKept
<1>2. ASSUME Types, EnvelopeKept, [Next]_vars PROVE EnvelopeKept'
    <2>1. ASSUME UNCHANGED envelope,
                 state' \in {"ExpectRecipient", "ExpectData"} =>
                     state \in {"ExpectRecipient", "ExpectData"}
          PROVE  EnvelopeKept'
        BY <1>2, <2>1 DEF envelope, EnvelopeKept
    <2>2. ASSUME ClearEnvelope PROVE EnvelopeKept'
        BY <2>2 DEF ClearEnvelope, NoEnvelope, EnvelopeKept
    <2>3. CASE Hello \/ Quit \/ Reset
        BY <2>1, <2>2, <2>3 DEF Hello, Quit, Reset, GoTo
    <2>4. CASE StartAuth \/ Username \/ Password
        BY <2>1, <2>4 DEF StartAuth, Username, Password, GoTo
    <2>5. ASSUME NEW a, MailFrom(a) PROVE EnvelopeKept'
        BY <2>5 DEF MailFrom, GoTo, EnvelopeKept
    <2>6. ASSUME NEW a \in Rcpts, RcptTo(a) PROVE EnvelopeKept'
        <3>1. /\ state = "ExpectRecipient" /\ from' = from /\ rcpts' = Append(rcpts, a)
              /\ agreed' \in {agreed, [agreed EXCEPT !.to = agreed.to \cup {a}]}
            BY <2>6 DEF RcptTo
        <3>2. agreed'.from = agreed.from /\ agreed'.to \subseteq agreed.to \cup {a}
            BY <1>2, <3>1 DEF Types
        <3>3. agreed.to \subseteq ToSet(rcpts) /\ from = agreed.from
            BY <1>2, <3>1 DEF EnvelopeKept
        <3>4. ToSet(rcpts) \cup {a} \subseteq ToSet(rcpts')
            BY <1>2, <3>1, Appended DEF Types
        <3>5. agreed'.to \subseteq ToSet(rcpts')
            BY <3>2, <3>3, <3>4
        <3>. QED
            BY <3>1, <3>2, <3>3, <3>5 DEF EnvelopeKept
    <2>7. CASE StartData
        BY <2>1, <2>7 DEF StartData
    <2>8. ASSUME NEW k \in 1 .. Len(wire), ReceiveData(k) PROVE EnvelopeKept'
        BY <2>1, <2>8 DEF ReceiveData, ExpectsData
    <2>9. CASE Disconnect \/ UNCHANGED vars
        BY <2>1, <2>9 DEF Disconnect, vars, envelope
    <2>. QED
        BY <1>2, <2>3, <2>4, <2>5, <2>6, <2>7, <2>8, <2>9 DEF Next, Rcpts
<1>3. IInv => Types
    BY DEF IInv
<1>. QED
    BY <1>1, <1>2, <1>3, Invariance, PTL DEF Spec

==============================================================================
