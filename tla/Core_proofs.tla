------------------------------ MODULE Core_proofs ------------------------------
(***************************************************************************)
(* Proofs about two parts of gpvdm_core that any of its simulations uses.  *)
(*                                                                         *)
(* The configuration it loads (Json), of any depth: what is written is     *)
(* laid out item by item, with the commas where they belong (LaidTo), and  *)
(* from one item the reader comes to the next one, with the members it has *)
(* read in the objects that are open (Behindhand).                         *)
(*                                                                         *)
(* Its thread pool (Server2), for any number of workers, batches and jobs. *)
(***************************************************************************)
EXTENDS Server2, MCLoad, SequenceTheorems, WellFoundedInduction, FiniteSetTheorems, FunctionTheorems, TLAPS

-----------------------------------------------------------------------------
(* A configuration as text: reading.                                        *)

\* The order of the natural numbers, as the theorems on well-founded relations want it.
Less == {r \in Nat \X Nat : r[1] < r[2]}

\* Every set of natural numbers has a least one.
LEMMA Least ==
  ASSUME NEW S \in SUBSET Nat, S # {}
  PROVE  \E n \in S : \A m \in S : n <= m
<1>1. OpToRel(<, Nat) = Less
  BY DEF OpToRel, Less
<1>2. IsWellFoundedOn(Less, Nat)
  BY <1>1, NatLessThanWellFounded, Zenon
<1>3. PICK n \in S : \A m \in S : <<m, n>> \notin Less
  BY WFMin, <1>2, Zenon
<1>4. \A m \in Nat : m < n => <<m, n>> \in Less
  BY DEF Less
<1>5. \A m \in S : ~(m < n)
  BY <1>3, <1>4
<1>6. QED BY <1>5

\* What texts are made of.
Ink == STRING \cup File!White \cup {File!Quote, File!Comma, File!LBrace, File!RBrace, File!Colon}

\* The marks of a text are different characters.
LEMMA Different ==
  /\ File!Quote # File!Comma /\ File!Quote # File!Colon /\ File!Quote # File!LBrace
  /\ File!Quote # File!RBrace /\ File!Quote # File!Blank /\ File!Quote # File!NewLine
  /\ File!Quote # File!Tab
  /\ File!Comma # File!Colon /\ File!Comma # File!LBrace /\ File!Comma # File!RBrace
  /\ File!Comma # File!Blank /\ File!Comma # File!NewLine /\ File!Comma # File!Tab
  /\ File!Colon # File!LBrace /\ File!Colon # File!RBrace /\ File!Colon # File!Blank
  /\ File!Colon # File!NewLine /\ File!Colon # File!Tab
  /\ File!LBrace # File!RBrace /\ File!LBrace # File!Blank /\ File!LBrace # File!NewLine
  /\ File!LBrace # File!Tab
  /\ File!RBrace # File!Blank /\ File!RBrace # File!NewLine /\ File!RBrace # File!Tab
  BY Zenon DEF File!Quote, File!Comma, File!Colon, File!LBrace, File!RBrace, File!Blank, File!NewLine, File!Tab

\* Quotes, commas, braces and the colon are not white space, nor one another.
LEMMA Characters ==
  /\ {File!Quote, File!Comma, File!LBrace, File!RBrace, File!Colon} \cap File!White = {}
  /\ {File!Blank, File!NewLine, File!Tab} = File!White
  /\ File!Quote \notin {File!Comma, File!LBrace, File!RBrace, File!Colon}
  /\ File!Comma \notin {File!LBrace, File!RBrace, File!Colon} /\ File!LBrace # File!RBrace
  BY Different DEF File!White

\* The marks and the words of an item are symbols of texts.
LEMMA InInk ==
  /\ File!White \subseteq Ink /\ {File!Quote, File!Comma, File!LBrace, File!RBrace, File!Colon} \subseteq Ink
  /\ STRING \ {File!Quote} \subseteq Ink
  BY DEF Ink

\* The first position that passes is the only one.
LEMMA FirstInk ==
  ASSUME NEW p \in Nat, NEW q \in Nat, p <= q, q <= Len(text), Len(text) \in Nat,
         \A a \in p .. q - 1 : text[a] \in File!White, text[q] \notin File!White
  PROVE  File!Gobble(p) = q
<1> DEFINE k == File!First(p, LAMBDA j : text[j] \notin File!White)
           Is(m) == /\ m \in p .. Len(text) + 1
                    /\ m = Len(text) + 1 \/ text[m] \notin File!White
                    /\ \A j \in p .. m - 1 : ~(text[j] \notin File!White)
<1>1. k = CHOOSE m \in p .. Len(text) + 1 : 
             /\ m = Len(text) + 1 \/ text[m] \notin File!White
             /\ \A j \in p .. m - 1 : ~(text[j] \notin File!White)
  BY DEF File!First
<1>2. Is(q)
  OBVIOUS
<1> HIDE DEF k
<1>3. Is(k)
  BY <1>1, <1>2
<1>4. k = q
  BY <1>2, <1>3
<1>5. File!Gobble(p) = IF k > Len(text) THEN Len(text) ELSE k
  BY DEF File!Gobble, k
<1>6. QED BY <1>4, <1>5

\* Three pieces, put together either way.
Associates(s, t, u) == (s \o t) \o u = s \o (t \o u)

LEMMA ConcatAssociates ==
  ASSUME NEW S, NEW s \in Seq(S), NEW t \in Seq(S), NEW u \in Seq(S)
  PROVE  Associates(s, t, u)
BY ConcatAssociative DEF Associates

\* A part is what stands there.
LEMMA SubSeqIs ==
  ASSUME NEW t, NEW S, NEW w \in Seq(S), NEW p \in Int,
         \A b \in p .. p + Len(w) - 1 : t[b] = w[b - p + 1]
  PROVE  SubSeq(t, p, p + Len(w) - 1) = w
<1>1. Len(w) \in Nat /\ \A a \in 1 .. Len(w) : w[a] \in S
  BY LenProperties, ElementOfSeq
<1>2. \A b \in p .. p + Len(w) - 1 : t[b] \in S
  BY <1>1
<1>3. /\ SubSeq(t, p, p + Len(w) - 1) \in Seq(S)
      /\ Len(SubSeq(t, p, p + Len(w) - 1)) = Len(w)
      /\ \A a \in 1 .. Len(w) : SubSeq(t, p, p + Len(w) - 1)[a] = t[p + a - 1]
  BY <1>1, <1>2, SubSeqProperties
<1>4. \A a \in 1 .. Len(w) : SubSeq(t, p, p + Len(w) - 1)[a] = w[a]
  BY <1>1, <1>3
<1>5. QED BY <1>3, <1>4, SeqEqual

\* The first quote.
LEMMA FirstQuote ==
  ASSUME NEW p \in Nat, NEW q \in Nat, p <= q, q <= Len(text) + 1, Len(text) \in Nat,
         \A a \in p .. q - 1 : text[a] # File!Quote, q = Len(text) + 1 \/ text[q] = File!Quote
  PROVE  File!NextQuote(p) = q
<1> DEFINE k == File!NextQuote(p)
           Is(m) == /\ m \in p .. Len(text) + 1
                    /\ m = Len(text) + 1 \/ text[m] = File!Quote
                    /\ \A j \in p .. m - 1 : ~(text[j] = File!Quote)
<1>1. k = CHOOSE m \in p .. Len(text) + 1 :
             /\ m = Len(text) + 1 \/ text[m] = File!Quote
             /\ \A j \in p .. m - 1 : ~(text[j] = File!Quote)
  BY DEF File!First, File!NextQuote
<1>2. Is(q)
  OBVIOUS
<1> HIDE DEF k
<1>3. Is(k)
  BY <1>1, <1>2
<1>4. k = q
  BY <1>2, <1>3
<1>5. QED BY <1>4 DEF k

\* There is a first quote, or none.
LEMMA QuoteExists ==
  ASSUME NEW p \in Nat, p <= Len(text) + 1, Len(text) \in Nat
  PROVE  /\ File!NextQuote(p) \in p .. Len(text) + 1
         /\ File!NextQuote(p) = Len(text) + 1 \/ text[File!NextQuote(p)] = File!Quote
<1> DEFINE Bad == {q \in Nat : q \in p .. Len(text) + 1 /\ (q = Len(text) + 1 \/ text[q] = File!Quote)}
<1>1. Len(text) + 1 \in Bad
  OBVIOUS
<1>2. PICK q \in Bad : \A m \in Bad : q <= m
  BY <1>1, Least
<1>3. \A a \in p .. q - 1 : text[a] # File!Quote
  BY <1>2
<1>4. File!NextQuote(p) = q
  BY <1>2, <1>3, FirstQuote
<1>5. QED BY <1>2, <1>4

\* A name and the colon behind it.
LEMMA NameIs ==
  ASSUME NEW p \in Nat \ {0}, NEW name \in Seq(Ink), Len(text) \in Nat,
         p + Len(name) + 2 <= Len(text),
         text[p] = File!Quote, text[p + Len(name) + 1] = File!Quote, text[p + Len(name) + 2] = File!Colon,
         \A a \in 1 .. Len(name) : text[p + a] = name[a] /\ name[a] # File!Quote
  PROVE  File!GetName(p) = [name |-> name, pos |-> p + Len(name) + 3, ok |-> TRUE]
<1> DEFINE n == Len(name)
           close == File!NextQuote(p + 1)
<1>0. n \in Nat /\ DOMAIN name = 1 .. n
  BY LenProperties
<1>1. File!At(p) = File!Quote /\ File!At(p + n + 2) = File!Colon
  BY <1>0 DEF File!At
<1>2. \A b \in p + 1 .. p + n : text[b] = name[b - p] /\ text[b] # File!Quote
  BY <1>0
<1>3. close = p + n + 1
  <2>1. /\ p + 1 \in Nat /\ p + n + 1 \in Nat /\ p + 1 <= p + n + 1 /\ p + n + 1 <= Len(text) + 1
        /\ \A b \in p + 1 .. (p + n + 1) - 1 : text[b] # File!Quote
    BY <1>0, <1>2
  <2>2. QED BY <2>1, <1>0, FirstQuote
<1>4. File!Gobble(p + n + 2) = p + n + 2
  <2>1. text[p + n + 2] \notin File!White
    BY Characters
  <2>2. \A b \in p + n + 2 .. p + n + 2 - 1 : text[b] \in File!White
    BY <1>0
  <2>3. QED BY <1>0, <2>1, <2>2, FirstInk
<1>5. SubSeq(text, p + 1, p + n) = name
  BY <1>0, <1>2, SubSeqIs
<1>6. /\ SubSeq(text, p + 1, close - 1) = name
      /\ File!Gobble(close + 1) = p + n + 2
      /\ ~(close > Len(text))
  BY <1>0, <1>3, <1>4, <1>5
<1>7. File!GetName(p) = [name |-> name, pos |-> (p + n + 2) + 1, ok |-> TRUE]
  BY <1>1, <1>6 DEF File!GetName
<1>8. QED BY <1>0, <1>7
\* A value ends where the first comma or brace stands that is not in quotes.
LEMMA ValueEndIs ==
  ASSUME NEW p \in Nat, NEW q \in Nat, p <= q, q <= Len(text), Len(text) \in Nat,
         text[q] \in {File!Comma, File!RBrace}, ~File!Inside(p, q),
         \A a \in p .. q - 1 : text[a] \in {File!Comma, File!RBrace} => File!Inside(p, a)
  PROVE  File!ValueEnd(p) = q
<1> DEFINE k == File!ValueEnd(p)
           Is(m) == /\ m \in p .. Len(text) + 1
                    /\ m = Len(text) + 1 \/ (text[m] \in {File!Comma, File!RBrace} /\ ~File!Inside(p, m))
                    /\ \A j \in p .. m - 1 : ~(text[j] \in {File!Comma, File!RBrace} /\ ~File!Inside(p, j))
<1>1. k = CHOOSE m \in p .. Len(text) + 1 :
             /\ m = Len(text) + 1 \/ (text[m] \in {File!Comma, File!RBrace} /\ ~File!Inside(p, m))
             /\ \A j \in p .. m - 1 : ~(text[j] \in {File!Comma, File!RBrace} /\ ~File!Inside(p, j))
  BY DEF File!First, File!ValueEnd
<1>2. Is(q)
  OBVIOUS
<1> HIDE DEF k
<1>3. Is(k)
  BY <1>1, <1>2
<1>4. k = q
  BY <1>2, <1>3
<1>5. QED BY <1>4 DEF k

\* The quotes decide what is inside.
LEMMA InsideIs ==
  ASSUME NEW p, NEW k, NEW v, {j \in p .. k : text[j] = File!Quote} = {v}
  PROVE  File!Inside(p, k)
<1>1. Cardinality({v}) = 1
  BY FS_Singleton
<1>2. QED BY <1>1 DEF File!Inside, File!Cardinality, Cardinality

\* Before the first quote, nothing is inside.
LEMMA OutsideIs ==
  ASSUME NEW p, NEW k, {j \in p .. k : text[j] = File!Quote} = {}
  PROVE  ~File!Inside(p, k)
<1>1. Cardinality({}) = 0
  BY FS_EmptySet
<1>2. ~(Cardinality({}) = 1)
  BY <1>1
<1>3. QED BY <1>2 DEF File!Inside, File!Cardinality, Cardinality

\* Behind the second quote, nothing is.
LEMMA BehindIs ==
  ASSUME NEW p, NEW k, NEW v, NEW w, v # w, {j \in p .. k : text[j] = File!Quote} = {v, w}
  PROVE  ~File!Inside(p, k)
<1>1. IsFiniteSet({v}) /\ Cardinality({v}) = 1 /\ w \notin {v}
  BY FS_Singleton
<1>2. Cardinality({v} \cup {w}) = Cardinality({v}) + 1
  BY <1>1, FS_AddElement
<1>3. {v} \cup {w} = {v, w}
  OBVIOUS
<1>4. Cardinality({v, w}) = 1 + 1
  BY <1>1, <1>2, <1>3
<1>5. ~(Cardinality({v, w}) = 1)
  BY <1>4
<1>6. QED BY <1>5 DEF File!Inside, File!Cardinality, Cardinality

\* White space after a word is dropped.
LEMMA Trimmed ==
  ASSUME NEW u, NEW k \in 1 .. Len(u), Len(u) \in Nat, DOMAIN u = 1 .. Len(u), u # <<>>,
         u[k] \notin File!White, \A j \in k + 1 .. Len(u) : u[j] \in File!White
  PROVE  File!RemoveSpaceAfter(u) = SubSeq(u, 1, k)
<1> DEFINE Is(m) == /\ m \in DOMAIN u
                    /\ m = 1 \/ u[m] \notin File!White
                    /\ \A j \in m + 1 .. Len(u) : u[j] \in File!White
           x == CHOOSE m \in DOMAIN u :
                  /\ m = 1 \/ u[m] \notin File!White
                  /\ \A j \in m + 1 .. Len(u) : u[j] \in File!White
<1>1. Is(k)
  OBVIOUS
<1>2. Is(x)
  BY <1>1
<1>3. File!RemoveSpaceAfter(u) = SubSeq(u, 1, x)
  BY DEF File!RemoveSpaceAfter
<1> HIDE DEF x
<1>4. x = k
  BY <1>1, <1>2
<1>5. QED BY <1>3, <1>4

\* A value in quotes.
LEMMA QuotedIs ==
  ASSUME NEW p \in Nat \ {0}, NEW q \in Nat, NEW data \in Seq(Ink), text \in Seq(Ink),
         p + Len(data) + 1 < q, q <= Len(text),
         text[p] = File!Quote, text[p + Len(data) + 1] = File!Quote, text[q] \in {File!Comma, File!RBrace},
         \A a \in 1 .. Len(data) : text[p + a] = data[a] /\ data[a] # File!Quote,
         \A b \in p + Len(data) + 2 .. q - 1 : text[b] \in File!White
  PROVE  File!GetValue(p) = [data |-> data, pos |-> q]
<1> DEFINE n == Len(data)
           w == p + n + 1
           u == SubSeq(text, p + 1, q - 1)
           x == SubSeq(u, 1, n + 1)
<1>0. /\ n \in Nat /\ DOMAIN data = 1 .. n /\ Len(text) \in Nat
      /\ \A a \in 1 .. Len(text) : text[a] \in Ink
  BY LenProperties, ElementOfSeq
<1>1. \A b \in p + 1 .. p + n : text[b] = data[b - p] /\ text[b] # File!Quote
  BY <1>0
<1>2. text[q] # File!Quote /\ \A b \in w + 1 .. q - 1 : text[b] \notin {File!Quote, File!Comma, File!RBrace}
  BY <1>0, Characters
<1>3. ASSUME NEW b \in p .. w - 1 PROVE {j \in p .. b : text[j] = File!Quote} = {p}
  <2>1. \A j \in p .. b : j # p => j \in p + 1 .. p + n
    BY <1>0
  <2>2. \A j \in p .. b : text[j] = File!Quote <=> j = p
    BY <1>1, <2>1
  <2>3. p \in p .. b
    BY <1>0
  <2>4. QED BY <2>2, <2>3
<1>4. {j \in p .. q : text[j] = File!Quote} = {p, w}
  BY <1>0, <1>1, <1>2
<1>5. ASSUME NEW b \in p .. w - 1 PROVE File!Inside(p, b)
  <2>1. {j \in p .. b : text[j] = File!Quote} = {p}
    BY <1>3
  <2>2. QED BY ONLY <2>1, InsideIs
<1>6. ~File!Inside(p, q)
  <2>1. p # w
    BY <1>0
  <2>2. QED BY <1>4, <2>1, BehindIs
<1>7. \A b \in p .. q - 1 : text[b] \in {File!Comma, File!RBrace} => File!Inside(p, b)
  BY <1>0, <1>2, <1>5, Characters
<1>8. File!ValueEnd(p) = q
  <2>1. /\ p \in Nat /\ q \in Nat /\ p <= q /\ q <= Len(text) /\ Len(text) \in Nat
        /\ text[q] \in {File!Comma, File!RBrace}
    BY <1>0
  <2>2. QED BY ONLY <1>6, <1>7, <2>1, ValueEndIs
<1>9. File!NextQuote(p) = p
  <2>1. p <= p /\ p <= Len(text) + 1 /\ \A b \in p .. p - 1 : text[b] # File!Quote
    BY <1>0
  <2>2. QED BY <1>0, <2>1, FirstQuote
<1>10. /\ u \in Seq(Ink) /\ Len(u) = q - p - 1
       /\ \A a \in 1 .. q - p - 1 : u[a] = text[p + a]
  <2>1. \A b \in p + 1 .. q - 1 : text[b] \in Ink
    BY <1>0
  <2>2. /\ u \in Seq(Ink) /\ Len(u) = IF p + 1 <= q - 1 THEN (q - 1) - (p + 1) + 1 ELSE 0
        /\ \A a \in 1 .. (q - 1) - (p + 1) + 1 : u[a] = text[(p + 1) + a - 1]
    BY <2>1, SubSeqProperties
  <2> HIDE DEF u
  <2>3. QED BY <1>0, <2>2
<1>11. File!WithoutOpening(p, q) = u
  <2>1. SubSeq(text, p, p - 1) = <<>>
    BY SubSeqEmpty
  <2>2. <<>> \o u = u
    BY <1>10, ConcatEmptySeq
  <2>3. ~(File!NextQuote(p) >= q) /\ File!NextQuote(p) + 1 = p + 1 /\ File!NextQuote(p) - 1 = p - 1
    BY <1>0, <1>9
  <2>4. File!WithoutOpening(p, q) = SubSeq(text, p, p - 1) \o SubSeq(text, p + 1, q - 1)
    <3>1. File!WithoutOpening(p, q) =
            SubSeq(text, p, File!NextQuote(p) - 1) \o SubSeq(text, File!NextQuote(p) + 1, q - 1)
      BY <2>3 DEF File!WithoutOpening
    <3>2. QED BY ONLY <2>3, <3>1
  <2>5. QED BY ONLY <2>1, <2>2, <2>4
<1>12. File!RemoveSpaceAfter(u) = x
  <2>1. /\ n + 1 \in 1 .. Len(u) /\ Len(u) \in Nat /\ DOMAIN u = 1 .. Len(u) /\ u # <<>>
    <3> HIDE DEF u
    <3>1. n + 1 \in 1 .. Len(u) /\ Len(u) \in Nat
      BY <1>0, <1>10
    <3>2. DOMAIN u = 1 .. Len(u) /\ u # <<>>
      BY <1>10, <3>1, LenProperties, EmptySeq
    <3>3. QED BY <3>1, <3>2
  <2>2. u[n + 1] = File!Quote
    BY <1>0, <1>10
  <2>3. \A j \in n + 2 .. Len(u) : u[j] \in File!White
    BY <1>0, <1>10
  <2>4. u[n + 1] \notin File!White /\ \A j \in (n + 1) + 1 .. Len(u) : u[j] \in File!White
    BY <1>0, <2>2, <2>3, Characters
  <2> HIDE DEF u
  <2>5. QED BY <2>1, <2>4, Trimmed
<1>13. /\ x \in Seq(Ink) /\ Len(x) = n + 1
       /\ \A a \in 1 .. n + 1 : x[a] = u[a]
  <2>1. \A a \in 1 .. n + 1 : u[a] \in Ink
    BY <1>0, <1>10
  <2>2. QED BY <1>0, <2>1, SubSeqProperties
<1>14. x[n + 1] = File!Quote /\ x # <<>>
  <2>1. x[n + 1] = u[n + 1] /\ u[n + 1] = text[p + (n + 1)]
    BY <1>0, <1>10, <1>13
  <2> HIDE DEF x, u
  <2>2. Len(x) # 0 /\ Len(<<>>) = 0
    BY <1>0, <1>13, EmptySeq
  <2>3. x # <<>>
    BY <2>2
  <2>4. QED BY <1>0, <2>1, <2>3
<1>15. SubSeq(x, 1, n) = data
  <2>1. \A b \in 1 .. n : x[b] = data[b]
    BY <1>0, <1>10, <1>13
  <2> HIDE DEF x, u
  <2>2. /\ data \in Seq(Ink) /\ 1 \in Int /\ 1 + Len(data) - 1 = n
        /\ \A b \in 1 .. 1 + Len(data) - 1 : x[b] = data[b - 1 + 1]
    BY <1>0, <2>1
  <2>3. SubSeq(x, 1, 1 + Len(data) - 1) = data
    BY ONLY <2>2, SubSeqIs
  <2>4. QED BY ONLY <2>2, <2>3
<1> HIDE DEF x, u
<1>16. File!Last(x) = File!Quote /\ File!Front(x) = data
  BY <1>0, <1>13, <1>14, <1>15 DEF File!Last, File!Front
<1>17. QED BY <1>0, <1>8, <1>11, <1>12, <1>14, <1>16 DEF File!GetValue

\* A number.
LEMMA NumberIs ==
  ASSUME NEW p \in Nat \ {0}, NEW q \in Nat, NEW data \in Seq(Ink), text \in Seq(Ink),
         Len(data) = 1, data[1] \notin File!White \cup {File!Quote, File!Comma, File!RBrace},
         p < q, q <= Len(text), text[p] = data[1], text[q] \in {File!Comma, File!RBrace},
         \A b \in p + 1 .. q - 1 : text[b] \in File!White
  PROVE  File!GetValue(p) = [data |-> data, pos |-> q]
<1> DEFINE u == SubSeq(text, p, q - 1)
<1>0. /\ Len(text) \in Nat /\ \A a \in 1 .. Len(text) : text[a] \in Ink
  BY LenProperties, ElementOfSeq
<1>1. \A b \in p .. q - 1 : text[b] \notin {File!Quote, File!Comma, File!RBrace}
  BY Characters
<1>2. \A b \in p .. q : text[b] # File!Quote
  BY <1>1, Characters
<1>3. ~File!Inside(p, q)
  <2>1. {j \in p .. q : text[j] = File!Quote} = {}
    BY <1>2
  <2>2. QED BY <2>1, OutsideIs, 0 # 1
<1>4. File!ValueEnd(p) = q
  <2>1. /\ p \in Nat /\ q \in Nat /\ p <= q /\ q <= Len(text) /\ Len(text) \in Nat
        /\ text[q] \in {File!Comma, File!RBrace}
    BY <1>0
  <2>2. QED BY ONLY <1>1, <1>3, <2>1, ValueEndIs
<1>5. File!NextQuote(p) >= q
  <2>1. PICK k \in p .. Len(text) + 1 : File!NextQuote(p) = k
    <3>1. p <= Len(text) + 1
      BY <1>0
    <3>2. QED BY <1>0, <3>1, QuoteExists
  <2>2. k = Len(text) + 1 \/ text[k] = File!Quote
    BY <1>0, <2>1, QuoteExists
  <2>3. QED BY <1>0, <1>2, <2>1, <2>2
<1>6. /\ u \in Seq(Ink) /\ Len(u) = q - p
      /\ \A a \in 1 .. q - p : u[a] = text[p + a - 1]
  <2>1. \A b \in p .. q - 1 : text[b] \in Ink
    BY <1>0
  <2>2. /\ u \in Seq(Ink) /\ Len(u) = IF p <= q - 1 THEN (q - 1) - p + 1 ELSE 0
        /\ \A a \in 1 .. (q - 1) - p + 1 : u[a] = text[p + a - 1]
    BY <2>1, SubSeqProperties
  <2> HIDE DEF u
  <2>3. QED BY <1>0, <2>2
<1>7. File!WithoutOpening(p, q) = u
  BY <1>5 DEF File!WithoutOpening
<1>8. File!RemoveSpaceAfter(u) = SubSeq(u, 1, 1)
  <2> HIDE DEF u
  <2>1. Len(u) \in Nat \ {0} /\ DOMAIN u = 1 .. Len(u)
    BY <1>6, LenProperties
  <2>2. 1 \in 1 .. Len(u) /\ Len(u) \in Nat /\ u # <<>> /\ 1 + 1 = 2
    BY <2>1, EmptySeq
  <2>3. u[1] \notin File!White
    BY <1>6
  <2>4. \A j \in 2 .. Len(u) : u[j] \in File!White
    <3>1. SUFFICES ASSUME NEW j \in 2 .. Len(u)
                   PROVE  u[j] \in File!White
      OBVIOUS
    <3>2. /\ j \in 1 .. q - p /\ p + j - 1 \in p + 1 .. q - 1
      BY <1>0, <1>6
    <3>3. u[j] = text[p + j - 1]
      BY ONLY <1>6, <3>2
    <3>4. QED BY <3>2, <3>3
  <2>5. QED BY ONLY <2>1, <2>2, <2>3, <2>4, Trimmed
<1>9. SubSeq(u, 1, 1) = data
  <2>1. \A b \in 1 .. 1 : u[b] = data[b]
    BY <1>6
  <2>2. QED BY <2>1, SubSeqIs
<1>10. File!Last(data) # File!Quote
  BY DEF File!Last
<1> HIDE DEF u
<1>11. ~(q > Len(text))
  BY <1>0
<1>12. File!RemoveSpaceAfter(u) = data
  BY <1>8, <1>9
<1>13. QED BY ONLY <1>4, <1>7, <1>10, <1>11, <1>12 DEF File!GetValue

-----------------------------------------------------------------------------
(* A configuration as text: what is written of each item, and where.        *)

\* An item is written so.
Core(it) ==
  CASE it.kind = "value" -> File!Key(it) \o File!Quoted(it.data)
    [] it.kind = "object" -> File!Key(it) \o <<File!Blank, File!LBrace>>
    [] it.kind = "end" -> <<File!RBrace>>

\* The root ends like any object.
Items(c) == Append(c, File!End)

\* One sequence behind the other.
LEMMA ConcatIs ==
  ASSUME NEW S, NEW s \in Seq(S), NEW t \in Seq(S)
  PROVE  /\ s \o t \in Seq(S) /\ Len(s) \in Nat /\ Len(t) \in Nat
         /\ Len(s \o t) = Len(s) + Len(t)
         /\ \A a \in 1 .. Len(s) : (s \o t)[a] = s[a]
         /\ \A a \in 1 .. Len(t) : (s \o t)[Len(s) + a] = t[a]
<1>1. /\ s \o t \in Seq(S) /\ Len(s \o t) = Len(s) + Len(t)
      /\ \A a \in 1 .. Len(s) + Len(t) : (s \o t)[a] = IF a <= Len(s) THEN s[a] ELSE t[a - Len(s)]
  BY ConcatProperties
<1>2. Len(s) \in Nat /\ Len(t) \in Nat
  BY LenProperties
<1> DEFINE m == Len(s)
           n == Len(t)
           u == s \o t
<1>3. /\ m \in Nat /\ n \in Nat
      /\ \A a \in 1 .. m + n : u[a] = IF a <= m THEN s[a] ELSE t[a - m]
  BY <1>1, <1>2
<1> HIDE DEF m, n, u
<1>4. \A a \in 1 .. m : u[a] = s[a]
  BY <1>3
<1>5. ASSUME NEW a \in 1 .. n PROVE u[m + a] = t[a]
  <2>1. m + a \in 1 .. m + n /\ ~(m + a <= m) /\ (m + a) - m = a
    BY <1>3
  <2>2. QED BY <1>3, <2>1
<1>6. QED BY <1>1, <1>2, <1>4, <1>5 DEF m, n, u

\* The parts of an item.
LEMMA ItemShape ==
  ASSUME NEW it \in File!Item
  PROVE  /\ it.kind \in {"value", "object", "end"}
         /\ it.name \in Seq(Ink) /\ it.data \in Seq(Ink)
         /\ Len(it.name) \in Nat /\ Len(it.data) \in Nat
         /\ \A a \in 1 .. Len(it.name) : it.name[a] # File!Quote
         /\ \A a \in 1 .. Len(it.data) : it.data[a] # File!Quote
         /\ it = [kind |-> it.kind, name |-> it.name, data |-> it.data]
<1>1. /\ it.kind \in {"value", "object", "end"}
      /\ it.name \in Seq(STRING \ {File!Quote}) /\ it.data \in Seq(STRING \ {File!Quote})
      /\ it = [kind |-> it.kind, name |-> it.name, data |-> it.data]
  BY DEF File!Item
<1>2. it.name \in Seq(Ink) /\ it.data \in Seq(Ink)
  BY <1>1, InInk, SeqMonotonic
<1>3. /\ \A a \in 1 .. Len(it.name) : it.name[a] \in STRING \ {File!Quote}
      /\ \A a \in 1 .. Len(it.data) : it.data[a] \in STRING \ {File!Quote}
  BY <1>1, ElementOfSeq
<1>4. Len(it.name) \in Nat /\ Len(it.data) \in Nat
  BY <1>1, LenProperties
<1>5. QED BY <1>1, <1>2, <1>3, <1>4

\* The end of an object is an item.
LEMMA EndIsItem == File!End \in File!Item
<1>1. <<>> \in Seq(STRING \ {File!Quote})
  BY EmptySeq
<1>2. QED BY <1>1 DEF File!End, File!Item

\* A name, its quotes and the colon.
LEMMA KeyShape ==
  ASSUME NEW it \in File!Item
  PROVE  /\ File!Key(it) \in Seq(Ink) /\ Len(File!Key(it)) = Len(it.name) + 3
         /\ File!Key(it)[1] = File!Quote
         /\ \A a \in 1 .. Len(it.name) : File!Key(it)[a + 1] = it.name[a]
         /\ File!Key(it)[Len(it.name) + 2] = File!Quote
         /\ File!Key(it)[Len(it.name) + 3] = File!Colon
<1>0. PICK n, name, key : n = Len(it.name) /\ name = it.name /\ key = File!Key(it)
  OBVIOUS
<1> DEFINE q == <<File!Quote>>
           x == q \o name
           w == <<File!Quote, File!Colon>>
<1>1. name \in Seq(Ink) /\ n = Len(name) /\ n \in Nat
  BY <1>0, ItemShape
<1>2. File!Quote \in Ink /\ File!Colon \in Ink
  BY InInk
<1>3. q \in Seq(Ink) /\ Len(q) = 1 /\ q[1] = File!Quote
  BY <1>2
<1>4. w \in Seq(Ink) /\ Len(w) = 2 /\ w[1] = File!Quote /\ w[2] = File!Colon
  BY <1>2
<1>5. key = x \o w
  BY <1>0 DEF File!Key
<1> HIDE DEF q, w
<1>6. /\ x \in Seq(Ink) /\ Len(x) = 1 + n
      /\ x[1] = q[1] /\ \A a \in 1 .. n : x[1 + a] = name[a]
  <2>1. /\ x \in Seq(Ink) /\ Len(x) = Len(q) + Len(name)
        /\ \A a \in 1 .. Len(q) : x[a] = q[a]
        /\ \A a \in 1 .. Len(name) : x[Len(q) + a] = name[a]
    <3>1. q \in Seq(Ink) /\ name \in Seq(Ink)
      BY <1>1, <1>3
    <3>2. QED BY ONLY <3>1, ConcatIs
  <2> HIDE DEF x
  <2>2. QED BY <1>1, <1>3, <2>1
<1> HIDE DEF x
<1>7. /\ key \in Seq(Ink) /\ Len(key) = (1 + n) + 2
      /\ \A a \in 1 .. 1 + n : key[a] = x[a]
      /\ \A a \in 1 .. 2 : key[1 + n + a] = w[a]
  <2>1. /\ x \o w \in Seq(Ink) /\ Len(x \o w) = Len(x) + Len(w)
        /\ \A a \in 1 .. Len(x) : (x \o w)[a] = x[a]
        /\ \A a \in 1 .. Len(w) : (x \o w)[Len(x) + a] = w[a]
    <3>1. x \in Seq(Ink) /\ w \in Seq(Ink)
      BY <1>4, <1>6
    <3>2. QED BY ONLY <3>1, ConcatIs
  <2>2. QED BY ONLY <1>4, <1>5, <1>6, <2>1
<1>8. /\ 1 \in 1 .. 1 + n /\ \A a \in 1 .. n : 1 + a \in 1 .. 1 + n /\ a + 1 = 1 + a
      /\ (1 + n) + 2 = n + 3 /\ 1 + n + 1 = n + 2 /\ 1 + n + 2 = n + 3
      /\ 1 \in 1 .. 2 /\ 2 \in 1 .. 2
  BY <1>1
<1>9. key[1] = x[1] /\ key[n + 2] = w[1] /\ key[n + 3] = w[2]
  BY <1>7, <1>8
<1>10. \A a \in 1 .. n : key[a + 1] = name[a]
  BY <1>6, <1>7, <1>8
<1>11. QED BY <1>0, <1>3, <1>4, <1>6, <1>7, <1>8, <1>9, <1>10

\* The words of a value.
LEMMA QuotedShape ==
  ASSUME NEW data \in Seq(Ink), NEW m, m = Len(data), NEW w, w = File!Quoted(data)
  PROVE  /\ w \in Seq(Ink)
         /\ File!IsNumber(data) => Len(w) = 1 /\ w[1] = data[1] /\ m = 1 /\ data[1] \in Numbers
         /\ ~File!IsNumber(data) =>
              /\ Len(w) = m + 2 /\ w[1] = File!Quote /\ w[m + 2] = File!Quote
              /\ \A a \in 1 .. m : w[a + 1] = data[a]
<1> DEFINE q == <<File!Quote>>
           x == q \o data
<1>1. m \in Nat /\ File!Quote \in Ink
  BY LenProperties, InInk
<1>2. q \in Seq(Ink) /\ Len(q) = 1 /\ q[1] = File!Quote
  BY <1>1
<1>3. ~File!IsNumber(data) => w = x \o q
  BY DEF File!Quoted
<1>4. File!IsNumber(data) => w = data /\ m = 1 /\ data[1] \in Numbers
  BY DEF File!Quoted, File!IsNumber
<1> HIDE DEF q
<1>5. /\ x \in Seq(Ink) /\ Len(x) = 1 + m
      /\ x[1] = q[1] /\ \A a \in 1 .. m : x[1 + a] = data[a]
  <2>1. /\ x \in Seq(Ink) /\ Len(x) = Len(q) + Len(data)
        /\ \A a \in 1 .. Len(q) : x[a] = q[a]
        /\ \A a \in 1 .. Len(data) : x[Len(q) + a] = data[a]
    <3>1. q \in Seq(Ink)
      BY <1>2
    <3>2. QED BY ONLY <3>1, data \in Seq(Ink), ConcatIs
  <2> HIDE DEF x
  <2>2. QED BY <1>1, <1>2, <2>1
<1> HIDE DEF x
<1>6. CASE File!IsNumber(data)
  BY <1>4, <1>6
<1>7. CASE ~File!IsNumber(data)
  <2>1. /\ w \in Seq(Ink) /\ Len(w) = (1 + m) + 1
        /\ \A a \in 1 .. 1 + m : w[a] = x[a]
        /\ \A a \in 1 .. 1 : w[1 + m + a] = q[a]
    <3>1. /\ x \o q \in Seq(Ink) /\ Len(x \o q) = Len(x) + Len(q)
          /\ \A a \in 1 .. Len(x) : (x \o q)[a] = x[a]
          /\ \A a \in 1 .. Len(q) : (x \o q)[Len(x) + a] = q[a]
      <4>1. x \in Seq(Ink) /\ q \in Seq(Ink)
        BY <1>2, <1>5
      <4>2. QED BY ONLY <4>1, ConcatIs
    <3>2. w = x \o q
      BY <1>3, <1>7
    <3>3. QED BY ONLY <1>2, <1>5, <3>1, <3>2
  <2>2. /\ 1 \in 1 .. 1 + m /\ \A a \in 1 .. m : 1 + a \in 1 .. 1 + m /\ a + 1 = 1 + a
        /\ (1 + m) + 1 = m + 2 /\ 1 + m + 1 = m + 2 /\ 1 \in 1 .. 1
    BY <1>1
  <2>3. w[1] = x[1] /\ w[m + 2] = q[1]
    BY <2>1, <2>2
  <2>4. \A a \in 1 .. m : w[a + 1] = data[a]
    BY <1>5, <2>1, <2>2
  <2>5. QED BY <1>2, <1>5, <1>7, <2>1, <2>2, <2>3, <2>4
<1>8. QED BY <1>6, <1>7

\* An item, symbol by symbol: x, with n symbols in the name and m in the value.
Shape(it, n, m, x) ==
  /\ x \in Seq(Ink) /\ Len(x) \in Nat
  /\ it.kind = "end" => Len(x) = 1 /\ x[1] = File!RBrace
  /\ it.kind # "end" =>
       /\ Len(x) >= n + 4
       /\ x[1] = File!Quote /\ x[n + 2] = File!Quote /\ x[n + 3] = File!Colon
       /\ \A a \in 1 .. n : x[a + 1] = it.name[a]
  /\ it.kind = "object" => Len(x) = n + 5 /\ x[n + 4] = File!Blank /\ x[n + 5] = File!LBrace
  /\ it.kind = "value" /\ File!IsNumber(it.data) =>
       Len(x) = n + 4 /\ x[n + 4] = it.data[1] /\ m = 1 /\ it.data[1] \in Numbers
  /\ it.kind = "value" /\ ~File!IsNumber(it.data) =>
       /\ Len(x) = n + m + 5 /\ x[n + 4] = File!Quote /\ x[n + m + 5] = File!Quote
       /\ \A a \in 1 .. m : x[n + 4 + a] = it.data[a]

\* What stands where in a written item.
LEMMA CoreShape ==
  ASSUME NEW it \in File!Item, NEW n, n = Len(it.name), NEW m, m = Len(it.data), NEW x, x = Core(it)
  PROVE  Shape(it, n, m, x)
<1> USE DEF Shape
<1>1. /\ n \in Nat /\ m \in Nat /\ it.data \in Seq(Ink) /\ it.kind \in {"value", "object", "end"}
  BY ItemShape
<1>2. CASE it.kind = "end"
  <2>1. x = <<File!RBrace>>
    BY <1>2 DEF Core
  <2>2. File!RBrace \in Ink
    BY InInk
  <2>3. x \in Seq(Ink) /\ Len(x) = 1 /\ x[1] = File!RBrace
    BY <2>1, <2>2
  <2>4. QED BY <1>2, <2>3
<1>3. CASE it.kind # "end"
  <2>a. PICK key, w, name, data :
          /\ key = File!Key(it) /\ name = it.name /\ data = it.data
          /\ w = IF it.kind = "value" THEN File!Quoted(it.data) ELSE <<File!Blank, File!LBrace>>
    OBVIOUS
  <2>1. x = key \o w
    BY <1>1, <1>3, <2>a DEF Core
  <2>2. /\ key \in Seq(Ink) /\ Len(key) = n + 3
        /\ key[1] = File!Quote
        /\ \A a \in 1 .. n : key[a + 1] = name[a]
        /\ key[n + 2] = File!Quote /\ key[n + 3] = File!Colon
    <3>1. n = Len(it.name) /\ name = it.name /\ key = File!Key(it)
      BY <2>a
    <3>2. /\ File!Key(it) \in Seq(Ink) /\ Len(File!Key(it)) = Len(it.name) + 3
          /\ File!Key(it)[1] = File!Quote
          /\ \A a \in 1 .. Len(it.name) : File!Key(it)[a + 1] = it.name[a]
          /\ File!Key(it)[Len(it.name) + 2] = File!Quote
          /\ File!Key(it)[Len(it.name) + 3] = File!Colon
      BY ONLY it \in File!Item, KeyShape
    <3>3. QED BY ONLY <3>1, <3>2
  <2>3. /\ w \in Seq(Ink)
        /\ it.kind = "object" => Len(w) = 2 /\ w[1] = File!Blank /\ w[2] = File!LBrace
        /\ it.kind = "value" /\ File!IsNumber(data) =>
             Len(w) = 1 /\ w[1] = data[1] /\ m = 1 /\ data[1] \in Numbers
        /\ it.kind = "value" /\ ~File!IsNumber(data) =>
             /\ Len(w) = m + 2 /\ w[1] = File!Quote /\ w[m + 2] = File!Quote
             /\ \A a \in 1 .. m : w[a + 1] = data[a]
    <3>1. CASE it.kind = "value"
      <4>1. w = File!Quoted(data) /\ data \in Seq(Ink) /\ m = Len(data)
        BY <1>1, <2>a, <3>1
      <4>2. QED BY ONLY <3>1, <4>1, QuotedShape
    <3>2. CASE it.kind # "value"
      <4>1. w = <<File!Blank, File!LBrace>>
        BY <2>a, <3>2
      <4>2. File!Blank \in Ink /\ File!LBrace \in Ink
        BY InInk, Characters
      <4>3. QED BY <3>2, <4>1, <4>2
    <3>3. QED BY <3>1, <3>2
  <2>4. /\ x \in Seq(Ink) /\ Len(x) = (n + 3) + Len(w) /\ Len(w) \in Nat
        /\ \A a \in 1 .. n + 3 : x[a] = key[a]
        /\ \A a \in 1 .. Len(w) : x[n + 3 + a] = w[a]
    <3>1. /\ key \o w \in Seq(Ink) /\ Len(key \o w) = Len(key) + Len(w)
          /\ \A a \in 1 .. Len(key) : (key \o w)[a] = key[a]
          /\ \A a \in 1 .. Len(w) : (key \o w)[Len(key) + a] = w[a]
          /\ Len(w) \in Nat
      <4>1. key \in Seq(Ink) /\ w \in Seq(Ink)
        BY <2>2, <2>3
      <4>2. QED BY ONLY <4>1, ConcatIs
    <3>2. QED BY ONLY <2>1, <2>2, <3>1
  <2>5. /\ 1 \in 1 .. n + 3 /\ n + 2 \in 1 .. n + 3 /\ n + 3 \in 1 .. n + 3
        /\ \A a \in 1 .. n : a + 1 \in 1 .. n + 3
        /\ n + 3 + 1 = n + 4 /\ n + 3 + 2 = n + 5 /\ (n + 3) + (m + 2) = n + m + 5
        /\ \A a \in 1 .. m : n + 3 + (a + 1) = n + 4 + a /\ a + 1 \in 1 .. m + 2
        /\ m + 2 \in 1 .. m + 2 /\ 1 \in 1 .. m + 2
        /\ 1 \in 1 .. 1 /\ 1 \in 1 .. 2 /\ 2 \in 1 .. 2
    BY ONLY <1>1
  <2>6. /\ x[1] = File!Quote /\ x[n + 2] = File!Quote /\ x[n + 3] = File!Colon
        /\ \A a \in 1 .. n : x[a + 1] = name[a]
    BY <2>2, <2>4, <2>5
  <2>7. ASSUME it.kind = "object"
        PROVE  Len(x) = n + 5 /\ x[n + 4] = File!Blank /\ x[n + 5] = File!LBrace
    <3>1. Len(w) = 2 /\ w[1] = File!Blank /\ w[2] = File!LBrace
      BY <2>3, <2>7
    <3>2. x[n + 3 + 1] = w[1] /\ x[n + 3 + 2] = w[2] /\ (n + 3) + 2 = n + 5
      BY <1>1, <2>4, <2>5, <3>1
    <3>3. QED BY <2>4, <2>5, <3>1, <3>2
  <2>8. it.kind = "value" /\ File!IsNumber(data) =>
           Len(x) = n + 4 /\ x[n + 4] = data[1] /\ m = 1 /\ data[1] \in Numbers
    BY <2>3, <2>4, <2>5
  <2>9. ASSUME it.kind = "value", ~File!IsNumber(data)
        PROVE  /\ Len(x) = n + m + 5 /\ x[n + 4] = File!Quote /\ x[n + m + 5] = File!Quote
               /\ \A a \in 1 .. m : x[n + 4 + a] = data[a]
    <3>1. /\ Len(w) = m + 2 /\ w[1] = File!Quote /\ w[m + 2] = File!Quote
          /\ \A a \in 1 .. m : w[a + 1] = data[a]
      BY <2>3, <2>9
    <3>2. x[n + 3 + 1] = w[1] /\ x[n + 3 + (m + 2)] = w[m + 2]
          /\ \A a \in 1 .. m : x[n + 3 + (a + 1)] = w[a + 1]
      BY <2>4, <2>5, <3>1
    <3>3. QED BY <2>4, <2>5, <3>1, <3>2
  <2>10. Len(x) >= n + 4 /\ Len(x) \in Nat
    <3>1. it.kind = "object" \/ it.kind = "value"
      BY <1>1, <1>3
    <3>2. Len(x) = n + 5 \/ Len(x) = n + 4 \/ Len(x) = n + m + 5
      BY <2>7, <2>8, <2>9, <3>1
    <3>3. QED BY ONLY <1>1, <3>2
  <2>11. QED BY <1>3, <2>a, <2>4, <2>6, <2>7, <2>8, <2>9, <2>10
<1>4. QED BY <1>2, <1>3

-----------------------------------------------------------------------------
(* A configuration as text: the members counted.                            *)

OneMore(n) == Append(File!Front(n), File!Last(n) + 1)

\* What an item does to the counts.
Counted(it, n) ==
  CASE it.kind = "value" -> OneMore(n)
    [] it.kind = "object" -> Append(OneMore(n), 0)
    [] it.kind = "end" -> File!Front(n)

\* The counts of a first part.
Tally(g, c, m) == g = [k \in 0 .. m |-> IF k = 0 THEN <<0>> ELSE Counted(c[k], g[k - 1])]

\* There are counts for every first part.
LEMMA TallyExists ==
  ASSUME NEW c, NEW m \in Nat
  PROVE  \E g : Tally(g, c, m)
<1> DEFINE Bad == {n \in Nat : ~\E g : Tally(g, c, n)}
<1>1. SUFFICES ASSUME Bad # {} PROVE FALSE
  OBVIOUS
<1>2. PICK n \in Bad : \A k \in Bad : n <= k
  BY <1>1, Least
<1>3. CASE n = 0
  <2> DEFINE g == [k \in 0 .. 0 |-> <<0>>]
  <2>1. g = [k \in 0 .. 0 |-> IF k = 0 THEN <<0>> ELSE Counted(c[k], g[k - 1])]
    OBVIOUS
  <2>2. Tally(g, c, 0)
    BY <2>1 DEF Tally
  <2>3. QED BY <1>2, <1>3, <2>2
<1>4. CASE n # 0
  <2>1. n - 1 \in Nat /\ n \in Nat /\ n - 1 \notin Bad
    BY <1>2, <1>4
  <2>2. PICK g : Tally(g, c, n - 1)
    BY <2>1
  <2> DEFINE h == [k \in 0 .. n |-> IF k = n THEN Counted(c[n], g[n - 1]) ELSE g[k]]
  <2>3. \A k \in 0 .. n - 1 : g[k] = IF k = 0 THEN <<0>> ELSE Counted(c[k], g[k - 1])
    BY <2>2 DEF Tally
  <2>4. \A k \in 0 .. n : h[k] = IF k = n THEN Counted(c[n], g[n - 1]) ELSE g[k]
    OBVIOUS
  <2>5. h = [k \in 0 .. n |-> h[k]]
    OBVIOUS
  <2> HIDE DEF h
  <2>6. ASSUME NEW k \in 0 .. n
        PROVE  h[k] = IF k = 0 THEN <<0>> ELSE Counted(c[k], h[k - 1])
    <3>1. CASE k = n
      <4>1. n - 1 \in 0 .. n /\ n - 1 # n
        BY <2>1
      <4>2. h[n - 1] = g[n - 1]
        BY <2>4, <4>1
      <4>3. QED BY <1>4, <2>4, <3>1, <4>2
    <3>2. CASE k # n /\ k # 0
      <4>1. k \in 0 .. n - 1 /\ k - 1 \in 0 .. n /\ k - 1 # n
        BY <2>1, <3>2
      <4>2. h[k] = g[k] /\ h[k - 1] = g[k - 1]
        BY <2>4, <3>2, <4>1
      <4>3. QED BY <2>3, <3>2, <4>1, <4>2
    <3>3. CASE k # n /\ k = 0
      <4>1. 0 \in 0 .. n - 1
        BY <1>4, <2>1
      <4>2. QED BY <2>3, <2>4, <3>3, <4>1
    <3>4. QED BY <3>1, <3>2, <3>3
  <2>7. h = [k \in 0 .. n |-> IF k = 0 THEN <<0>> ELSE Counted(c[k], h[k - 1])]
    BY <2>5, <2>6
  <2>8. Tally(h, c, n)
    BY <2>7 DEF Tally
  <2>9. QED BY <1>2, <2>8
<1>5. QED BY <1>3, <1>4

\* The counts of the code are these.
LEMMA CountsTally ==
  ASSUME NEW c, Len(c) \in Nat
  PROVE  /\ File!Counts(c)[0] = <<0>>
         /\ \A k \in 1 .. Len(c) : File!Counts(c)[k] = Counted(c[k], File!Counts(c)[k - 1])
<1>1. \E g : Tally(g, c, Len(c))
  BY TallyExists
<1>2. Tally(File!Counts(c), c, Len(c))
  BY <1>1 DEF Tally, File!Counts, Counted, OneMore
<1> DEFINE g == File!Counts(c)
<1>3. g = [k \in 0 .. Len(c) |-> IF k = 0 THEN <<0>> ELSE Counted(c[k], g[k - 1])]
  BY <1>2 DEF Tally
<1> HIDE DEF g
<1>4. \A k \in 0 .. Len(c) : g[k] = IF k = 0 THEN <<0>> ELSE Counted(c[k], g[k - 1])
  BY <1>3
<1>5. QED BY <1>4 DEF g

\* Front and Last of one that is not empty.
LEMMA FrontIs ==
  ASSUME NEW S, NEW n \in Seq(S), Len(n) >= 1
  PROVE  /\ File!Front(n) \in Seq(S) /\ Len(File!Front(n)) = Len(n) - 1
         /\ \A j \in 1 .. Len(n) - 1 : File!Front(n)[j] = n[j]
         /\ File!Last(n) = n[Len(n)] /\ n[Len(n)] \in S
<1>1. Len(n) \in Nat /\ \A j \in 1 .. Len(n) : n[j] \in S
  BY LenProperties, ElementOfSeq
<1>2. \A j \in 1 .. Len(n) - 1 : n[j] \in S
  BY <1>1
<1>3. /\ SubSeq(n, 1, Len(n) - 1) \in Seq(S)
      /\ Len(SubSeq(n, 1, Len(n) - 1)) = IF 1 <= Len(n) - 1 THEN Len(n) - 1 - 1 + 1 ELSE 0
      /\ \A j \in 1 .. Len(n) - 1 - 1 + 1 : SubSeq(n, 1, Len(n) - 1)[j] = n[1 + j - 1]
  BY <1>1, <1>2, SubSeqProperties
<1>4. PICK f, m : f = SubSeq(n, 1, Len(n) - 1) /\ m = Len(n)
  OBVIOUS
<1>5. /\ f \in Seq(S) /\ Len(f) = m - 1 /\ \A j \in 1 .. m - 1 : f[j] = n[j]
      /\ n[m] \in S
  BY <1>1, <1>3, <1>4
<1>6. QED BY <1>4, <1>5 DEF File!Front, File!Last

\* The counts before and behind an item.
CountStep(it, n, w) ==
  LET m == Len(n) IN
  /\ n \in Seq(Nat) /\ m \in Nat \ {0} /\ w \in Seq(Nat) /\ Len(w) \in Nat \ {0}
  /\ it.kind = "value" => Len(w) = m /\ w[m] = n[m] + 1 /\ \A j \in 1 .. m - 1 : w[j] = n[j]
  /\ it.kind = "object" =>
       Len(w) = m + 1 /\ w[m] = n[m] + 1 /\ w[m + 1] = 0 /\ \A j \in 1 .. m - 1 : w[j] = n[j]
  /\ it.kind = "end" => m > 1 /\ Len(w) = m - 1 /\ \A j \in 1 .. m - 1 : w[j] = n[j]

\* One more member is counted in the innermost object.
LEMMA MoreIs ==
  ASSUME NEW n \in Seq(Nat), Len(n) >= 1
  PROVE  /\ OneMore(n) \in Seq(Nat) /\ Len(OneMore(n)) = Len(n)
         /\ OneMore(n)[Len(n)] = n[Len(n)] + 1
         /\ \A j \in 1 .. Len(n) - 1 : OneMore(n)[j] = n[j]
<1>1. PICK f, m, l : f = File!Front(n) /\ m = Len(n) /\ l = File!Last(n) + 1
  OBVIOUS
<1>2. /\ f \in Seq(Nat) /\ Len(f) = m - 1 /\ \A j \in 1 .. m - 1 : f[j] = n[j]
      /\ l = n[m] + 1 /\ n[m] \in Nat /\ m \in Nat /\ m >= 1
  BY <1>1, FrontIs, LenProperties
<1>3. l \in Nat
  BY <1>2
<1>4. /\ Append(f, l) \in Seq(Nat) /\ Len(Append(f, l)) = Len(f) + 1
      /\ \A j \in 1 .. Len(f) : Append(f, l)[j] = f[j]
      /\ Append(f, l)[Len(f) + 1] = l
  BY <1>2, <1>3, AppendProperties
<1>5. PICK w : w = Append(f, l)
  OBVIOUS
<1>6. /\ w \in Seq(Nat) /\ Len(w) = m /\ w[m] = n[m] + 1
      /\ \A j \in 1 .. m - 1 : w[j] = n[j]
  BY <1>2, <1>4, <1>5
<1>7. QED BY <1>1, <1>5, <1>6 DEF OneMore

\* What an item does to the counts, object by object.
LEMMA CountedStep ==
  ASSUME NEW it, it.kind \in {"value", "object", "end"},
         NEW n \in Seq(Nat), Len(n) >= 1, it.kind = "end" => Len(n) > 1
  PROVE  CountStep(it, n, Counted(it, n))
<1>0. Len(n) \in Nat \ {0}
  BY LenProperties
<1>1. /\ OneMore(n) \in Seq(Nat) /\ Len(OneMore(n)) = Len(n)
      /\ OneMore(n)[Len(n)] = n[Len(n)] + 1
      /\ \A j \in 1 .. Len(n) - 1 : OneMore(n)[j] = n[j]
  BY MoreIs
<1>2. CASE it.kind = "value"
  <2>1. Counted(it, n) = OneMore(n)
    BY <1>2 DEF Counted
  <2>2. QED BY <1>0, <1>1, <1>2, <2>1 DEF CountStep
<1>3. CASE it.kind = "object"
  <2>1. Counted(it, n) = Append(OneMore(n), 0)
    BY <1>3 DEF Counted
  <2>2. PICK f, w, m : f = OneMore(n) /\ w = Append(f, 0) /\ m = Len(n)
    OBVIOUS
  <2>3. /\ f \in Seq(Nat) /\ Len(f) = m /\ f[m] = n[m] + 1 /\ m \in Nat \ {0}
        /\ \A j \in 1 .. m - 1 : f[j] = n[j]
    BY <1>0, <1>1, <2>2
  <2>4. /\ w \in Seq(Nat) /\ Len(w) = m + 1 /\ w[m + 1] = 0
        /\ \A j \in 1 .. m : w[j] = f[j]
    <3>1. /\ Append(f, 0) \in Seq(Nat) /\ Len(Append(f, 0)) = Len(f) + 1
          /\ \A j \in 1 .. Len(f) : Append(f, 0)[j] = f[j]
          /\ Append(f, 0)[Len(f) + 1] = 0
      BY <2>3, AppendProperties
    <3>2. QED BY <2>2, <2>3, <3>1
  <2>5. w[m] = n[m] + 1 /\ \A j \in 1 .. m - 1 : w[j] = n[j]
    BY <2>3, <2>4
  <2>6. Counted(it, n) = w
    BY <2>1, <2>2
  <2>7. QED BY <1>3, <2>2, <2>3, <2>4, <2>5, <2>6 DEF CountStep
<1>4. CASE it.kind = "end"
  <2>1. Counted(it, n) = File!Front(n)
    BY <1>4 DEF Counted
  <2>2. /\ File!Front(n) \in Seq(Nat) /\ Len(File!Front(n)) = Len(n) - 1
        /\ \A j \in 1 .. Len(n) - 1 : File!Front(n)[j] = n[j]
    BY FrontIs
  <2>3. QED BY <1>0, <1>4, <2>1, <2>2 DEF CountStep
<1>5. QED BY <1>2, <1>3, <1>4

\* The counts of a configuration, item by item.
LEMMA CountsAre ==
  ASSUME NEW c, File!IsTree(c), NEW N, N = File!Counts(c)
  PROVE  /\ c \in Seq(File!Item) /\ Len(c) \in Nat
         /\ N[0] = <<0>>
         /\ \A k \in 1 .. Len(c) : c[k] \in File!Item /\ CountStep(c[k], N[k - 1], N[k])
         /\ \A k \in 0 .. Len(c) : N[k] \in Seq(Nat) /\ Len(N[k]) \in Nat \ {0}
<1>1. c \in Seq(File!Item) /\ Len(c) \in Nat /\ DOMAIN c = 1 .. Len(c)
  BY LenProperties DEF File!IsTree
<1>2. \A k \in 1 .. Len(c) : c[k] \in File!Item
  BY <1>1, ElementOfSeq
<1>3. /\ N[0] = <<0>>
      /\ \A k \in 1 .. Len(c) : N[k] = Counted(c[k], N[k - 1])
  BY <1>1, CountsTally
<1>4. ASSUME NEW k \in 1 .. Len(c), N[k - 1] \in Seq(Nat), Len(N[k - 1]) >= 1
      PROVE  CountStep(c[k], N[k - 1], N[k])
  <2>1. c[k].kind \in {"value", "object", "end"}
    BY <1>2, ItemShape
  <2>2. c[k].kind = "end" => Len(N[k - 1]) > 1
    BY <1>1 DEF File!IsTree
  <2>3. CountStep(c[k], N[k - 1], Counted(c[k], N[k - 1]))
    BY <1>4, <2>1, <2>2, CountedStep
  <2>4. QED BY <1>3, <2>3
<1> DEFINE Bad == {k \in 0 .. Len(c) : ~(N[k] \in Seq(Nat) /\ Len(N[k]) \in Nat \ {0})}
<1>5. Bad = {}
  <2>1. SUFFICES ASSUME Bad # {} PROVE FALSE
    OBVIOUS
  <2>a. Bad \in SUBSET Nat
    BY <1>1
  <2>2. PICK k \in Bad : \A j \in Bad : k <= j
    <3> HIDE DEF Bad
    <3>1. QED BY <2>1, <2>a, Least
  <2>3. k \in 0 .. Len(c) /\ ~(N[k] \in Seq(Nat) /\ Len(N[k]) \in Nat \ {0})
    BY <2>2
  <2>4. k # 0
    <3>1. <<0>> \in Seq(Nat) /\ Len(<<0>>) = 1
      OBVIOUS
    <3>2. ASSUME k = 0 PROVE FALSE
      <4>1. N[k] = <<0>>
        BY <1>3, <3>2
      <4>2. N[k] \in Seq(Nat) /\ Len(N[k]) = 1
        BY <3>1, <4>1
      <4>3. QED BY ONLY <2>3, <4>2
    <3>3. QED BY <3>2
  <2>5. k - 1 \in 0 .. Len(c) /\ k \in 1 .. Len(c) /\ k - 1 \notin Bad
    BY <1>1, <2>2, <2>3, <2>4
  <2>6. N[k - 1] \in Seq(Nat) /\ Len(N[k - 1]) >= 1
    BY <2>5
  <2>7. CountStep(c[k], N[k - 1], N[k])
    BY <1>4, <2>5, <2>6
  <2>8. QED BY <2>3, <2>7 DEF CountStep
<1>6. \A k \in 0 .. Len(c) : N[k] \in Seq(Nat) /\ Len(N[k]) \in Nat \ {0}
  BY <1>5
<1>7. ASSUME NEW k \in 1 .. Len(c) PROVE CountStep(c[k], N[k - 1], N[k])
  <2>1. k - 1 \in 0 .. Len(c)
    BY <1>1
  <2>2. QED BY <1>4, <1>6, <2>1
<1>8. QED BY <1>1, <1>2, <1>3, <1>6, <1>7

\* An object that ends is not empty, and every item of one with room is counted in it.
LEMMA Roomy ==
  ASSUME NEW c, File!IsTree(c), File!Fits(c), NEW N, N = File!Counts(c), NEW k \in 0 .. Len(c)
  PROVE  /\ k = Len(c) \/ c[k + 1].kind = "end" => k > 0 /\ c[k].kind # "object"
         /\ k < Len(c) /\ c[k + 1].kind # "end" => N[k][Len(N[k])] < MaxMembers
<1>1. /\ Len(c) \in Nat /\ N[0] = <<0>>
      /\ \A j \in 1 .. Len(c) : c[j] \in File!Item /\ CountStep(c[j], N[j - 1], N[j])
      /\ \A j \in 0 .. Len(c) : N[j] \in Seq(Nat) /\ Len(N[j]) \in Nat \ {0}
  BY CountsAre
<1>2. ASSUME k = Len(c) \/ c[k + 1].kind = "end"
      PROVE  k > 0 /\ c[k].kind # "object"
  <2>1. File!Last(N[k]) > 0
    BY <1>2 DEF File!Fits
  <2>2. N[k][Len(N[k])] > 0
    BY <2>1 DEF File!Last
  <2>3. k # 0
    <3>1. <<0>>[1] = 0 /\ Len(<<0>>) = 1
      OBVIOUS
    <3>2. QED BY <1>1, <2>2, <3>1
  <2>4. k \in 1 .. Len(c)
    BY <1>1, <2>3
  <2>5. c[k].kind # "object"
    <3>1. CountStep(c[k], N[k - 1], N[k])
      BY <1>1, <2>4
    <3>2. c[k].kind = "object" => N[k][Len(N[k - 1]) + 1] = 0 /\ Len(N[k]) = Len(N[k - 1]) + 1
      BY <3>1 DEF CountStep
    <3>3. QED BY <2>2, <3>2
  <2>6. QED BY <2>4, <2>5
<1>3. ASSUME k < Len(c), c[k + 1].kind # "end"
      PROVE  N[k][Len(N[k])] < MaxMembers
  <2> DEFINE m == Len(N[k])
  <2>1. k + 1 \in 1 .. Len(c) /\ k + 1 \in 0 .. Len(c) /\ (k + 1) - 1 = k
    BY <1>1, <1>3
  <2>2. c[k + 1] \in File!Item /\ CountStep(c[k + 1], N[k], N[k + 1])
    BY <1>1, <2>1
  <2>3. c[k + 1].kind \in {"value", "object"}
    BY <1>3, <2>2, ItemShape
  <2>4. N[k + 1][m] = N[k][m] + 1 /\ Len(N[k + 1]) \in {m, m + 1} /\ m \in Nat \ {0}
    BY <2>2, <2>3 DEF CountStep
  <2>5. DOMAIN N[k + 1] = 1 .. Len(N[k + 1]) /\ N[k] \in Seq(Nat)
    BY <1>1, <2>1, LenProperties
  <2>6. N[k + 1][m] <= MaxMembers
    <3>1. m \in DOMAIN N[k + 1]
      BY <2>4, <2>5
    <3>2. QED BY <2>1, <3>1 DEF File!Fits
  <2>7. N[k][m] \in Nat /\ MaxMembers \in Nat
    BY <2>4, <2>5, ElementOfSeq, MCLoadAssumption DEF File!JsonAssumption
  <2>8. QED BY <2>4, <2>6, <2>7
<1>4. QED BY <1>2, <1>3

-----------------------------------------------------------------------------
(* A configuration as text: where its items stand.                          *)

\* A comma comes before the k-th item.
Apart(d, k) == k > 1 /\ d[k].kind # "end" /\ d[k - 1].kind # "object"

\* The j-th item stands from s[j] to e[j], with white space before it.
Stands(T, d, j, s, e) ==
  /\ s[j] \in Nat /\ e[j] \in Nat
  /\ e[j - 1] < s[j] /\ s[j] <= e[j] /\ e[j] <= Len(T)
  /\ e[j] = s[j] + Len(Core(d[j])) - 1
  /\ \A a \in 1 .. Len(Core(d[j])) : T[s[j] + a - 1] = Core(d[j])[a]
  /\ Apart(d, j) => e[j - 1] + 1 < s[j] /\ T[e[j - 1] + 1] = File!Comma
  /\ \A a \in e[j - 1] + 1 .. s[j] - 1 :
       (Apart(d, j) /\ a = e[j - 1] + 1) \/ T[a] \in File!White

\* The opening brace, and the first k items.
LaidTo(T, d, k, s, e) ==
  /\ T \in Seq(Ink)
  /\ e[0] \in Nat \ {0} /\ e[0] <= Len(T) /\ T[e[0]] = File!LBrace
  /\ \A a \in 1 .. e[0] - 1 : T[a] \in File!White
  /\ \A j \in 1 .. k : Stands(T, d, j, s, e)

\* Every item is written with at least one symbol.
LEMMA CoreSize ==
  ASSUME NEW it \in File!Item
  PROVE  Core(it) \in Seq(Ink) /\ Len(Core(it)) \in Nat \ {0}
<1>1. PICK x, n, m : x = Core(it) /\ n = Len(it.name) /\ m = Len(it.data)
  OBVIOUS
<1>2. /\ x \in Seq(Ink) /\ Len(x) \in Nat
      /\ it.kind = "end" => Len(x) = 1
      /\ it.kind # "end" => Len(x) >= n + 4
  BY <1>1, CoreShape DEF Shape
<1>3. n \in Nat
  BY <1>1, ItemShape
<1>4. Len(x) \in Nat \ {0}
  BY <1>2, <1>3
<1>5. QED BY <1>1, <1>2, <1>4

\* The items of a configuration are its own, and the end.
LEMMA ItemsAre ==
  ASSUME NEW c, File!IsTree(c), NEW d, d = Items(c)
  PROVE  /\ d \in Seq(File!Item) /\ Len(d) = Len(c) + 1 /\ Len(c) \in Nat
         /\ \A k \in 1 .. Len(c) : d[k] = c[k]
         /\ d[Len(c) + 1] = File!End
         /\ \A k \in 1 .. Len(c) + 1 : d[k] \in File!Item
<1>1. c \in Seq(File!Item) /\ Len(c) \in Nat
  BY CountsAre
<1>2. /\ d \in Seq(File!Item) /\ Len(d) = Len(c) + 1
      /\ \A k \in 1 .. Len(c) : d[k] = c[k]
      /\ d[Len(c) + 1] = File!End
  BY <1>1, EndIsItem, AppendProperties DEF Items
<1>3. \A k \in 1 .. Len(c) + 1 : d[k] \in File!Item
  BY <1>1, <1>2, ElementOfSeq
<1>4. QED BY <1>1, <1>2, <1>3

\* No object ends right where it begins, nor does the root.
LEMMA NotEmpty ==
  ASSUME NEW c, File!IsTree(c), File!Fits(c), NEW d, d = Items(c),
         NEW k \in 0 .. Len(c), d[k + 1].kind = "end"
  PROVE  k > 0 /\ d[k].kind # "object"
<1>1. /\ Len(c) \in Nat /\ \A j \in 1 .. Len(c) : d[j] = c[j]
  BY ItemsAre
<1>2. k = Len(c) \/ c[k + 1].kind = "end"
  BY <1>1
<1>3. k > 0 /\ c[k].kind # "object"
  BY <1>2, Roomy
<1>4. k \in 1 .. Len(c)
  BY <1>1, <1>3
<1>5. QED BY <1>1, <1>3, <1>4

\* Before an item that ends is no comma; before another one, after the first and not first
\* in an object, is.
LEMMA ApartIs ==
  ASSUME NEW c, File!IsTree(c), NEW d, d = Items(c), NEW k \in 1 .. Len(c)
  PROVE  /\ d[k].kind = "object" => ~Apart(d, k + 1)
         /\ d[k].kind # "object" => (Apart(d, k + 1) <=> d[k + 1].kind # "end")
<1>1. Len(c) \in Nat /\ k + 1 > 1 /\ (k + 1) - 1 = k
  BY ItemsAre
<1>2. QED BY <1>1 DEF Apart

\* What follows k items.
Follows(d, s, e, k) ==
  /\ text \in Seq(Ink) /\ Len(text) \in Nat
  /\ s[k + 1] \in Nat /\ e[k + 1] \in Nat /\ e[k] \in Nat \ {0}
  /\ e[k] < s[k + 1] /\ s[k + 1] <= e[k + 1] /\ e[k + 1] <= Len(text)
  /\ e[k + 1] = s[k + 1] + Len(Core(d[k + 1])) - 1
  /\ \A a \in 1 .. Len(Core(d[k + 1])) : text[s[k + 1] + a - 1] = Core(d[k + 1])[a]
  /\ Apart(d, k + 1) => e[k] + 1 < s[k + 1] /\ text[e[k] + 1] = File!Comma
  /\ \A a \in e[k] + 1 .. s[k + 1] - 1 :
       (Apart(d, k + 1) /\ a = e[k] + 1) \/ text[a] \in File!White
  /\ d[k + 1] \in File!Item /\ Core(d[k + 1]) \in Seq(Ink) /\ Len(Core(d[k + 1])) \in Nat \ {0}

\* The items stand in their order.
LEMMA Ahead ==
  ASSUME NEW c, File!IsTree(c), NEW d, d = Items(c), NEW s, NEW e,
         LaidTo(text, d, Len(d), s, e), NEW k \in 0 .. Len(c)
  PROVE  Follows(d, s, e, k)
<1>1. /\ Len(d) = Len(c) + 1 /\ Len(c) \in Nat
      /\ \A j \in 1 .. Len(c) + 1 : d[j] \in File!Item
  BY ItemsAre
<1>2. k + 1 \in 1 .. Len(d) /\ (k + 1) - 1 = k
  BY <1>1
<1>3. Stands(text, d, k + 1, s, e)
  BY <1>2 DEF LaidTo
<1>4. text \in Seq(Ink) /\ Len(text) \in Nat
  BY LenProperties DEF LaidTo
<1>5. e[k] \in Nat \ {0}
  <2>1. CASE k = 0
    BY <2>1 DEF LaidTo
  <2>2. CASE k # 0
    <3>1. k \in 1 .. Len(d) /\ k - 1 \in 0 .. Len(c)
      BY <1>1, <2>2
    <3>2. Stands(text, d, k, s, e)
      BY <3>1 DEF LaidTo
    <3>3. e[k] \in Nat /\ s[k] \in Nat /\ s[k] <= e[k] /\ e[k] = s[k] + Len(Core(d[k])) - 1
      BY <3>2 DEF Stands
    <3>4. Len(Core(d[k])) \in Nat \ {0}
      BY <1>1, <2>2, CoreSize
    <3>5. e[k - 1] \in Nat
      <4>1. CASE k - 1 = 0
        BY <4>1 DEF LaidTo
      <4>2. CASE k - 1 # 0
        <5>1. k - 1 \in 1 .. Len(d)
          BY <1>1, <2>2, <4>2
        <5>2. QED BY <5>1 DEF LaidTo, Stands
      <4>3. QED BY <4>1, <4>2
    <3>6. e[k - 1] < s[k]
      BY <3>2 DEF Stands
    <3>7. QED BY <3>3, <3>5, <3>6
  <2>3. QED BY <2>1, <2>2
<1>6. /\ d[k + 1] \in File!Item
  BY <1>1, <1>2
<1>7. Core(d[k + 1]) \in Seq(Ink) /\ Len(Core(d[k + 1])) \in Nat \ {0}
  BY <1>6, CoreSize
<1>8. QED BY <1>2, <1>3, <1>4, <1>5, <1>6, <1>7 DEF Stands, Follows

\* Where the value of an item begins, or its brace stands.
ValueAt(it, p) == p + Len(it.name) + 3 + (IF it.kind = "object" THEN 1 ELSE 0)

\* Numbers are not marks.
LEMMA NumbersAre == Numbers \cap (File!White \cup {File!Quote, File!Comma, File!LBrace, File!RBrace}) = {}
  BY MCLoadAssumption DEF File!JsonAssumption

\* From white space before it, the name of an item is read, and the reader stands at its value.
LEMMA ReadsName ==
  ASSUME NEW c, File!IsTree(c), NEW d, d = Items(c), NEW s, NEW e,
         LaidTo(text, d, Len(d), s, e), NEW k \in 0 .. Len(c), d[k + 1].kind # "end",
         NEW p \in Nat, e[k] < p, p <= s[k + 1], Apart(d, k + 1) => e[k] + 1 < p
  PROVE  LET g == File!GetName(File!Gobble(p)) IN
         /\ g.name = d[k + 1].name /\ g.ok
         /\ File!Gobble(g.pos) = ValueAt(d[k + 1], s[k + 1])
<1>1. PICK it, x, n, m, b : it = d[k + 1] /\ x = Core(it) /\ n = Len(it.name) /\ m = Len(it.data) /\ b = s[k + 1]
  OBVIOUS
<1>2. /\ text \in Seq(Ink) /\ Len(text) \in Nat /\ b \in Nat /\ e[k] \in Nat
      /\ b + Len(x) - 1 <= Len(text) /\ p <= b
      /\ \A a \in 1 .. Len(x) : text[b + a - 1] = x[a]
      /\ \A a \in p .. b - 1 : text[a] \in File!White
      /\ it \in File!Item /\ Len(x) \in Nat \ {0}
  <2>a. Follows(d, s, e, k)
    BY Ahead
  <2>1. /\ text \in Seq(Ink) /\ Len(text) \in Nat
        /\ s[k + 1] \in Nat /\ e[k + 1] \in Nat /\ e[k] \in Nat \ {0} /\ e[k + 1] <= Len(text)
        /\ e[k + 1] = s[k + 1] + Len(Core(d[k + 1])) - 1
        /\ \A a \in 1 .. Len(Core(d[k + 1])) : text[s[k + 1] + a - 1] = Core(d[k + 1])[a]
        /\ \A a \in e[k] + 1 .. s[k + 1] - 1 :
             (Apart(d, k + 1) /\ a = e[k] + 1) \/ text[a] \in File!White
        /\ d[k + 1] \in File!Item /\ Len(Core(d[k + 1])) \in Nat \ {0}
    BY ONLY <2>a DEF Follows
  <2>b. p \in Nat /\ e[k] < p /\ (Apart(d, k + 1) => e[k] + 1 < p)
    OBVIOUS
  <2>2. \A a \in p .. s[k + 1] - 1 : a \in e[k] + 1 .. s[k + 1] - 1 /\ (Apart(d, k + 1) => a # e[k] + 1)
    BY ONLY <2>1, <2>b
  <2>3. \A a \in p .. s[k + 1] - 1 : text[a] \in File!White
    BY <2>1, <2>2
  <2>4. QED BY <1>1, <2>1, <2>3
<1>3. it.kind \in {"value", "object"} /\ n \in Nat /\ m \in Nat /\ it.name \in Seq(Ink)
      /\ \A a \in 1 .. n : it.name[a] # File!Quote
  BY <1>1, <1>2, ItemShape
<1>4. /\ Len(x) >= n + 4
      /\ x[1] = File!Quote /\ x[n + 2] = File!Quote /\ x[n + 3] = File!Colon
      /\ \A a \in 1 .. n : x[a + 1] = it.name[a]
      /\ it.kind = "object" => Len(x) = n + 5 /\ x[n + 4] = File!Blank /\ x[n + 5] = File!LBrace
      /\ it.kind = "value" /\ File!IsNumber(it.data) => x[n + 4] = it.data[1] /\ it.data[1] \in Numbers
      /\ it.kind = "value" /\ ~File!IsNumber(it.data) => x[n + 4] = File!Quote
  <2>1. Shape(it, n, m, x)
    BY ONLY <1>1, <1>2, CoreShape
  <2>2. QED BY <1>3, <2>1 DEF Shape
<1>a. /\ b \in Nat \ {0} /\ n \in Nat /\ m \in Nat /\ b + n + 3 <= Len(text) /\ Len(text) \in Nat
      /\ it.kind = "object" => b + n + 4 <= Len(text)
  <2>1. b + Len(x) - 1 <= Len(text) /\ Len(x) >= n + 4 /\ b \in Nat /\ n \in Nat /\ m \in Nat /\ Len(text) \in Nat
        /\ Len(x) \in Nat /\ (it.kind = "object" => Len(x) = n + 5)
        /\ e[k] \in Nat /\ p <= b /\ e[k] < p /\ p \in Nat
    BY <1>2, <1>3, <1>4
  <2>2. QED BY ONLY <2>1
<1>b. n = Len(it.name)
  BY <1>1
<1>5. /\ text[b] = File!Quote /\ text[b + n + 1] = File!Quote /\ text[b + n + 2] = File!Colon
      /\ \A a \in 1 .. n : text[b + a] = it.name[a]
      /\ text[b + n + 3] = x[n + 4]
      /\ it.kind = "object" => text[b + n + 4] = File!LBrace
  <2>1. \A a \in 1 .. n + 4 : text[b + a - 1] = x[a] 
    BY <1>2, <1>3, <1>4
  <2>2. /\ b + 1 - 1 = b /\ b + (n + 2) - 1 = b + n + 1 /\ b + (n + 3) - 1 = b + n + 2
        /\ b + (n + 4) - 1 = b + n + 3 /\ b + (n + 5) - 1 = b + n + 4
        /\ \A a \in 1 .. n : b + (a + 1) - 1 = b + a /\ a + 1 \in 1 .. n + 4
        /\ 1 \in 1 .. n + 4 /\ n + 2 \in 1 .. n + 4 /\ n + 3 \in 1 .. n + 4 /\ n + 4 \in 1 .. n + 4
        /\ n + 5 \in 1 .. n + 5
    BY ONLY <1>2, <1>3
  <2>3. /\ text[b] = File!Quote /\ text[b + n + 1] = File!Quote /\ text[b + n + 2] = File!Colon
        /\ text[b + n + 3] = x[n + 4]
    BY <1>4, <2>1, <2>2
  <2>4. \A a \in 1 .. n : text[b + a] = it.name[a]
    BY <1>4, <2>1, <2>2
  <2>5. it.kind = "object" => text[b + n + 4] = File!LBrace
    BY <1>2, <1>4, <2>2
  <2>6. QED BY <2>3, <2>4, <2>5
<1>6. File!Gobble(p) = b
  <2>1. text[b] \notin File!White /\ b <= Len(text)
    BY <1>a, <1>5, Characters
  <2>2. QED BY <1>2, <2>1, FirstInk
<1>7. File!GetName(b) = [name |-> it.name, pos |-> b + n + 3, ok |-> TRUE]
  <2>1. b \in Nat \ {0} /\ b + n + 2 <= Len(text)
    BY ONLY <1>a
  <2>2. /\ it.name \in Seq(Ink) /\ n = Len(it.name)
        /\ \A a \in 1 .. Len(it.name) : text[b + a] = it.name[a] /\ it.name[a] # File!Quote
    BY <1>1, <1>3, <1>5
  <2>3. QED BY ONLY <1>2, <1>5, <2>1, <2>2, NameIs
<1>8. File!Gobble(b + n + 3) = ValueAt(it, b)
  <2>1. b + n + 3 \in Nat /\ b + n + 3 <= Len(text) /\ b + n + 4 \in Nat
        /\ (it.kind = "object" => b + n + 4 <= Len(text))
    BY ONLY <1>a
  <2>2. CASE it.kind = "object"
    <3>1. text[b + n + 3] \in File!White /\ text[b + n + 4] \notin File!White
      BY <1>4, <1>5, <2>2, Characters
    <3>2. \A a \in b + n + 3 .. (b + n + 4) - 1 : a = b + n + 3
      BY ONLY <1>a
    <3>3. File!Gobble(b + n + 3) = b + n + 4
      <4>1. b + n + 3 <= b + n + 4 /\ \A a \in b + n + 3 .. (b + n + 4) - 1 : text[a] \in File!White
        BY ONLY <1>a, <3>1, <3>2
      <4>2. QED BY <1>2, <2>1, <2>2, <3>1, <4>1, FirstInk
    <3>4. ValueAt(it, b) = b + n + 4
      BY ONLY <1>a, <1>b, <2>2 DEF ValueAt
    <3>5. QED BY <3>3, <3>4
  <2>3. CASE it.kind = "value"
    <3>1. text[b + n + 3] \notin File!White
      BY <1>4, <1>5, <2>3, Characters, NumbersAre
    <3>2. File!Gobble(b + n + 3) = b + n + 3
      <4>1. b + n + 3 <= b + n + 3 /\ \A a \in b + n + 3 .. (b + n + 3) - 1 : text[a] \in File!White
        BY <1>2, <1>3
      <4>2. QED BY <1>2, <2>1, <3>1, <4>1, FirstInk
    <3>3. ValueAt(it, b) = b + n + 3
      BY ONLY <1>a, <1>b, <2>3 DEF ValueAt
    <3>4. QED BY <3>2, <3>3
  <2>4. QED BY <1>3, <2>2, <2>3
<1>9. QED BY <1>1, <1>6, <1>7, <1>8

\* An item, with n symbols in its name and m in its value, stands in the text from b to f.
Standing(it, n, m, b, f) ==
  /\ b \in Nat \ {0} /\ f \in Nat /\ b <= f /\ f <= Len(text)
  /\ it.kind = "end" => f = b /\ text[b] = File!RBrace
  /\ it.kind # "end" => text[b] = File!Quote
  /\ it.kind = "object" => f = b + n + 4 /\ text[f] = File!LBrace
  /\ it.kind = "value" /\ File!IsNumber(it.data) =>
       f = b + n + 3 /\ text[f] = it.data[1] /\ m = 1 /\ it.data[1] \in Numbers
  /\ it.kind = "value" /\ ~File!IsNumber(it.data) =>
       /\ f = b + n + m + 4 /\ text[b + n + 3] = File!Quote /\ text[f] = File!Quote
       /\ \A a \in 1 .. m : text[b + n + 3 + a] = it.data[a]

\* What stands in the text where an item does.
LEMMA ItemStands ==
  ASSUME NEW d, NEW s, NEW e, NEW k \in Nat, Follows(d, s, e, k)
  PROVE  Standing(d[k + 1], Len(d[k + 1].name), Len(d[k + 1].data), s[k + 1], e[k + 1])
<1>1. PICK it, x, n, m, b, f :
        it = d[k + 1] /\ x = Core(it) /\ n = Len(it.name) /\ m = Len(it.data) /\ b = s[k + 1] /\ f = e[k + 1]
  OBVIOUS
<1>2. /\ Len(text) \in Nat /\ b \in Nat /\ f \in Nat /\ b <= f /\ f <= Len(text) /\ f = b + Len(x) - 1
      /\ \A a \in 1 .. Len(x) : text[b + a - 1] = x[a]
      /\ it \in File!Item /\ Len(x) \in Nat \ {0}
  BY <1>1 DEF Follows
<1>3. b # 0
  BY <1>1 DEF Follows
<1>4. it.kind \in {"value", "object", "end"} /\ n \in Nat /\ m \in Nat
  BY <1>1, <1>2, ItemShape
<1>5. Shape(it, n, m, x)
  BY ONLY <1>1, <1>2, CoreShape
<1>6. CASE it.kind = "end"
  <2>1. Len(x) = 1 /\ x[1] = File!RBrace
    BY <1>5, <1>6 DEF Shape
  <2>2. f = b /\ text[b + 1 - 1] = x[1] /\ b + 1 - 1 = b
    BY <1>2, <2>1
  <2>3. QED BY <1>1, <1>2, <1>3, <1>6, <2>1, <2>2 DEF Standing
<1>7. CASE it.kind = "object"
  <2>1. Len(x) = n + 5 /\ x[1] = File!Quote /\ x[n + 5] = File!LBrace
    BY <1>5, <1>7 DEF Shape
  <2>2. f = b + n + 4 /\ text[b + 1 - 1] = x[1] /\ b + 1 - 1 = b /\ text[b + (n + 5) - 1] = x[n + 5]
        /\ b + (n + 5) - 1 = f
    BY <1>2, <1>4, <2>1
  <2>3. QED BY <1>1, <1>2, <1>3, <1>7, <2>1, <2>2 DEF Standing
<1>8. CASE it.kind = "value" /\ File!IsNumber(it.data)
  <2>1. Len(x) = n + 4 /\ x[1] = File!Quote /\ x[n + 4] = it.data[1] /\ m = 1 /\ it.data[1] \in Numbers
    BY <1>5, <1>8 DEF Shape
  <2>2. f = b + n + 3 /\ text[b + 1 - 1] = x[1] /\ b + 1 - 1 = b /\ text[b + (n + 4) - 1] = x[n + 4]
        /\ b + (n + 4) - 1 = f
    BY <1>2, <1>4, <2>1
  <2>3. QED BY <1>1, <1>2, <1>3, <1>8, <2>1, <2>2 DEF Standing
<1>9. CASE it.kind = "value" /\ ~File!IsNumber(it.data)
  <2>1. /\ Len(x) = n + m + 5 /\ x[1] = File!Quote /\ x[n + 4] = File!Quote /\ x[n + m + 5] = File!Quote
        /\ \A a \in 1 .. m : x[n + 4 + a] = it.data[a]
    BY <1>5, <1>9 DEF Shape
  <2>2. /\ f = b + n + m + 4 /\ text[b + 1 - 1] = x[1] /\ b + 1 - 1 = b
        /\ text[b + (n + 4) - 1] = x[n + 4] /\ b + (n + 4) - 1 = b + n + 3
        /\ text[b + (n + m + 5) - 1] = x[n + m + 5] /\ b + (n + m + 5) - 1 = f
    <3>1. /\ b \in Nat /\ n \in Nat /\ m \in Nat /\ f = b + (n + m + 5) - 1
          /\ \A a \in 1 .. n + m + 5 : text[b + a - 1] = x[a]
      BY <1>2, <1>4, <2>1
    <3>2. /\ f = b + n + m + 4 /\ b + 1 - 1 = b /\ b + (n + 4) - 1 = b + n + 3
          /\ 1 \in 1 .. n + m + 5 /\ n + 4 \in 1 .. n + m + 5 /\ n + m + 5 \in 1 .. n + m + 5
      BY ONLY <3>1
    <3>3. QED BY ONLY <3>1, <3>2
  <2>3. ASSUME NEW a \in 1 .. m PROVE text[b + n + 3 + a] = it.data[a]
    <3>1. b \in Nat /\ n \in Nat /\ m \in Nat /\ Len(x) = n + m + 5
      BY <1>2, <1>4, <2>1
    <3>2. n + 4 + a \in 1 .. Len(x) /\ b + (n + 4 + a) - 1 = b + n + 3 + a
      BY ONLY <3>1, a \in 1 .. m
    <3>3. QED BY <1>2, <2>1, <3>2
  <2>4. text[b] = File!Quote /\ text[b + n + 3] = File!Quote /\ text[f] = File!Quote
    BY <2>1, <2>2
  <2>5. QED BY <1>1, <1>2, <1>3, <1>9, <2>2, <2>3, <2>4 DEF Standing
<1>10. QED BY <1>4, <1>6, <1>7, <1>8, <1>9

\* Where a value is read up to.
Behind(d, s, e, k) == IF Apart(d, k + 1) THEN e[k] + 1 ELSE s[k + 1]

\* After a value is a comma, or white space up to the brace that ends the object.
LEMMA BehindValue ==
  ASSUME NEW c, File!IsTree(c), NEW d, d = Items(c), NEW s, NEW e,
         NEW k \in 1 .. Len(c), d[k].kind = "value", Follows(d, s, e, k)
  PROVE  LET q == Behind(d, s, e, k) IN
         /\ q \in Nat /\ e[k] < q /\ q <= s[k + 1] /\ q <= Len(text)
         /\ text[q] \in {File!Comma, File!RBrace}
         /\ \A a \in e[k] + 1 .. q - 1 : text[a] \in File!White
<1>1. /\ Len(text) \in Nat
      /\ s[k + 1] \in Nat /\ e[k + 1] \in Nat /\ e[k] \in Nat \ {0}
      /\ e[k] < s[k + 1] /\ s[k + 1] <= e[k + 1] /\ e[k + 1] <= Len(text)
      /\ Apart(d, k + 1) => e[k] + 1 < s[k + 1] /\ text[e[k] + 1] = File!Comma
      /\ \A a \in e[k] + 1 .. s[k + 1] - 1 :
           (Apart(d, k + 1) /\ a = e[k] + 1) \/ text[a] \in File!White
  BY DEF Follows
<1>2. CASE Apart(d, k + 1)
  <2>1. Behind(d, s, e, k) = e[k] + 1
    BY <1>2 DEF Behind
  <2>2. QED BY <1>1, <1>2, <2>1
<1>3. CASE ~Apart(d, k + 1)
  <2>1. Behind(d, s, e, k) = s[k + 1]
    BY <1>3 DEF Behind
  <2>2. d[k + 1].kind = "end"
    BY <1>3, ApartIs
  <2>3. Standing(d[k + 1], Len(d[k + 1].name), Len(d[k + 1].data), s[k + 1], e[k + 1])
    BY ItemStands, ItemsAre
  <2>4. text[s[k + 1]] = File!RBrace
    BY <2>2, <2>3 DEF Standing
  <2>5. QED BY <1>1, <1>3, <2>1, <2>4
<1>4. QED BY <1>2, <1>3

\* At a value, it is read.
LEMMA ReadsValue ==
  ASSUME NEW c, File!IsTree(c), NEW d, d = Items(c), NEW s, NEW e,
         LaidTo(text, d, Len(d), s, e), NEW k \in 0 .. Len(c) - 1, d[k + 1].kind = "value"
  PROVE  /\ File!At(ValueAt(d[k + 1], s[k + 1])) # File!LBrace
         /\ File!GetValue(ValueAt(d[k + 1], s[k + 1])) =
              [data |-> d[k + 1].data, pos |-> Behind(d, s, e, k + 1)]
<1>0. Len(c) \in Nat /\ k \in 0 .. Len(c) /\ k + 1 \in 1 .. Len(c) /\ k + 1 \in 0 .. Len(c) /\ k \in Nat
  BY ItemsAre
<1>1. Follows(d, s, e, k) /\ Follows(d, s, e, k + 1)
  BY <1>0, Ahead
<1>2. PICK it, n, m, b, f, q, v :
        /\ it = d[k + 1] /\ n = Len(it.name) /\ m = Len(it.data) /\ b = s[k + 1] /\ f = e[k + 1]
        /\ q = Behind(d, s, e, k + 1) /\ v = ValueAt(it, b)
  OBVIOUS
<1>3. Standing(it, n, m, b, f)
  BY <1>0, <1>1, <1>2, ItemStands
<1>4. /\ q \in Nat /\ f < q /\ q <= Len(text)
      /\ text[q] \in {File!Comma, File!RBrace}
      /\ \A a \in f + 1 .. q - 1 : text[a] \in File!White
  BY <1>0, <1>1, <1>2, BehindValue
<1>5. /\ n \in Nat /\ m \in Nat /\ it.data \in Seq(Ink) /\ it.kind = "value"
      /\ \A a \in 1 .. m : it.data[a] # File!Quote
      /\ text \in Seq(Ink) /\ Len(text) \in Nat
  BY <1>1, <1>2, ItemShape DEF Follows
<1>6. b \in Nat \ {0} /\ f \in Nat /\ b <= f /\ f <= Len(text)
  BY <1>3 DEF Standing
<1>7. v = b + n + 3 /\ v \in Nat \ {0}
  <2>1. v = b + n + 3 + 0
    BY ONLY <1>2, <1>5 DEF ValueAt
  <2>2. QED BY ONLY <1>5, <1>6, <2>1
<1>8. CASE File!IsNumber(it.data)
  <2>1. f = v /\ text[v] = it.data[1] /\ m = 1 /\ it.data[1] \in Numbers
    BY <1>3, <1>5, <1>7, <1>8 DEF Standing
  <2>2. it.data[1] \notin File!White \cup {File!Quote, File!Comma, File!RBrace}
        /\ text[v] # File!LBrace
    BY <2>1, NumbersAre
  <2>3. File!At(v) # File!LBrace
    BY <1>6, <2>1, <2>2 DEF File!At
  <2>4. File!GetValue(v) = [data |-> it.data, pos |-> q]
    <3>1. Len(it.data) = 1 /\ v < q /\ \A a \in v + 1 .. q - 1 : text[a] \in File!White
      BY <1>2, <1>4, <2>1
    <3>2. QED BY ONLY <1>4, <1>5, <1>7, <2>1, <2>2, <3>1, NumberIs
  <2>5. QED BY <1>2, <2>3, <2>4
<1>9. CASE ~File!IsNumber(it.data)
  <2>1. /\ f = b + n + m + 4 /\ text[b + n + 3] = File!Quote /\ text[f] = File!Quote
        /\ \A a \in 1 .. m : text[b + n + 3 + a] = it.data[a]
    BY <1>3, <1>5, <1>9 DEF Standing
  <2>2. f = v + m + 1 /\ v + m + 2 = f + 1
    <3>1. n \in Nat /\ m \in Nat /\ b \in Nat /\ v = b + n + 3 /\ f = b + n + m + 4
      BY ONLY <1>5, <1>6, <1>7, <2>1
    <3>2. QED BY ONLY <3>1
  <2>3. File!At(v) # File!LBrace
    <3>1. v <= Len(text) /\ text[v] = File!Quote
      BY <1>5, <1>6, <1>7, <2>1, <2>2
    <3>2. QED BY <3>1, Different DEF File!At
  <2>4. File!GetValue(v) = [data |-> it.data, pos |-> q]
    <3>1. m = Len(it.data) /\ v = b + n + 3 /\ f = v + m + 1 /\ v + m + 2 = f + 1 /\ f < q
      BY <1>2, <1>4, <1>7, <2>2
    <3>2. /\ text[v] = File!Quote /\ text[v + m + 1] = File!Quote
          /\ \A a \in 1 .. m : text[v + a] = it.data[a]
      BY ONLY <2>1, <3>1
    <3>3. v + m + 1 < q /\ \A a \in v + m + 2 .. q - 1 : text[a] \in File!White
      BY ONLY <1>4, <3>1
    <3>4. /\ v + Len(it.data) + 1 < q /\ text[v] = File!Quote /\ text[v + Len(it.data) + 1] = File!Quote
          /\ \A a \in 1 .. Len(it.data) : text[v + a] = it.data[a] /\ it.data[a] # File!Quote
          /\ \A a \in v + Len(it.data) + 2 .. q - 1 : text[a] \in File!White
      BY ONLY <1>5, <3>1, <3>2, <3>3
    <3>5. QED BY ONLY <1>4, <1>5, <1>7, <3>4, QuotedIs
  <2>5. QED BY <1>2, <2>3, <2>4
<1>10. QED BY <1>8, <1>9

\* At the brace of an object, the reader comes to its first item.
LEMMA Opens ==
  ASSUME NEW c, File!IsTree(c), File!Fits(c), NEW d, d = Items(c), NEW s, NEW e,
         LaidTo(text, d, Len(d), s, e), NEW k \in 0 .. Len(c) - 1, d[k + 1].kind = "object"
  PROVE  /\ File!At(ValueAt(d[k + 1], s[k + 1])) = File!LBrace
         /\ File!Begins(ValueAt(d[k + 1], s[k + 1]) + 1).pos = s[k + 2]
         /\ d[k + 2].kind # "end" /\ e[k + 1] < s[k + 2] /\ ~Apart(d, k + 2) /\ s[k + 2] \in Nat
<1>0. /\ Len(c) \in Nat /\ k \in 0 .. Len(c) /\ k + 1 \in 1 .. Len(c) /\ k + 1 \in 0 .. Len(c)
      /\ k \in Nat /\ k + 1 \in Nat /\ (k + 1) + 1 = k + 2
  BY ItemsAre
<1>1. Follows(d, s, e, k) /\ Follows(d, s, e, k + 1)
  BY <1>0, Ahead
<1>2. Standing(d[k + 1], Len(d[k + 1].name), Len(d[k + 1].data), s[k + 1], e[k + 1])
  BY <1>0, <1>1, ItemStands
<1>3. Standing(d[k + 2], Len(d[k + 2].name), Len(d[k + 2].data), s[k + 2], e[k + 2])
  BY <1>0, <1>1, ItemStands
<1>4. d[k + 2].kind # "end" /\ ~Apart(d, k + 2)
  BY <1>0, NotEmpty, ApartIs
<1>5. PICK n, v, b, f, g :
        n = Len(d[k + 1].name) /\ b = s[k + 1] /\ f = e[k + 1] /\ g = s[k + 2] /\ v = ValueAt(d[k + 1], b)
  OBVIOUS
<1>6. /\ b \in Nat /\ f \in Nat /\ f <= Len(text) /\ f = b + n + 4 /\ text[f] = File!LBrace
  BY <1>2, <1>5 DEF Standing
<1>7. n \in Nat
  BY <1>1, <1>5, ItemShape DEF Follows
<1>8. v = f
  <2>1. v = b + n + 3 + 1
    BY ONLY <1>5, d[k + 1].kind = "object" DEF ValueAt
  <2>2. QED BY ONLY <1>6, <1>7, <2>1
<1>9. File!At(v) = File!LBrace
  BY <1>6, <1>8 DEF File!At
<1>10. /\ Len(text) \in Nat /\ g \in Nat /\ f < g /\ g <= Len(text)
       /\ \A a \in f + 1 .. g - 1 : text[a] \in File!White
  <2>1. /\ Len(text) \in Nat /\ s[k + 2] \in Nat /\ e[k + 1] < s[k + 2] /\ s[k + 2] <= e[k + 2]
        /\ e[k + 2] <= Len(text) /\ e[k + 2] \in Nat
    BY ONLY <1>0, <1>1 DEF Follows
  <2>2. \A a \in e[k + 1] + 1 .. s[k + 2] - 1 :
          (Apart(d, k + 2) /\ a = e[k + 1] + 1) \/ text[a] \in File!White
    BY ONLY <1>0, <1>1 DEF Follows
  <2>3. QED BY ONLY <1>4, <1>5, <2>1, <2>2
<1>11. text[g] = File!Quote
  BY <1>3, <1>4, <1>5 DEF Standing
<1>12. File!Gobble(f + 1) = g
  <2>1. f + 1 \in Nat /\ f + 1 <= g /\ text[g] \notin File!White
    BY <1>6, <1>10, <1>11, Characters
  <2>2. QED BY <1>10, <2>1, FirstInk
<1>13. File!At(g) # File!LBrace
  BY <1>10, <1>11, Different DEF File!At
<1>14. File!Begins(f + 1).pos = g
  BY <1>12, <1>13 DEF File!Begins
<1>15. QED BY <1>4, <1>5, <1>8, <1>9, <1>10, <1>14

\* Behind an item the reader sees whether the object ends.
LEMMA Passes ==
  ASSUME NEW c, File!IsTree(c), NEW d, d = Items(c), NEW s, NEW e,
         LaidTo(text, d, Len(d), s, e), NEW k \in 0 .. Len(c),
         NEW p \in Nat, e[k] < p, p <= s[k + 1], NEW g, g = File!Gobble(p),
         NEW q, q = IF File!At(g) = File!Comma THEN g + 1 ELSE g
  PROVE  /\ q \in Nat
         /\ d[k + 1].kind = "end" => q = s[k + 1] /\ File!At(q) = File!RBrace /\ e[k + 1] = s[k + 1]
         /\ d[k + 1].kind # "end" =>
              /\ File!At(q) # File!RBrace
              /\ e[k] < q /\ q <= s[k + 1]
              /\ Apart(d, k + 1) => e[k] + 1 < q
<1>0. k \in Nat
  BY ItemsAre
<1>1. Follows(d, s, e, k)
  BY Ahead
<1>2. Standing(d[k + 1], Len(d[k + 1].name), Len(d[k + 1].data), s[k + 1], e[k + 1])
  BY <1>0, <1>1, ItemStands
<1>3. PICK b, f : b = s[k + 1] /\ f = e[k]
  OBVIOUS
<1>4. /\ Len(text) \in Nat /\ b \in Nat /\ b <= Len(text) /\ f \in Nat /\ f < b
      /\ Apart(d, k + 1) => f + 1 < b /\ text[f + 1] = File!Comma
      /\ \A a \in f + 1 .. b - 1 : (Apart(d, k + 1) /\ a = f + 1) \/ text[a] \in File!White
  <2>1. /\ Len(text) \in Nat /\ s[k + 1] \in Nat /\ s[k + 1] <= e[k + 1] /\ e[k + 1] \in Nat
        /\ e[k + 1] <= Len(text) /\ e[k] \in Nat /\ e[k] < s[k + 1]
    BY ONLY <1>1 DEF Follows
  <2>2. /\ Apart(d, k + 1) => e[k] + 1 < s[k + 1] /\ text[e[k] + 1] = File!Comma
        /\ \A a \in e[k] + 1 .. s[k + 1] - 1 :
             (Apart(d, k + 1) /\ a = e[k] + 1) \/ text[a] \in File!White
    BY ONLY <1>1 DEF Follows
  <2>3. QED BY ONLY <1>3, <2>1, <2>2
<1>5. /\ d[k + 1].kind = "end" => text[b] = File!RBrace /\ e[k + 1] = b /\ ~Apart(d, k + 1)
      /\ d[k + 1].kind # "end" => text[b] = File!Quote
      /\ f < p /\ p <= b
  BY <1>2, <1>3 DEF Standing, Apart
<1>6. CASE Apart(d, k + 1) /\ p = f + 1
  <2>1. text[p] = File!Comma /\ p <= Len(text) /\ p + 1 <= b /\ p + 1 <= Len(text) /\ p + 1 \in Nat
    BY <1>4, <1>6
  <2>2. g = p
    <3>1. p <= p /\ \A a \in p .. p - 1 : text[a] \in File!White
      BY <1>4
    <3>2. text[p] \notin File!White
      BY <2>1, Characters
    <3>3. QED BY <1>4, <2>1, <3>1, <3>2, FirstInk
  <2>3. q = p + 1
    BY <2>1, <2>2 DEF File!At
  <2>4. d[k + 1].kind # "end"
    BY <1>5, <1>6
  <2>5. text[p + 1] # File!RBrace
    <3>1. CASE p + 1 = b
      BY <1>5, <2>4, <3>1, Different
    <3>2. CASE p + 1 # b
      <4>1. p + 1 \in f + 1 .. b - 1 /\ p + 1 # f + 1
        BY <1>4, <1>6, <2>1, <3>2
      <4>2. text[p + 1] \in File!White
        BY <1>4, <4>1
      <4>3. QED BY <4>2, Characters
    <3>3. QED BY <3>1, <3>2
  <2>6. File!At(q) # File!RBrace
    BY <2>1, <2>3, <2>5 DEF File!At
  <2>7. f < q /\ q <= b /\ f + 1 < q /\ q \in Nat
    BY ONLY <1>4, <1>6, <2>1, <2>3
  <2>8. QED BY <1>3, <2>4, <2>6, <2>7
<1>7. CASE ~(Apart(d, k + 1) /\ p = f + 1)
  <2>1. \A a \in p .. b - 1 : text[a] \in File!White
    <3>1. \A a \in p .. b - 1 : a \in f + 1 .. b - 1 /\ (Apart(d, k + 1) => a # f + 1)
      BY <1>4, <1>5, <1>7
    <3>2. QED BY <1>4, <3>1
  <2>2. text[b] \notin File!White /\ text[b] # File!Comma
    BY <1>5, Characters, Different
  <2>3. g = b
    BY <1>4, <1>5, <2>1, <2>2, FirstInk
  <2>4. q = b /\ File!At(q) = text[b]
    BY <1>4, <2>2, <2>3 DEF File!At
  <2>5. CASE d[k + 1].kind = "end"
    BY <1>3, <1>4, <1>5, <2>4, <2>5
  <2>6. CASE d[k + 1].kind # "end"
    <3>1. File!At(q) # File!RBrace
      BY <1>5, <2>4, <2>6, Different
    <3>2. f < q /\ q <= b /\ q \in Nat /\ (Apart(d, k + 1) => f + 1 < q)
      BY <1>4, <2>4
    <3>3. QED BY <1>3, <2>6, <3>1, <3>2
  <2>7. QED BY <2>5, <2>6
<1>8. QED BY <1>6, <1>7

\* The closing brace, and the comma after it.
LEMMA Closes ==
  ASSUME NEW c, File!IsTree(c), NEW d, d = Items(c), NEW s, NEW e,
         LaidTo(text, d, Len(d), s, e), NEW k \in 1 .. Len(c), d[k].kind = "end", e[k] = s[k],
         NEW q, q = IF File!At(s[k] + 1) = File!Comma THEN s[k] + 2 ELSE s[k] + 1
  PROVE  q \in Nat /\ e[k] < q /\ q <= s[k + 1]
<1>0. k \in Nat /\ k \in 0 .. Len(c)
  BY ItemsAre
<1>1. Follows(d, s, e, k)
  BY <1>0, Ahead
<1>2. Standing(d[k + 1], Len(d[k + 1].name), Len(d[k + 1].data), s[k + 1], e[k + 1])
  BY <1>0, <1>1, ItemStands
<1>3. PICK b, f : b = s[k + 1] /\ f = e[k]
  OBVIOUS
<1>4. /\ Len(text) \in Nat /\ b \in Nat /\ b <= Len(text) /\ f \in Nat /\ f < b
  <2>1. /\ Len(text) \in Nat /\ s[k + 1] \in Nat /\ s[k + 1] <= e[k + 1] /\ e[k + 1] \in Nat
        /\ e[k + 1] <= Len(text) /\ e[k] \in Nat /\ e[k] < s[k + 1]
    BY ONLY <1>1 DEF Follows
  <2>2. QED BY ONLY <1>3, <2>1
<1>5. text[b] \in {File!Quote, File!RBrace}
  BY <1>2, <1>3 DEF Standing
<1>6. CASE File!At(f + 1) = File!Comma
  <2>1. q = f + 2
    BY <1>3, <1>6
  <2>2. f + 1 <= Len(text) /\ text[f + 1] = File!Comma
    BY <1>4, <1>6 DEF File!At
  <2>3. f + 1 # b
    BY <1>5, <2>2, Different
  <2>4. q \in Nat /\ f < q /\ q <= b
    BY ONLY <1>4, <2>1, <2>3
  <2>5. QED BY ONLY <1>3, <2>4
<1>7. CASE File!At(f + 1) # File!Comma
  <2>1. q = f + 1
    BY <1>3, <1>7
  <2>2. q \in Nat /\ f < q /\ q <= b
    BY ONLY <1>4, <2>1
  <2>3. QED BY ONLY <1>3, <2>2
<1>8. QED BY <1>6, <1>7

\* The first brace.
LEMMA Starts ==
  ASSUME NEW c, File!IsTree(c), File!Fits(c), NEW d, d = Items(c), NEW s, NEW e,
         LaidTo(text, d, Len(d), s, e)
  PROVE  /\ File!Begins(1).pos = e[0] + 1 /\ e[0] \in Nat
         /\ e[0] < s[1] /\ s[1] \in Nat /\ ~Apart(d, 1) /\ d[1].kind # "end"
<1>1. 0 \in 0 .. Len(c) /\ Len(c) \in Nat
  BY ItemsAre
<1>2. Follows(d, s, e, 0)
  BY <1>1, Ahead
<1>3. e[0] \in Nat /\ s[1] \in Nat /\ e[0] < s[1]
  BY ONLY <1>2 DEF Follows
<1>4. ~Apart(d, 1)
  BY DEF Apart
<1>5. d[1].kind # "end"
  <2>1. d[0 + 1].kind # "end"
    BY <1>1, NotEmpty
  <2>2. QED BY <2>1
<1>6. /\ text \in Seq(Ink) /\ e[0] \in Nat \ {0} /\ e[0] <= Len(text) /\ text[e[0]] = File!LBrace
      /\ \A a \in 1 .. e[0] - 1 : text[a] \in File!White
  BY DEF LaidTo
<1>7. File!Gobble(1) = e[0]
  <2>1. Len(text) \in Nat /\ text[e[0]] \notin File!White /\ 1 <= e[0]
    BY <1>2, <1>6, Characters DEF Follows
  <2>2. QED BY <1>6, <2>1, FirstInk
<1>8. File!At(e[0]) = File!LBrace
  BY <1>6 DEF File!At
<1>9. QED BY <1>3, <1>4, <1>5, <1>7, <1>8 DEF File!Begins

-----------------------------------------------------------------------------
(* A configuration as text: the objects being read.                         *)

Objects == [name : Seq(Ink), members : Seq(File!Item), i : Int]

\* o are the objects open behind the first k items, which begin at the items b; z is 1 when
\* the member just read is still to be counted.
StackIs(o, c, N, k, b, z) ==
  LET m == Len(o) IN
  /\ o \in Seq(Objects) /\ m \in Nat \ {0} /\ m = Len(N[k])
  /\ b[1] = 0
  /\ \A j \in 1 .. m : b[j] \in 0 .. k
  /\ \A j \in 2 .. m : b[j - 1] < b[j] /\ c[b[j]] = File!Begin(o[j].name)
  /\ \A j \in 1 .. m - 1 : o[j].i = N[k][j] - 1 /\ o[j].members = SubSeq(c, b[j] + 1, b[j + 1] - 1)
  /\ o[m].i = N[k][m] - z /\ o[m].members = SubSeq(c, b[m] + 1, k)

\* The last one put in place of another.
Retop(o, x) == File!Front(o) \o <<x>>

Retopping(v, o, x, S) ==
  v \in Seq(S) /\ Len(v) = Len(o) /\ v[Len(o)] = x /\ \A j \in 1 .. Len(o) - 1 : v[j] = o[j]

\* The others stay as they are.
LEMMA Retopped ==
  ASSUME NEW S, NEW o \in Seq(S), Len(o) >= 1, NEW x \in S
  PROVE  Retopping(Retop(o, x), o, x, S)
<1>0. PICK v : v = Retop(o, x)
  OBVIOUS
<1>1. PICK f, m, w : f = File!Front(o) /\ m = Len(o) /\ w = <<x>>
  OBVIOUS
<1>2. f \in Seq(S) /\ Len(f) = m - 1 /\ m \in Nat /\ \A j \in 1 .. m - 1 : f[j] = o[j]
  BY <1>1, FrontIs, LenProperties
<1>3. w \in Seq(S) /\ Len(w) = 1 /\ w[1] = x
  BY <1>1
<1>4. /\ f \o w \in Seq(S) /\ Len(f \o w) = Len(f) + Len(w)
      /\ \A a \in 1 .. Len(f) : (f \o w)[a] = f[a]
      /\ \A a \in 1 .. Len(w) : (f \o w)[Len(f) + a] = w[a]
  <2>1. f \in Seq(S) /\ w \in Seq(S)
    BY <1>2, <1>3
  <2>2. QED BY ONLY <2>1, ConcatIs
<1>5. v = f \o w /\ m >= 1
  BY <1>0, <1>1 DEF Retop
<1>6. v \in Seq(S) /\ Len(v) = m /\ \A a \in 1 .. m - 1 : v[a] = f[a]
  BY ONLY <1>2, <1>3, <1>4, <1>5
<1>7. v[m] = x
  <2>1. (m - 1) + 1 = m /\ 1 \in 1 .. 1
    BY ONLY <1>2
  <2>2. QED BY ONLY <1>2, <1>3, <1>4, <1>5, <2>1
<1>8. QED BY <1>0, <1>1, <1>2, <1>6, <1>7 DEF Retopping

Added(v, o, w) == v \in Objects /\ v.name = o.name /\ v.i = o.i /\ v.members = o.members \o w

\* Only the members change.
LEMMA AddedTo ==
  ASSUME NEW o \in Objects, NEW w \in Seq(File!Item), NEW v, v = File!AddTo(o, w)
  PROVE  Added(v, o, w)
<1>1. v = [o EXCEPT !.members = o.members \o w]
  BY DEF File!AddTo
<1>2. o.members \in Seq(File!Item)
  BY DEF Objects
<1>3. o.members \o w \in Seq(File!Item)
  BY <1>2, ConcatProperties
<1>4. PICK u : u = o.members \o w
  OBVIOUS
<1>5. v = [o EXCEPT !.members = u] /\ u \in Seq(File!Item)
  BY <1>1, <1>3, <1>4
<1>6. QED BY <1>4, <1>5 DEF Objects, Added

\* One more item.
LEMMA OneLonger ==
  ASSUME NEW c \in Seq(File!Item), NEW k \in 0 .. Len(c) - 1, NEW a \in 0 .. k
  PROVE  SubSeq(c, a + 1, k) \o <<c[k + 1]>> = SubSeq(c, a + 1, k + 1)
<1>1. Len(c) \in Nat
  BY LenProperties
<1>2. a + 1 \in 1 .. Len(c) /\ k + 1 \in a + 1 .. Len(c) /\ (k + 1) - 1 = k
  BY <1>1
<1>3. SubSeq(c, a + 1, k + 1) = SubSeq(c, a + 1, (k + 1) - 1) \o <<c[k + 1]>>
  BY <1>2, SubSeqRecursiveSecond
<1>4. QED BY <1>2, <1>3

\* An object, between its beginning and its end.
LEMMA NodeIs ==
  ASSUME NEW c \in Seq(File!Item), NEW k \in 0 .. Len(c) - 1, NEW a \in 0 .. k, NEW b \in 0 .. k,
         a < b, NEW name, c[b] = File!Begin(name), c[k + 1] = File!End
  PROVE  /\ SubSeq(c, a + 1, b - 1) \o File!Node(name, SubSeq(c, b + 1, k)) = SubSeq(c, a + 1, k + 1)
         /\ File!Node(name, SubSeq(c, b + 1, k)) \in Seq(File!Item)
<1>1. Len(c) \in Nat /\ \A j \in 1 .. Len(c) : c[j] \in File!Item
  BY LenProperties, ElementOfSeq
<1>2. /\ a + 1 \in 1 .. Len(c) + 1 /\ b \in a + 1 .. Len(c) /\ b - 1 \in a .. Len(c) /\ (a + 1) - 1 = a
      /\ k + 1 \in b .. Len(c) /\ b \in 1 .. Len(c) /\ k + 1 \in 1 .. Len(c) /\ (b - 1) + 1 = b
      /\ k + 1 \in b - 1 .. Len(c)
  BY <1>1
<1> DEFINE x == SubSeq(c, b + 1, k)
           w == SubSeq(c, b + 1, k + 1)
           h == <<c[b]>>
           t == <<c[k + 1]>>
<1>3. x \o t = w
  <2>1. b \in 0 .. k
    OBVIOUS
  <2>2. QED BY <2>1, OneLonger
<1>4. h \o w = SubSeq(c, b, k + 1)
  BY <1>2, SubSeqRecursiveFirst
<1>5. SubSeq(c, a + 1, b - 1) \o SubSeq(c, (b - 1) + 1, k + 1) = SubSeq(c, a + 1, k + 1)
  BY <1>2, ConcatAdjacentSubSeq
<1>6. File!Node(name, x) = (h \o x) \o t
  BY DEF File!Node
<1>7. x \in Seq(File!Item) /\ h \in Seq(File!Item) /\ t \in Seq(File!Item)
  <2>1. \A j \in b + 1 .. k : c[j] \in File!Item
    BY <1>1, <1>2
  <2>2. x \in Seq(File!Item)
    BY <2>1, SubSeqProperties
  <2>3. c[b] \in File!Item /\ c[k + 1] \in File!Item
    BY <1>1, <1>2
  <2>4. h \in Seq(File!Item) /\ t \in Seq(File!Item)
    BY <2>3
  <2>5. QED BY <2>2, <2>4
<1> HIDE DEF x, w, h, t
<1>8. (h \o x) \o t = h \o (x \o t)
  <2>1. h \in Seq(File!Item) /\ x \in Seq(File!Item) /\ t \in Seq(File!Item)
    BY <1>7
  <2>2. Associates(h, x, t)
    BY ONLY <2>1, ConcatAssociates
  <2>3. QED BY ONLY <2>2 DEF Associates
<1>9. File!Node(name, x) = SubSeq(c, b, k + 1)
  BY <1>3, <1>4, <1>6, <1>8
<1>10. SubSeq(c, b, k + 1) \in Seq(File!Item)
  <2>1. \A j \in b .. k + 1 : c[j] \in File!Item
    BY <1>1, <1>2
  <2>2. QED BY <2>1, SubSeqProperties
<1>11. QED BY <1>2, <1>5, <1>9, <1>10 DEF x

\* The top object takes in a value.
LEMMA StackValue ==
  ASSUME NEW c \in Seq(File!Item), NEW N, NEW k \in 0 .. Len(c) - 1, NEW b, NEW o,
         StackIs(o, c, N, k, b, 0), c[k + 1].kind = "value", CountStep(c[k + 1], N[k], N[k + 1]),
         NEW v, v = File!Front(o) \o <<File!AddTo(File!Last(o), <<c[k + 1]>>)>>
  PROVE  StackIs(v, c, N, k + 1, b, 1)
<1>1. PICK m, w, n : m = Len(o) /\ w = N[k + 1] /\ n = N[k]
  OBVIOUS
<1>2. /\ o \in Seq(Objects) /\ m \in Nat \ {0} /\ m = Len(n)
      /\ b[1] = 0
      /\ \A j \in 1 .. m : b[j] \in 0 .. k
      /\ \A j \in 2 .. m : b[j - 1] < b[j] /\ c[b[j]] = File!Begin(o[j].name)
      /\ \A j \in 1 .. m - 1 : o[j].i = n[j] - 1 /\ o[j].members = SubSeq(c, b[j] + 1, b[j + 1] - 1)
      /\ o[m].i = n[m] - 0 /\ o[m].members = SubSeq(c, b[m] + 1, k)
  BY <1>1 DEF StackIs
<1>3. Len(w) = m /\ w[m] = n[m] + 1 /\ n[m] \in Nat /\ \A j \in 1 .. m - 1 : w[j] = n[j]
  <2>1. /\ n \in Seq(Nat) /\ Len(w) = Len(n) /\ w[Len(n)] = n[Len(n)] + 1
        /\ \A j \in 1 .. Len(n) - 1 : w[j] = n[j]
    BY <1>1 DEF CountStep
  <2>2. n[m] \in Nat
    <3>1. n \in Seq(Nat) /\ m \in 1 .. Len(n)
      BY ONLY <1>2, <2>1
    <3>2. QED BY ONLY <3>1, ElementOfSeq
  <2>3. QED BY <1>2, <2>1, <2>2
<1>4. File!Last(o) = o[m] /\ o[m] \in Objects
  <2>1. o \in Seq(Objects) /\ Len(o) >= 1 /\ Len(o) = m
    BY <1>1, <1>2
  <2>2. File!Last(o) = o[Len(o)] /\ o[Len(o)] \in Objects
    BY ONLY <2>1, FrontIs
  <2>3. QED BY ONLY <2>1, <2>2
<1>5. Len(c) \in Nat /\ c[k + 1] \in File!Item
  <2>1. Len(c) \in Nat
    BY LenProperties
  <2>2. k + 1 \in 1 .. Len(c)
    BY <2>1
  <2>3. QED BY <2>1, <2>2, ElementOfSeq
<1>6. PICK x : x = File!AddTo(o[m], <<c[k + 1]>>)
  OBVIOUS
<1>7. x \in Objects /\ x.name = o[m].name /\ x.i = o[m].i /\ x.members = o[m].members \o <<c[k + 1]>>
  <2>1. <<c[k + 1]>> \in Seq(File!Item)
    BY <1>5
  <2>2. Added(x, o[m], <<c[k + 1]>>)
    BY <1>4, <1>6, <2>1, AddedTo
  <2>3. QED BY <2>2 DEF Added
<1>8. x.members = SubSeq(c, b[m] + 1, k + 1)
  <2>1. b[m] \in 0 .. k
    BY <1>2
  <2>2. QED BY <1>2, <1>7, <2>1, OneLonger
<1>9. v \in Seq(Objects) /\ Len(v) = m /\ v[m] = x /\ \A j \in 1 .. m - 1 : v[j] = o[j]
  <2>1. v = Retop(o, x) /\ Len(o) >= 1
    BY <1>1, <1>2, <1>4, <1>6 DEF Retop
  <2>2. o \in Seq(Objects) /\ x \in Objects /\ Len(o) = m
    BY <1>1, <1>2, <1>7
  <2>3. Retopping(Retop(o, x), o, x, Objects)
    BY ONLY <2>1, <2>2, Retopped
  <2>4. QED BY ONLY <2>1, <2>2, <2>3 DEF Retopping
<1>10. \A j \in 1 .. m : b[j] \in 0 .. k + 1
  BY <1>2, <1>5
<1>11. ASSUME NEW j \in 2 .. m PROVE b[j - 1] < b[j] /\ c[b[j]] = File!Begin(v[j].name)
  <2>1. v[j].name = o[j].name
    <3>1. j = m \/ j \in 1 .. m - 1
      BY <1>2
    <3>2. QED BY <1>7, <1>9, <3>1
  <2>2. QED BY <1>2, <2>1
<1>12. \A j \in 1 .. m - 1 : v[j].i = w[j] - 1 /\ v[j].members = SubSeq(c, b[j] + 1, b[j + 1] - 1)
  BY <1>2, <1>3, <1>9
<1>13. v[m].i = w[m] - 1 /\ v[m].members = SubSeq(c, b[m] + 1, k + 1)
  <2>1. v[m].i = n[m] - 0
    BY <1>2, <1>7, <1>9
  <2>2. n[m] - 0 = w[m] - 1
    BY ONLY <1>3
  <2>3. v[m].members = SubSeq(c, b[m] + 1, k + 1)
    BY <1>8, <1>9
  <2>4. QED BY <2>1, <2>2, <2>3
<1>14. QED BY <1>1, <1>2, <1>3, <1>9, <1>10, <1>11, <1>12, <1>13 DEF StackIs

\* An object is opened.
LEMMA StackOpen ==
  ASSUME NEW c \in Seq(File!Item), NEW N, NEW k \in 0 .. Len(c) - 1, NEW b, NEW o,
         StackIs(o, c, N, k, b, 0), c[k + 1] = File!Begin(c[k + 1].name),
         CountStep(c[k + 1], N[k], N[k + 1]),
         NEW v, v = Append(o, File!Empty(c[k + 1].name))
  PROVE  \E u : StackIs(v, c, N, k + 1, u, 0)
<1>1. PICK m, w, n, x : m = Len(o) /\ w = N[k + 1] /\ n = N[k] /\ x = File!Empty(c[k + 1].name)
  OBVIOUS
<1>2. /\ o \in Seq(Objects) /\ m \in Nat \ {0} /\ m = Len(n)
      /\ b[1] = 0
      /\ \A j \in 1 .. m : b[j] \in 0 .. k
      /\ \A j \in 2 .. m : b[j - 1] < b[j] /\ c[b[j]] = File!Begin(o[j].name)
      /\ \A j \in 1 .. m - 1 : o[j].i = n[j] - 1 /\ o[j].members = SubSeq(c, b[j] + 1, b[j + 1] - 1)
      /\ o[m].i = n[m] - 0 /\ o[m].members = SubSeq(c, b[m] + 1, k)
  BY <1>1 DEF StackIs
<1>3. /\ Len(w) = m + 1 /\ w[m] = n[m] + 1 /\ w[m + 1] = 0 /\ n[m] \in Nat
      /\ \A j \in 1 .. m - 1 : w[j] = n[j]
  <2>1. c[k + 1].kind = "object"
    BY DEF File!Begin
  <2>2. /\ n \in Seq(Nat) /\ Len(w) = Len(n) + 1 /\ w[Len(n)] = n[Len(n)] + 1 /\ w[Len(n) + 1] = 0
        /\ \A j \in 1 .. Len(n) - 1 : w[j] = n[j]
    BY <1>1, <2>1 DEF CountStep
  <2>3. n[m] \in Nat
    <3>1. n \in Seq(Nat) /\ m \in 1 .. Len(n)
      BY ONLY <1>2, <2>2
    <3>2. QED BY ONLY <3>1, ElementOfSeq
  <2>4. QED BY <1>2, <2>2, <2>3
<1>4. Len(c) \in Nat /\ c[k + 1] \in File!Item
  <2>1. Len(c) \in Nat
    BY LenProperties
  <2>2. k + 1 \in 1 .. Len(c)
    BY <2>1
  <2>3. QED BY <2>1, <2>2, ElementOfSeq
<1>5. x \in Objects /\ x.name = c[k + 1].name /\ x.members = <<>> /\ x.i = 0
  <2>1. c[k + 1].name \in Seq(Ink) /\ <<>> \in Seq(File!Item)
    BY <1>4, ItemShape, EmptySeq
  <2>2. QED BY <1>1, <2>1 DEF File!Empty, Objects
<1>6. v \in Seq(Objects) /\ Len(v) = m + 1 /\ v[m + 1] = x /\ \A j \in 1 .. m : v[j] = o[j]
  <2>1. /\ Append(o, x) \in Seq(Objects) /\ Len(Append(o, x)) = Len(o) + 1
        /\ \A j \in 1 .. Len(o) : Append(o, x)[j] = o[j]
        /\ Append(o, x)[Len(o) + 1] = x
    BY <1>2, <1>5, AppendProperties
  <2>2. QED BY <1>1, <2>1
<1> DEFINE u == [j \in 1 .. m + 1 |-> IF j = m + 1 THEN k + 1 ELSE b[j]]
<1>7. u[m + 1] = k + 1 /\ \A j \in 1 .. m : u[j] = b[j]
  BY <1>2
<1> HIDE DEF u
<1>8. u[1] = 0
  BY <1>2, <1>7
<1>9. \A j \in 1 .. m + 1 : u[j] \in 0 .. k + 1
  <2>1. \A j \in 1 .. m + 1 : j = m + 1 \/ j \in 1 .. m
    BY <1>2
  <2>2. k + 1 \in 0 .. k + 1 /\ \A j \in 1 .. m : b[j] \in 0 .. k + 1
    BY <1>2, <1>4
  <2>3. QED BY <1>7, <2>1, <2>2
<1>10. ASSUME NEW j \in 2 .. m + 1 PROVE u[j - 1] < u[j] /\ c[u[j]] = File!Begin(v[j].name)
  <2>1. CASE j = m + 1
    <3>1. u[j - 1] = b[m] /\ u[j] = k + 1 /\ b[m] \in 0 .. k
      BY <1>2, <1>7, <2>1
    <3>2. v[j].name = c[k + 1].name
      BY <1>5, <1>6, <2>1
    <3>3. u[j - 1] < u[j]
      BY <1>4, <3>1
    <3>4. QED BY <3>1, <3>2, <3>3
  <2>2. CASE j # m + 1
    <3>1. j \in 2 .. m /\ j \in 1 .. m /\ j - 1 \in 1 .. m
      <4>1. m \in Nat \ {0}
        BY <1>2
      <4>2. QED BY ONLY j \in 2 .. m + 1, <2>2, <4>1
    <3>2. QED BY <1>2, <1>6, <1>7, <3>1
  <2>3. QED BY <2>1, <2>2
<1>11. ASSUME NEW j \in 1 .. m
       PROVE  v[j].i = w[j] - 1 /\ v[j].members = SubSeq(c, u[j] + 1, u[j + 1] - 1)
  <2>1. CASE j = m
    <3>1. v[j].i = w[j] - 1
      BY <1>2, <1>3, <1>6, <2>1
    <3>2. u[j] = b[m] /\ u[j + 1] = k + 1 /\ (k + 1) - 1 = k
      BY <1>4, <1>7, <2>1
    <3>3. v[j].members = SubSeq(c, b[m] + 1, k)
      BY <1>2, <1>6, <2>1
    <3>4. QED BY <3>1, <3>2, <3>3
  <2>2. CASE j # m
    <3>1. j \in 1 .. m - 1 /\ j \in 1 .. m /\ j + 1 \in 1 .. m
      BY <1>2, <2>2
    <3>2. v[j] = o[j] /\ u[j] = b[j] /\ u[j + 1] = b[j + 1] /\ w[j] = n[j]
      BY ONLY <1>3, <1>6, <1>7, <3>1
    <3>3. o[j].i = n[j] - 1 /\ o[j].members = SubSeq(c, b[j] + 1, b[j + 1] - 1)
      BY ONLY <1>2, <3>1
    <3>4. QED BY ONLY <3>2, <3>3
  <2>3. QED BY <2>1, <2>2
<1>12. v[m + 1].i = w[m + 1] - 0 /\ v[m + 1].members = SubSeq(c, u[m + 1] + 1, k + 1)
  <2>1. SubSeq(c, (k + 1) + 1, k + 1) = <<>>
    BY <1>4, SubSeqEmpty
  <2>2. v[m + 1].i = 0 /\ w[m + 1] - 0 = 0
    BY <1>3, <1>5, <1>6
  <2>3. v[m + 1].members = <<>>
    BY <1>5, <1>6
  <2>4. SubSeq(c, u[m + 1] + 1, k + 1) = <<>>
    BY <1>7, <2>1
  <2>5. QED BY <2>2, <2>3, <2>4
<1>13. m + 1 \in Nat \ {0} /\ (m + 1) - 1 = m
  BY <1>2
<1>14. StackIs(v, c, N, k + 1, u, 0)
  <2>1. PICK l, g : l = m + 1 /\ g = k + 1
    OBVIOUS
  <2>2. v \in Seq(Objects) /\ l \in Nat \ {0} /\ l = Len(v) /\ l = Len(w) /\ w = N[g]
    BY ONLY <1>1, <1>3, <1>6, <1>13, <2>1
  <2>3. /\ u[1] = 0
        /\ \A j \in 1 .. l : u[j] \in 0 .. g
        /\ \A j \in 2 .. l : u[j - 1] < u[j] /\ c[u[j]] = File!Begin(v[j].name)
    BY ONLY <1>8, <1>9, <1>10, <2>1
  <2>4. \A j \in 1 .. l - 1 : v[j].i = w[j] - 1 /\ v[j].members = SubSeq(c, u[j] + 1, u[j + 1] - 1)
    BY ONLY <1>11, <1>13, <2>1
  <2>5. v[l].i = w[l] - 0 /\ v[l].members = SubSeq(c, u[l] + 1, g)
    BY ONLY <1>12, <2>1
  <2>6. StackIs(v, c, N, g, u, 0)
    BY ONLY <2>2, <2>3, <2>4, <2>5 DEF StackIs
  <2>7. QED BY ONLY <2>1, <2>6
<1>15. QED BY <1>14

\* An object is closed, and the one around it takes it in.
LEMMA StackClose ==
  ASSUME NEW c \in Seq(File!Item), NEW N, NEW k \in 0 .. Len(c) - 1, NEW b, NEW o,
         StackIs(o, c, N, k, b, 1), c[k + 1] = File!End, CountStep(c[k + 1], N[k], N[k + 1]),
         NEW f, f = File!Front(o), NEW top, top = o[Len(o)],
         NEW v, v = File!Front(f) \o <<File!AddTo(File!Last(f), File!Node(top.name, top.members))>>
  PROVE  StackIs(v, c, N, k + 1, b, 1)
<1>1. PICK m, w, n : m = Len(o) /\ w = N[k + 1] /\ n = N[k]
  OBVIOUS
<1>2. /\ o \in Seq(Objects) /\ m \in Nat \ {0} /\ m = Len(n)
      /\ b[1] = 0
      /\ \A j \in 1 .. m : b[j] \in 0 .. k
      /\ \A j \in 2 .. m : b[j - 1] < b[j] /\ c[b[j]] = File!Begin(o[j].name)
      /\ \A j \in 1 .. m - 1 : o[j].i = n[j] - 1 /\ o[j].members = SubSeq(c, b[j] + 1, b[j + 1] - 1)
      /\ o[m].members = SubSeq(c, b[m] + 1, k)
  BY <1>1 DEF StackIs
<1>3. m > 1 /\ Len(w) = m - 1 /\ \A j \in 1 .. m - 1 : w[j] = n[j]
  <2>1. c[k + 1].kind = "end"
    BY DEF File!End
  <2>2. QED BY <1>1, <1>2, <2>1 DEF CountStep
<1>a. m - 1 \in Nat \ {0} /\ m - 1 \in 1 .. m /\ m \in 2 .. m /\ m - 1 \in 1 .. m - 1
      /\ (m - 1) + 1 = m /\ m \in 1 .. m
  <2>1. m \in Nat /\ m > 1
    BY <1>2, <1>3
  <2>2. QED BY ONLY <2>1
<1>4. f \in Seq(Objects) /\ Len(f) = m - 1 /\ \A j \in 1 .. m - 1 : f[j] = o[j]
  <2>1. o \in Seq(Objects) /\ Len(o) >= 1 /\ Len(o) = m
    BY <1>1, <1>2
  <2>2. QED BY <2>1, FrontIs
<1>5. File!Last(f) = f[m - 1] /\ f[m - 1] \in Objects /\ f[m - 1] = o[m - 1]
  <2>1. f \in Seq(Objects) /\ Len(f) >= 1 /\ Len(f) = m - 1
    BY <1>4, <1>a
  <2>2. File!Last(f) = f[Len(f)] /\ f[Len(f)] \in Objects
    BY ONLY <2>1, FrontIs
  <2>3. QED BY <1>4, <1>a, <2>1, <2>2
<1>6. PICK x, node : node = File!Node(top.name, top.members) /\ x = File!AddTo(f[m - 1], node)
  OBVIOUS
<1>7. node \in Seq(File!Item) /\ SubSeq(c, b[m - 1] + 1, b[m] - 1) \o node = SubSeq(c, b[m - 1] + 1, k + 1)
  <2>1. b[m - 1] \in 0 .. k /\ b[m] \in 0 .. k /\ b[m - 1] < b[m] /\ c[b[m]] = File!Begin(o[m].name)
    BY <1>2, <1>a
  <2>2. top = o[m] /\ top.members = SubSeq(c, b[m] + 1, k)
    BY <1>1, <1>2
  <2>3. PICK r, t, z : r = b[m - 1] /\ t = b[m] /\ z = o[m].name
    OBVIOUS
  <2>4. /\ c \in Seq(File!Item) /\ k \in 0 .. Len(c) - 1 /\ r \in 0 .. k /\ t \in 0 .. k /\ r < t
        /\ c[t] = File!Begin(z) /\ c[k + 1] = File!End
    BY <2>1, <2>3
  <2>5. /\ SubSeq(c, r + 1, t - 1) \o File!Node(z, SubSeq(c, t + 1, k)) = SubSeq(c, r + 1, k + 1)
        /\ File!Node(z, SubSeq(c, t + 1, k)) \in Seq(File!Item)
    BY ONLY <2>4, NodeIs
  <2>6. node = File!Node(z, SubSeq(c, t + 1, k))
    BY ONLY <1>6, <2>2, <2>3
  <2>7. QED BY ONLY <2>3, <2>5, <2>6
<1>8. x \in Objects /\ x.name = o[m - 1].name /\ x.i = o[m - 1].i /\ x.members = o[m - 1].members \o node
  <2>1. PICK g : g = f[m - 1]
    OBVIOUS
  <2>2. g \in Objects /\ g = o[m - 1] /\ node \in Seq(File!Item) /\ x = File!AddTo(g, node)
    BY <1>5, <1>6, <1>7, <2>1
  <2>3. x \in Objects /\ x.name = g.name /\ x.i = g.i /\ x.members = g.members \o node
    <3>1. Added(x, g, node)
      BY ONLY <2>2, AddedTo
    <3>2. QED BY ONLY <3>1 DEF Added
  <2>4. QED BY ONLY <2>2, <2>3
<1>9. x.members = SubSeq(c, b[m - 1] + 1, k + 1) /\ x.i = n[m - 1] - 1
  <2>1. o[m - 1].members = SubSeq(c, b[m - 1] + 1, b[m] - 1) /\ o[m - 1].i = n[m - 1] - 1
    BY <1>2, <1>a
  <2>2. QED BY <1>7, <1>8, <2>1
<1>10. v \in Seq(Objects) /\ Len(v) = m - 1 /\ v[m - 1] = x /\ \A j \in 1 .. m - 2 : v[j] = f[j]
  <2>1. v = Retop(f, x) /\ Len(f) >= 1
    BY <1>a, <1>4, <1>5, <1>6 DEF Retop
  <2>2. f \in Seq(Objects) /\ x \in Objects /\ Len(f) = m - 1
    BY <1>4, <1>8
  <2>3. Retopping(Retop(f, x), f, x, Objects)
    BY ONLY <2>1, <2>2, Retopped
  <2>4. (m - 1) - 1 = m - 2
    BY ONLY <1>2
  <2>5. QED BY ONLY <2>1, <2>2, <2>3, <2>4 DEF Retopping
<1>11. \A j \in 1 .. m - 1 : b[j] \in 0 .. k + 1
  BY <1>2, <1>a
<1>12. ASSUME NEW j \in 2 .. m - 1 PROVE b[j - 1] < b[j] /\ c[b[j]] = File!Begin(v[j].name)
  <2>1. v[j].name = o[j].name
    <3>1. j = m - 1 \/ (j \in 1 .. m - 2 /\ j \in 1 .. m - 1)
      BY ONLY <1>2, <1>12
    <3>2. QED BY <1>4, <1>8, <1>10, <3>1
  <2>2. j \in 2 .. m
    BY <1>2
  <2>3. QED BY <1>2, <2>1, <2>2
<1>13. ASSUME NEW j \in 1 .. (m - 1) - 1
       PROVE  v[j].i = w[j] - 1 /\ v[j].members = SubSeq(c, b[j] + 1, b[j + 1] - 1)
  <2>1. j \in 1 .. m - 2 /\ j \in 1 .. m - 1
    BY ONLY <1>2, j \in 1 .. (m - 1) - 1
  <2>2. v[j] = o[j] /\ w[j] = n[j]
    BY <1>3, <1>4, <1>10, <2>1
  <2>3. QED BY <1>2, <2>1, <2>2
<1>14. v[m - 1].i = w[m - 1] - 1 /\ v[m - 1].members = SubSeq(c, b[m - 1] + 1, k + 1)
  BY <1>3, <1>9, <1>10, <1>a
<1>15. QED BY <1>1, <1>2, <1>3, <1>a, <1>10, <1>11, <1>12, <1>13, <1>14 DEF StackIs

\* The member read is counted.
LEMMA StackCounts ==
  ASSUME NEW c, NEW N, NEW k, NEW b, NEW o,
         StackIs(o, c, N, k, b, 1), N[k] \in Seq(Nat),
         NEW v, v = [o EXCEPT ![Len(o)].i = @ + 1]
  PROVE  StackIs(v, c, N, k, b, 0)
<1>1. PICK m, n, x : m = Len(o) /\ n = N[k] /\ x = [o[Len(o)] EXCEPT !.i = o[Len(o)].i + 1]
  OBVIOUS
<1>2. /\ o \in Seq(Objects) /\ m \in Nat \ {0} /\ m = Len(n)
      /\ b[1] = 0
      /\ \A j \in 1 .. m : b[j] \in 0 .. k
      /\ \A j \in 2 .. m : b[j - 1] < b[j] /\ c[b[j]] = File!Begin(o[j].name)
      /\ \A j \in 1 .. m - 1 : o[j].i = n[j] - 1 /\ o[j].members = SubSeq(c, b[j] + 1, b[j + 1] - 1)
      /\ o[m].i = n[m] - 1 /\ o[m].members = SubSeq(c, b[m] + 1, k)
  BY <1>1 DEF StackIs
<1>3. n[m] \in Nat /\ o[m] \in Objects /\ DOMAIN o = 1 .. m /\ m \in 1 .. m
  <2>1. n \in Seq(Nat) /\ m \in 1 .. Len(n) /\ m \in 1 .. Len(o) /\ m \in 1 .. m
    BY <1>1, <1>2
  <2>2. n[m] \in Nat /\ o[m] \in Objects
    BY <1>2, <2>1, ElementOfSeq
  <2>3. DOMAIN o = 1 .. m
    BY <1>1, <1>2, LenProperties
  <2>4. QED BY <2>1, <2>2, <2>3
<1>4. x \in Objects /\ x.i = n[m] /\ x.name = o[m].name /\ x.members = o[m].members
  <2>1. x = [o[m] EXCEPT !.i = o[m].i + 1]
    BY <1>1
  <2>2. PICK q : q = o[m].i + 1
    OBVIOUS
  <2>3. q \in Int /\ q = n[m]
    BY <1>2, <1>3, <2>2
  <2>4. x = [o[m] EXCEPT !.i = q]
    BY <2>1, <2>2
  <2>5. QED BY <1>3, <2>3, <2>4 DEF Objects
<1>5. v = [o EXCEPT ![m] = x]
  BY <1>1
<1>6. v \in Seq(Objects) /\ Len(v) = m /\ v[m] = x /\ \A j \in 1 .. m - 1 : v[j] = o[j]
  <2>1. o \in Seq(Objects) /\ m \in 1 .. Len(o) /\ x \in Objects
    BY <1>1, <1>2, <1>3, <1>4
  <2>2. /\ [o EXCEPT ![m] = x] \in Seq(Objects) /\ Len([o EXCEPT ![m] = x]) = Len(o)
        /\ \A j \in 1 .. Len(o) : [o EXCEPT ![m] = x][j] = IF j = m THEN x ELSE o[j]
    BY ONLY <2>1, ExceptSeq
  <2>3. /\ v \in Seq(Objects) /\ Len(v) = m
        /\ \A j \in 1 .. m : v[j] = IF j = m THEN x ELSE o[j]
    BY ONLY <1>1, <1>5, <2>2
  <2>4. m \in 1 .. m /\ \A j \in 1 .. m - 1 : j \in 1 .. m /\ j # m
    BY ONLY <1>2
  <2>5. QED BY ONLY <2>3, <2>4
<1>7. ASSUME NEW j \in 2 .. m PROVE b[j - 1] < b[j] /\ c[b[j]] = File!Begin(v[j].name)
  <2>1. v[j].name = o[j].name
    <3>1. j = m \/ j \in 1 .. m - 1
      BY <1>2
    <3>2. QED BY <1>4, <1>6, <3>1
  <2>2. QED BY <1>2, <2>1
<1>8. n[m] = n[m] - 0
  BY <1>3
<1>9. /\ \A j \in 1 .. m - 1 : v[j].i = n[j] - 1 /\ v[j].members = SubSeq(c, b[j] + 1, b[j + 1] - 1)
      /\ v[m].i = n[m] - 0 /\ v[m].members = SubSeq(c, b[m] + 1, k)
  BY ONLY <1>2, <1>4, <1>6, <1>8
<1>10. /\ v \in Seq(Objects) /\ m \in Nat \ {0} /\ m = Len(v) /\ m = Len(n) /\ n = N[k]
       /\ b[1] = 0
       /\ \A j \in 1 .. m : b[j] \in 0 .. k
  BY ONLY <1>1, <1>2, <1>6
<1>11. QED BY ONLY <1>7, <1>9, <1>10 DEF StackIs

-----------------------------------------------------------------------------
(* A configuration as text: reading it.                                     *)

\* The first k items are read.
Behindhand(c, s, e, k, b, o, a, p, t) ==
  LET d == Items(c) IN
  /\ k \in 0 .. Len(c)
  /\ StackIs(o, c, File!Counts(c), k, b, IF a = "next" THEN 1 ELSE 0)
  /\ a \in {"member", "value", "next"}
  /\ a = "member" =>
       /\ d[k + 1].kind # "end" /\ p \in Nat /\ e[k] < p /\ p <= s[k + 1]
       /\ Apart(d, k + 1) => e[k] + 1 < p
  /\ a = "value" => d[k + 1].kind # "end" /\ t = d[k + 1].name /\ p = ValueAt(d[k + 1], s[k + 1])
  /\ a = "next" => k > 0 /\ p \in Nat /\ e[k] < p /\ p <= s[k + 1]

Progress(c, s, e, o, a, p, t) ==
  \/ a = "load" /\ p = 1
  \/ a = "loaded" /\ File!Last(o).members = c
  \/ \E k, b : Behindhand(c, s, e, k, b, o, a, p, t)

\* Reading begins at the first item.
LEMMA LoadGoesOn ==
  ASSUME NEW c, c = config, File!IsTree(c), File!Fits(c), NEW d, d = Items(c), NEW s, NEW e,
         LaidTo(text, d, Len(d), s, e), pos = 1, File!Load
  PROVE  Progress(c, s, e, objs', act', pos', token')
<1>1. /\ File!Begins(1).pos = e[0] + 1 /\ e[0] \in Nat
      /\ e[0] < s[1] /\ s[1] \in Nat /\ ~Apart(d, 1) /\ d[1].kind # "end"
  BY Starts
<1>2. pos' = e[0] + 1 /\ act' = "member" /\ objs' = <<File!Empty(<<>>)>>
  BY <1>1 DEF File!Load
<1>3. PICK N, o, p : N = File!Counts(c) /\ o = objs' /\ p = pos'
  OBVIOUS
<1>4. /\ c \in Seq(File!Item) /\ Len(c) \in Nat /\ N[0] = <<0>>
  BY <1>3, CountsAre
<1> DEFINE b == [j \in {1} |-> 0]
<1>5. b[1] = 0
  OBVIOUS
<1> HIDE DEF b
<1>6. File!Empty(<<>>) \in Objects /\ File!Empty(<<>>).i = 0 /\ File!Empty(<<>>).members = <<>>
  <2>1. <<>> \in Seq(Ink) /\ <<>> \in Seq(File!Item)
    BY EmptySeq
  <2>2. QED BY <2>1 DEF File!Empty, Objects
<1>7. o \in Seq(Objects) /\ Len(o) = 1 /\ o[1] = File!Empty(<<>>)
  <2>1. PICK x : x = File!Empty(<<>>)
    OBVIOUS
  <2>2. x \in Objects /\ o = <<x>>
    BY <1>2, <1>3, <1>6, <2>1
  <2>3. QED BY ONLY <2>1, <2>2
<1>8. Len(N[0]) = 1 /\ N[0][1] = 0
  BY <1>4
<1>9. o[1].members = SubSeq(c, b[1] + 1, 0)
  <2>1. SubSeq(c, 0 + 1, 0) = <<>>
    BY SubSeqEmpty
  <2>2. QED BY <1>5, <1>6, <1>7, <2>1
<1>10. o[1].i = N[0][1] - 0
  BY <1>6, <1>7, <1>8
<1>11. StackIs(o, c, N, 0, b, 0)
  <2>1. /\ Len(o) \in Nat \ {0} /\ Len(o) = Len(N[0]) /\ 1 - 1 = 0 /\ Len(o) = 1
        /\ (\A j \in 2 .. 1 : FALSE) /\ (\A j \in 1 .. 0 : FALSE)
        /\ \A j \in 1 .. 1 : b[j] \in 0 .. 0
    <3>1. \A j \in 1 .. 1 : j = 1
      OBVIOUS
    <3>2. QED BY <1>5, <1>7, <1>8, <3>1
  <2>2. /\ \A j \in 1 .. Len(o) : b[j] \in 0 .. 0
        /\ \A j \in 2 .. Len(o) : b[j - 1] < b[j] /\ c[b[j]] = File!Begin(o[j].name)
        /\ \A j \in 1 .. Len(o) - 1 : o[j].i = N[0][j] - 1 /\ o[j].members = SubSeq(c, b[j] + 1, b[j + 1] - 1)
    BY <2>1
  <2>3. o[Len(o)].i = N[0][Len(o)] - 0 /\ o[Len(o)].members = SubSeq(c, b[Len(o)] + 1, 0)
    BY <1>9, <1>10, <2>1
  <2>4. QED BY <1>5, <1>7, <2>1, <2>2, <2>3 DEF StackIs
<1>12. 0 \in 0 .. Len(c) /\ d[0 + 1].kind # "end" /\ p \in Nat /\ e[0] < p /\ p <= s[0 + 1] /\ ~Apart(d, 0 + 1)
  BY <1>1, <1>2, <1>3, <1>4
<1>13. Behindhand(c, s, e, 0, b, objs', act', pos', token')
  BY <1>2, <1>3, <1>11, <1>12 DEF Behindhand
<1>14. QED BY <1>13 DEF Progress

\* The name of the next item is read.
LEMMA ReadNameGoesOn ==
  ASSUME NEW c, c = config, File!IsTree(c), File!Fits(c), NEW d, d = Items(c), NEW s, NEW e,
         LaidTo(text, d, Len(d), s, e), NEW k, NEW b, Behindhand(c, s, e, k, b, objs, act, pos, token),
         File!ReadName
  PROVE  Progress(c, s, e, objs', act', pos', token')
<1>1. act = "member" /\ k \in 0 .. Len(c) /\ StackIs(objs, c, File!Counts(c), k, b, 0)
  BY DEF File!ReadName, Behindhand
<1>2. /\ d[k + 1].kind # "end" /\ pos \in Nat /\ e[k] < pos /\ pos <= s[k + 1]
      /\ Apart(d, k + 1) => e[k] + 1 < pos
  BY <1>1 DEF Behindhand
<1>3. LET g == File!GetName(File!Gobble(pos)) IN
      /\ g.name = d[k + 1].name /\ g.ok
      /\ File!Gobble(g.pos) = ValueAt(d[k + 1], s[k + 1])
  BY <1>1, <1>2, ReadsName
<1>4. token' = d[k + 1].name /\ pos' = ValueAt(d[k + 1], s[k + 1]) /\ act' = "value" /\ objs' = objs
  BY <1>3 DEF File!ReadName
<1>5. Behindhand(c, s, e, k, b, objs', act', pos', token')
  BY <1>1, <1>2, <1>4 DEF Behindhand
<1>6. QED BY <1>5 DEF Progress

\* A value is read and taken in.
LEMMA ReadValueGoesOn ==
  ASSUME NEW c, c = config, File!IsTree(c), File!Fits(c), NEW d, d = Items(c), NEW s, NEW e,
         LaidTo(text, d, Len(d), s, e), NEW k, NEW b, Behindhand(c, s, e, k, b, objs, act, pos, token),
         File!ReadValue
  PROVE  Progress(c, s, e, objs', act', pos', token')
<1>1. act = "value" /\ k \in 0 .. Len(c) /\ StackIs(objs, c, File!Counts(c), k, b, 0)
  BY DEF File!ReadValue, Behindhand
<1>2. d[k + 1].kind # "end" /\ token = d[k + 1].name /\ pos = ValueAt(d[k + 1], s[k + 1])
  BY <1>1 DEF Behindhand
<1>3. /\ Len(c) \in Nat /\ \A j \in 1 .. Len(c) : d[j] = c[j]
      /\ d[Len(c) + 1] = File!End
      /\ \A j \in 1 .. Len(c) + 1 : d[j] \in File!Item
  BY ItemsAre
<1>4. k \in 0 .. Len(c) - 1 /\ k + 1 \in 1 .. Len(c) /\ d[k + 1] = c[k + 1] /\ d[k + 1] \in File!Item
  <2>1. k # Len(c)
    BY <1>2, <1>3 DEF File!End
  <2>2. k \in 0 .. Len(c) - 1 /\ k + 1 \in 1 .. Len(c) /\ k + 1 \in 1 .. Len(c) + 1
    BY ONLY <1>1, <1>3, <2>1
  <2>3. QED BY <1>3, <2>2
<1>5. d[k + 1].kind = "value"
  <2>1. d[k + 1].kind \in {"value", "object", "end"}
    BY <1>4, ItemShape
  <2>2. ASSUME d[k + 1].kind = "object" PROVE FALSE
    <3>1. File!At(pos) = File!LBrace
      BY <1>2, <1>4, <2>2, Opens
    <3>2. QED BY <3>1 DEF File!ReadValue
  <2>3. QED BY <1>2, <2>1, <2>2
<1>6. File!GetValue(pos) = [data |-> d[k + 1].data, pos |-> Behind(d, s, e, k + 1)]
  BY <1>2, <1>4, <1>5, ReadsValue
<1>7. PICK q, o, N : q = Behind(d, s, e, k + 1) /\ o = objs' /\ N = File!Counts(c)
  OBVIOUS
<1>8. File!Member(token, d[k + 1].data) = <<c[k + 1]>>
  <2>1. c[k + 1] = [kind |-> c[k + 1].kind, name |-> c[k + 1].name, data |-> c[k + 1].data]
    BY <1>4 DEF File!Item
  <2>2. QED BY <1>2, <1>4, <1>5, <2>1 DEF File!Member
<1>9. /\ o = File!Front(objs) \o <<File!AddTo(File!Last(objs), <<c[k + 1]>>)>>
      /\ pos' = q /\ act' = "next"
  BY <1>6, <1>7, <1>8 DEF File!ReadValue, File!Top
<1>10. StackIs(o, c, N, k + 1, b, 1)
  <2>1. c \in Seq(File!Item) /\ CountStep(c[k + 1], N[k], N[k + 1])
    <3>1. c \in Seq(File!Item) /\ \A j \in 1 .. Len(c) : CountStep(c[j], N[j - 1], N[j])
      BY <1>7, CountsAre
    <3>2. (k + 1) - 1 = k
      BY <1>4
    <3>3. QED BY <1>4, <3>1, <3>2
  <2>2. c[k + 1].kind = "value"
    BY <1>4, <1>5
  <2>3. QED BY <1>1, <1>4, <1>7, <1>9, <2>1, <2>2, StackValue
<1>11. k + 1 > 0 /\ k + 1 \in 0 .. Len(c) /\ k + 1 \in 1 .. Len(c)
  BY <1>3, <1>4
<1>12. q \in Nat /\ e[k + 1] < q /\ q <= s[(k + 1) + 1]
  <2>1. Follows(d, s, e, k + 1)
    BY <1>11, Ahead
  <2>2. QED BY <1>5, <1>7, <1>11, <2>1, BehindValue
<1>13. Behindhand(c, s, e, k + 1, b, objs', act', pos', token')
  BY <1>7, <1>9, <1>10, <1>11, <1>12 DEF Behindhand
<1>14. QED BY <1>13 DEF Progress

\* An object is opened.
LEMMA OpenGoesOn ==
  ASSUME NEW c, c = config, File!IsTree(c), File!Fits(c), NEW d, d = Items(c), NEW s, NEW e,
         LaidTo(text, d, Len(d), s, e), NEW k, NEW b, Behindhand(c, s, e, k, b, objs, act, pos, token),
         File!Open
  PROVE  Progress(c, s, e, objs', act', pos', token')
<1>1. act = "value" /\ k \in 0 .. Len(c) /\ StackIs(objs, c, File!Counts(c), k, b, 0)
  BY DEF File!Open, Behindhand
<1>2. d[k + 1].kind # "end" /\ token = d[k + 1].name /\ pos = ValueAt(d[k + 1], s[k + 1])
  BY <1>1 DEF Behindhand
<1>3. /\ Len(c) \in Nat /\ \A j \in 1 .. Len(c) : d[j] = c[j]
      /\ d[Len(c) + 1] = File!End
      /\ \A j \in 1 .. Len(c) + 1 : d[j] \in File!Item
  BY ItemsAre
<1>4. k \in 0 .. Len(c) - 1 /\ k + 1 \in 1 .. Len(c) /\ d[k + 1] = c[k + 1] /\ d[k + 1] \in File!Item
  <2>1. k # Len(c)
    BY <1>2, <1>3 DEF File!End
  <2>2. k \in 0 .. Len(c) - 1 /\ k + 1 \in 1 .. Len(c) /\ k + 1 \in 1 .. Len(c) + 1
    BY ONLY <1>1, <1>3, <2>1
  <2>3. QED BY <1>3, <2>2
<1>5. d[k + 1].kind = "object"
  <2>1. d[k + 1].kind \in {"value", "object", "end"}
    BY <1>4, ItemShape
  <2>2. ASSUME d[k + 1].kind = "value" PROVE FALSE
    <3>1. File!At(pos) # File!LBrace
      BY <1>2, <1>4, <2>2, ReadsValue
    <3>2. QED BY <3>1 DEF File!Open
  <2>3. QED BY <1>2, <2>1, <2>2
<1>6. /\ File!Begins(pos + 1).pos = s[k + 2]
      /\ d[k + 2].kind # "end" /\ e[k + 1] < s[k + 2] /\ ~Apart(d, k + 2) /\ s[k + 2] \in Nat
  BY <1>2, <1>4, <1>5, Opens
<1>7. PICK o, N, p : o = objs' /\ N = File!Counts(c) /\ p = s[k + 2]
  OBVIOUS
<1>8. o = Append(objs, File!Empty(c[k + 1].name)) /\ pos' = p /\ act' = "member"
  BY <1>2, <1>4, <1>6, <1>7 DEF File!Open
<1>9. \E u : StackIs(o, c, N, k + 1, u, 0)
  <2>1. c \in Seq(File!Item) /\ CountStep(c[k + 1], N[k], N[k + 1])
    <3>1. c \in Seq(File!Item) /\ \A j \in 1 .. Len(c) : CountStep(c[j], N[j - 1], N[j])
      BY <1>7, CountsAre
    <3>2. (k + 1) - 1 = k
      BY <1>4
    <3>3. QED BY <1>4, <3>1, <3>2
  <2>2. c[k + 1] = File!Begin(c[k + 1].name)
    <3>1. k + 1 \in DOMAIN c
      BY <1>4, <2>1, LenProperties
    <3>2. QED BY <1>4, <1>5, <3>1 DEF File!IsTree
  <2>3. QED BY <1>1, <1>4, <1>7, <1>8, <2>1, <2>2, StackOpen
<1>10. PICK u : StackIs(o, c, N, k + 1, u, 0)
  BY <1>9
<1>11. k + 1 \in 0 .. Len(c) /\ (k + 1) + 1 = k + 2
  BY <1>3, <1>4
<1>12. Behindhand(c, s, e, k + 1, u, objs', act', pos', token')
  BY <1>6, <1>7, <1>8, <1>10, <1>11 DEF Behindhand
<1>13. QED BY <1>12 DEF Progress

\* The member is counted, and the next one follows.
LEMMA SeparatorGoesOn ==
  ASSUME NEW c, c = config, File!IsTree(c), File!Fits(c), NEW d, d = Items(c), NEW s, NEW e,
         LaidTo(text, d, Len(d), s, e), NEW k, NEW b, Behindhand(c, s, e, k, b, objs, act, pos, token),
         File!Separator
  PROVE  Progress(c, s, e, objs', act', pos', token')
<1>1. act = "next" /\ k \in 0 .. Len(c) /\ StackIs(objs, c, File!Counts(c), k, b, 1)
  BY DEF File!Separator, Behindhand
<1>2. pos \in Nat /\ e[k] < pos /\ pos <= s[k + 1]
  BY <1>1 DEF Behindhand
<1>3. PICK g, q : g = File!Gobble(pos) /\ q = IF File!At(g) = File!Comma THEN g + 1 ELSE g
  OBVIOUS
<1>4. /\ q \in Nat
      /\ d[k + 1].kind = "end" => q = s[k + 1] /\ File!At(q) = File!RBrace /\ e[k + 1] = s[k + 1]
      /\ d[k + 1].kind # "end" =>
           /\ File!At(q) # File!RBrace
           /\ e[k] < q /\ q <= s[k + 1]
           /\ Apart(d, k + 1) => e[k] + 1 < q
  BY <1>1, <1>2, <1>3, Passes
<1>5. File!At(q) # File!RBrace /\ pos' = q /\ act' = "member" /\ objs' = [objs EXCEPT ![Len(objs)].i = @ + 1]
  BY <1>3 DEF File!Separator
<1>6. d[k + 1].kind # "end"
  BY <1>4, <1>5
<1>7. PICK o, N : o = objs' /\ N = File!Counts(c)
  OBVIOUS
<1>8. StackIs(o, c, N, k, b, 0)
  <2>1. N[k] \in Seq(Nat)
    BY <1>1, <1>7, CountsAre
  <2>2. QED BY <1>1, <1>5, <1>7, <2>1, StackCounts
<1>9. Behindhand(c, s, e, k, b, objs', act', pos', token')
  BY <1>1, <1>4, <1>5, <1>6, <1>7, <1>8 DEF Behindhand
<1>10. QED BY <1>9 DEF Progress

\* No object that fits is cut short.
LEMMA NeverTooMany ==
  ASSUME NEW c, c = config, File!IsTree(c), File!Fits(c), NEW s, NEW e,
         NEW k, NEW b, Behindhand(c, s, e, k, b, objs, act, pos, token)
  PROVE  ~File!TooMany
<1> SUFFICES ASSUME File!TooMany PROVE FALSE
  OBVIOUS
<1>1. act = "member" /\ k \in 0 .. Len(c) /\ StackIs(objs, c, File!Counts(c), k, b, 0)
      /\ File!Last(objs).i = MaxMembers
  BY DEF File!TooMany, File!Top, Behindhand
<1>2. Items(c)[k + 1].kind # "end"
  BY <1>1 DEF Behindhand
<1>3. /\ Len(c) \in Nat /\ \A j \in 1 .. Len(c) : Items(c)[j] = c[j]
      /\ Items(c)[Len(c) + 1] = File!End
  BY ItemsAre
<1>4. k < Len(c) /\ c[k + 1].kind # "end"
  <2>1. k # Len(c)
    BY <1>2, <1>3 DEF File!End
  <2>2. k < Len(c) /\ k + 1 \in 1 .. Len(c)
    BY ONLY <1>1, <1>3, <2>1
  <2>3. QED BY <1>2, <1>3, <2>2
<1>5. PICK N, n : N = File!Counts(c) /\ n = N[k]
  OBVIOUS
<1>6. n[Len(n)] < MaxMembers
  BY <1>1, <1>4, <1>5, Roomy
<1>7. objs[Len(objs)].i = n[Len(n)] - 0
  BY <1>1, <1>5 DEF StackIs
<1>8. n[Len(n)] \in Nat
  <2>1. n \in Seq(Nat) /\ Len(n) \in Nat \ {0}
    BY <1>1, <1>5, CountsAre
  <2>2. QED BY <2>1, ElementOfSeq
<1>9. objs[Len(objs)].i = MaxMembers
  BY <1>1 DEF File!Last
<1>10. MaxMembers \in Nat
  BY MCLoadAssumption DEF File!JsonAssumption
<1>11. QED BY ONLY <1>6, <1>7, <1>8, <1>9, <1>10

\* An object is closed; with the last one all has been read.
LEMMA CloseGoesOn ==
  ASSUME NEW c, c = config, File!IsTree(c), File!Fits(c), NEW d, d = Items(c), NEW s, NEW e,
         LaidTo(text, d, Len(d), s, e), NEW k, NEW b, Behindhand(c, s, e, k, b, objs, act, pos, token),
         File!Close
  PROVE  Progress(c, s, e, objs', act', pos', token')
<1>1. act = "next" /\ k \in 0 .. Len(c) /\ StackIs(objs, c, File!Counts(c), k, b, 1)
  BY DEF File!Close, Behindhand
<1>2. pos \in Nat /\ e[k] < pos /\ pos <= s[k + 1]
  BY <1>1 DEF Behindhand
<1>3. PICK g, q : g = File!Gobble(pos) /\ q = IF File!At(g) = File!Comma THEN g + 1 ELSE g
  OBVIOUS
<1>4. /\ q \in Nat
      /\ d[k + 1].kind = "end" => q = s[k + 1] /\ File!At(q) = File!RBrace /\ e[k + 1] = s[k + 1]
      /\ d[k + 1].kind # "end" => File!At(q) # File!RBrace
  BY <1>1, <1>2, <1>3, Passes
<1>5. File!At(q) = File!RBrace /\ pos' = (IF File!At(q + 1) = File!Comma THEN q + 2 ELSE q + 1)
  BY <1>3 DEF File!Close
<1>6. d[k + 1].kind = "end" /\ q = s[k + 1] /\ e[k + 1] = s[k + 1]
  BY <1>4, <1>5
<1>7. PICK N, n, m : N = File!Counts(c) /\ n = N[k] /\ m = Len(objs)
  OBVIOUS
<1>8. /\ c \in Seq(File!Item) /\ Len(c) \in Nat /\ \A j \in 1 .. Len(c) : d[j] = c[j]
  BY ItemsAre, CountsAre
<1>9. m = Len(n) /\ m \in Nat \ {0}
  BY <1>1, <1>7 DEF StackIs
<1>10. /\ k = Len(c) => m = 1
       /\ k # Len(c) => m # 1 /\ c[k + 1] = File!End /\ k + 1 \in 1 .. Len(c) /\ k \in 0 .. Len(c) - 1
  <2>1. ASSUME k = Len(c) PROVE m = 1
    BY <1>7, <1>9, <2>1 DEF File!IsTree
  <2>2. ASSUME k # Len(c)
        PROVE  m # 1 /\ c[k + 1] = File!End /\ k + 1 \in 1 .. Len(c) /\ k \in 0 .. Len(c) - 1
    <3>1. k + 1 \in 1 .. Len(c) /\ (k + 1) - 1 = k /\ k \in 0 .. Len(c) - 1
      BY ONLY <1>1, <1>8, <2>2
    <3>2. c[k + 1].kind = "end" /\ k + 1 \in DOMAIN c
      BY <1>6, <1>8, <3>1, LenProperties
    <3>3. c[k + 1] = File!End /\ Len(N[k]) > 1
      <4>1. PICK j : j = k + 1
        OBVIOUS
      <4>2. c[j] = File!End /\ Len(File!Counts(c)[j - 1]) > 1
        BY <3>2, <4>1 DEF File!IsTree
      <4>3. j - 1 = k
        BY ONLY <3>1, <4>1
      <4>4. QED BY <1>7, <4>1, <4>2, <4>3
    <3>4. m > 1 /\ m \in Nat
      BY <1>7, <1>9, <3>3
    <3>5. m # 1
      BY ONLY <3>4
    <3>6. QED BY <3>1, <3>3, <3>5
  <2>3. QED BY <2>1, <2>2
<1>11. CASE k = Len(c)
  <2>1. act' = "loaded" /\ objs' = objs
    BY <1>7, <1>10, <1>11 DEF File!Close, File!Return
  <2>2. objs[1].members = SubSeq(c, 1, Len(c))
    <3>1. b[1] = 0 /\ objs[m].members = SubSeq(c, b[m] + 1, k)
      BY <1>1, <1>7 DEF StackIs
    <3>2. m = 1 /\ b[m] + 1 = 1
      BY <1>10, <1>11, <3>1
    <3>3. QED BY <1>11, <3>1, <3>2
  <2>3. SubSeq(c, 1, Len(c)) = c
    BY <1>8, SubSeqFull
  <2>4. File!Last(objs).members = c
    BY <1>7, <1>10, <1>11, <2>2, <2>3 DEF File!Last
  <2>5. QED BY <2>1, <2>4 DEF Progress
<1>12. CASE k # Len(c)
  <2>1. PICK o, f, top : o = objs' /\ f = File!Front(objs) /\ top = objs[Len(objs)]
    OBVIOUS
  <2>2. act' = "next" /\ o = File!Front(f) \o <<File!AddTo(File!Last(f), File!Node(top.name, top.members))>>
    BY <1>7, <1>10, <1>12, <2>1 DEF File!Close, File!Return, File!Top, File!Last
  <2>3. StackIs(o, c, N, k + 1, b, 1)
    <3>1. CountStep(c[k + 1], N[k], N[k + 1])
      <4>1. \A j \in 1 .. Len(c) : CountStep(c[j], N[j - 1], N[j])
        BY <1>7, CountsAre
      <4>2. (k + 1) - 1 = k
        BY <1>1, <1>8
      <4>3. QED BY <1>10, <1>12, <4>1, <4>2
    <3>2. StackIs(objs, c, N, k, b, 1)
      BY <1>1, <1>7
    <3>3. QED BY <1>8, <1>10, <1>12, <2>1, <2>2, <3>1, <3>2, StackClose
  <2>4. pos' \in Nat /\ e[k + 1] < pos' /\ pos' <= s[(k + 1) + 1]
    <3>1. PICK r : r = IF File!At(s[k + 1] + 1) = File!Comma THEN s[k + 1] + 2 ELSE s[k + 1] + 1
      OBVIOUS
    <3>2. r = pos'
      BY <1>5, <1>6, <3>1
    <3>3. r \in Nat /\ e[k + 1] < r /\ r <= s[(k + 1) + 1]
      BY <1>6, <1>10, <1>12, <3>1, Closes
    <3>4. QED BY <3>2, <3>3
  <2>5. k + 1 > 0 /\ k + 1 \in 0 .. Len(c)
    BY <1>8, <1>10, <1>12
  <2>6. Behindhand(c, s, e, k + 1, b, objs', act', pos', token')
    BY <1>7, <2>1, <2>2, <2>3, <2>4, <2>5 DEF Behindhand
  <2>7. QED BY <2>6 DEF Progress
<1>13. QED BY <1>11, <1>12

-----------------------------------------------------------------------------
(* A configuration as text: writing it.                                     *)

\* C is the text up to the end of the k-th item.
LaidAs(C, d, k, s, e) ==
  /\ LaidTo(C, d, k, s, e) /\ e[k] = Len(C)
  /\ \A j \in 0 .. k : e[j] \in Nat /\ e[j] <= e[k]
Laid(C, d, k) == \E s, e : LaidAs(C, d, k, s, e)

\* What is written behind does not matter.
LEMMA Longer ==
  ASSUME NEW d, NEW k \in Nat, NEW s, NEW e, NEW C, LaidAs(C, d, k, s, e),
         NEW T \in Seq(Ink), Len(C) <= Len(T), \A a \in 1 .. Len(C) : T[a] = C[a],
         \A j \in 1 .. k : d[j] \in File!Item
  PROVE  LaidTo(T, d, k, s, e)
<1>1. PICK m : m = Len(C)
  OBVIOUS
<1>2. /\ e[k] = m /\ m \in Nat /\ C \in Seq(Ink) /\ m <= Len(T) /\ Len(T) \in Nat
      /\ \A j \in 0 .. k : e[j] \in Nat /\ e[j] <= m
      /\ \A a \in 1 .. m : T[a] = C[a]
  <2>1. k \in 0 .. k
    OBVIOUS
  <2>2. QED BY <1>1, <2>1, LenProperties DEF LaidAs, LaidTo
<1>3. e[0] \in Nat \ {0} /\ e[0] <= m /\ C[e[0]] = File!LBrace /\ \A a \in 1 .. e[0] - 1 : C[a] \in File!White
  BY <1>1 DEF LaidAs, LaidTo
<1>4. e[0] <= Len(T) /\ T[e[0]] = File!LBrace
  BY <1>2, <1>3
<1>5. \A a \in 1 .. e[0] - 1 : T[a] \in File!White
  <2>1. \A a \in 1 .. e[0] - 1 : a \in 1 .. m
    BY <1>2, <1>3
  <2>2. QED BY <1>2, <1>3, <2>1
<1>6. ASSUME NEW j \in 1 .. k PROVE Stands(T, d, j, s, e)
  <2>1. Stands(C, d, j, s, e)
    BY DEF LaidAs, LaidTo
  <2>2. PICK p, b, f, x, n : p = e[j - 1] /\ b = s[j] /\ f = e[j] /\ x = Core(d[j]) /\ n = Len(x)
    OBVIOUS
  <2>3. /\ b \in Nat /\ f \in Nat /\ p < b /\ b <= f /\ f <= m /\ f = b + n - 1
        /\ \A a \in 1 .. n : C[b + a - 1] = x[a]
        /\ Apart(d, j) => p + 1 < b /\ C[p + 1] = File!Comma
        /\ \A a \in p + 1 .. b - 1 : (Apart(d, j) /\ a = p + 1) \/ C[a] \in File!White
    BY <1>1, <2>1, <2>2 DEF Stands
  <2>4. p \in Nat /\ n \in Nat
    <3>1. j - 1 \in 0 .. k
      OBVIOUS
    <3>2. n \in Nat
      BY <2>2, CoreSize
    <3>3. QED BY <1>2, <2>2, <3>1, <3>2
  <2>5. \A a \in 1 .. n : T[b + a - 1] = x[a]
    <3>1. \A a \in 1 .. n : b + a - 1 \in 1 .. m
      <4>1. b # 0
        BY <2>3, <2>4
      <4>2. QED BY <1>2, <2>3, <2>4, <4>1
    <3>2. QED BY <1>2, <2>3, <3>1
  <2>6. Apart(d, j) => p + 1 < b /\ T[p + 1] = File!Comma
    <3>1. p + 1 < b => p + 1 \in 1 .. m
      BY <1>2, <2>3, <2>4
    <3>2. QED BY <1>2, <2>3, <3>1
  <2>7. \A a \in p + 1 .. b - 1 : (Apart(d, j) /\ a = p + 1) \/ T[a] \in File!White
    <3>1. \A a \in p + 1 .. b - 1 : a \in 1 .. m
      BY <1>2, <2>3, <2>4
    <3>2. QED BY <1>2, <2>3, <3>1
  <2>8. f <= Len(T)
    BY <1>2, <2>3
  <2>9. QED BY <2>2, <2>3, <2>5, <2>6, <2>7, <2>8 DEF Stands
<1>7. QED BY <1>3, <1>4, <1>5, <1>6 DEF LaidTo

\* What may stand before the k-th item.
GapIs(w, d, k) ==
  /\ w \in Seq(Ink)
  /\ Apart(d, k) => Len(w) > 0 /\ w[1] = File!Comma
  /\ \A a \in 1 .. Len(w) : (Apart(d, k) /\ a = 1) \/ w[a] \in File!White

\* One more item.
LEMMA Grown ==
  ASSUME NEW d, NEW k \in Nat, NEW C, Laid(C, d, k), NEW w, GapIs(w, d, k + 1),
         \A j \in 1 .. k + 1 : d[j] \in File!Item
  PROVE  Laid((C \o w) \o Core(d[k + 1]), d, k + 1)
<1>1. PICK s, e : LaidAs(C, d, k, s, e)
  BY DEF Laid
<1>2. PICK m, n, x, l, T : m = Len(C) /\ n = Len(w) /\ x = Core(d[k + 1]) /\ l = Len(x) /\ T = (C \o w) \o x
  OBVIOUS
<1>3. /\ C \in Seq(Ink) /\ w \in Seq(Ink) /\ x \in Seq(Ink) /\ m \in Nat /\ n \in Nat /\ l \in Nat \ {0}
      /\ d[k + 1] \in File!Item /\ \A j \in 1 .. k : d[j] \in File!Item
  <2>1. C \in Seq(Ink) /\ w \in Seq(Ink)
    BY <1>1 DEF LaidAs, LaidTo, GapIs
  <2>2. k + 1 \in 1 .. k + 1 /\ \A j \in 1 .. k : j \in 1 .. k + 1
    OBVIOUS
  <2>3. QED BY <1>2, <2>1, <2>2, LenProperties, CoreSize
<1>4. /\ T \in Seq(Ink) /\ Len(T) = m + n + l
      /\ \A a \in 1 .. m : T[a] = C[a]
      /\ \A a \in 1 .. n : T[m + a] = w[a]
      /\ \A a \in 1 .. l : T[m + n + a] = x[a]
  <2>1. PICK A : A = C \o w
    OBVIOUS
  <2>2. /\ C \o w \in Seq(Ink)
        /\ Len(C \o w) = Len(C) + Len(w)
        /\ \A a \in 1 .. Len(C) : (C \o w)[a] = C[a]
        /\ \A a \in 1 .. Len(w) : (C \o w)[Len(C) + a] = w[a]
    <3>1. C \in Seq(Ink) /\ w \in Seq(Ink)
      BY <1>3
    <3>2. QED BY ONLY <3>1, ConcatIs
  <2>3. /\ A \in Seq(Ink) /\ Len(A) = m + n
        /\ \A a \in 1 .. m : A[a] = C[a]
        /\ \A a \in 1 .. n : A[m + a] = w[a]
    BY ONLY <1>2, <2>1, <2>2
  <2>4. /\ A \o x \in Seq(Ink)
        /\ Len(A \o x) = Len(A) + Len(x)
        /\ \A a \in 1 .. Len(A) : (A \o x)[a] = A[a]
        /\ \A a \in 1 .. Len(x) : (A \o x)[Len(A) + a] = x[a]
    <3>1. A \in Seq(Ink) /\ x \in Seq(Ink)
      BY <1>3, <2>3
    <3>2. QED BY ONLY <3>1, ConcatIs
  <2>5. /\ T \in Seq(Ink) /\ Len(T) = (m + n) + l
        /\ \A a \in 1 .. m + n : T[a] = A[a]
        /\ \A a \in 1 .. l : T[(m + n) + a] = x[a]
    BY ONLY <1>2, <2>1, <2>3, <2>4
  <2>6. /\ \A a \in 1 .. m : a \in 1 .. m + n
        /\ \A a \in 1 .. n : m + a \in 1 .. m + n
    BY ONLY <1>3
  <2>7. QED BY ONLY <2>3, <2>5, <2>6
<1>5. LaidTo(T, d, k, s, e)
  <2>1. Len(C) <= Len(T) /\ \A a \in 1 .. Len(C) : T[a] = C[a]
    BY <1>2, <1>3, <1>4
  <2>2. QED BY <1>1, <1>3, <1>4, <2>1, Longer
<1> DEFINE u == [j \in 0 .. k + 1 |-> IF j = k + 1 THEN m + n + 1 ELSE s[j]]
           v == [j \in 0 .. k + 1 |-> IF j = k + 1 THEN m + n + l ELSE e[j]]
<1>6. /\ u[k + 1] = m + n + 1 /\ v[k + 1] = m + n + l
      /\ \A j \in 0 .. k : u[j] = s[j] /\ v[j] = e[j]
  OBVIOUS
<1> HIDE DEF u, v
<1>7. ASSUME NEW j \in 1 .. k PROVE Stands(T, d, j, u, v)
  <2>1. Stands(T, d, j, s, e)
    BY <1>5 DEF LaidTo
  <2>2. j \in 0 .. k /\ j - 1 \in 0 .. k
    OBVIOUS
  <2>3. u[j] = s[j] /\ v[j] = e[j] /\ v[j - 1] = e[j - 1]
    BY <1>6, <2>2
  <2>4. QED BY <2>1, <2>3 DEF Stands
<1>8. v[k] = m /\ (k + 1) - 1 = k
  <2>1. k \in 0 .. k /\ (k + 1) - 1 = k
    OBVIOUS
  <2>2. QED BY <1>1, <1>2, <1>6, <2>1 DEF LaidAs
<1>9. Stands(T, d, k + 1, u, v)
  <2>1. PICK b, f : b = m + n + 1 /\ f = m + n + l
    OBVIOUS
  <2>2. /\ b \in Nat /\ f \in Nat /\ m < b /\ b <= f /\ f <= Len(T) /\ f = b + l - 1
        /\ \A a \in 1 .. l : b + a - 1 = m + n + a
        /\ n > 0 => m + 1 < b
        /\ \A a \in m + 1 .. b - 1 : a - m \in 1 .. n /\ m + (a - m) = a
    <3>1. m \in Nat /\ n \in Nat /\ l \in Nat \ {0} /\ Len(T) = m + n + l
      BY <1>3, <1>4
    <3>2. QED BY ONLY <2>1, <3>1
  <2>3. \A a \in 1 .. l : T[b + a - 1] = x[a]
    BY <1>4, <2>2
  <2>4. Apart(d, k + 1) => m + 1 < b /\ T[m + 1] = File!Comma
    <3>1. Apart(d, k + 1) => n > 0 /\ w[1] = File!Comma
      BY <1>2 DEF GapIs
    <3>2. n > 0 => 1 \in 1 .. n
      BY <1>3
    <3>3. QED BY <1>4, <2>2, <3>1, <3>2
  <2>5. ASSUME NEW a \in m + 1 .. b - 1
        PROVE  (Apart(d, k + 1) /\ a = m + 1) \/ T[a] \in File!White
    <3>1. (Apart(d, k + 1) /\ a - m = 1) \/ w[a - m] \in File!White
      BY <1>2, <2>2 DEF GapIs
    <3>2. T[a] = w[a - m]
      BY <1>4, <2>2
    <3>3. a - m = 1 => a = m + 1
      BY <1>3
    <3>4. QED BY <3>1, <3>2, <3>3
  <2>6. PICK j : j = k + 1
    OBVIOUS
  <2>7. u[j] = b /\ v[j] = f /\ v[j - 1] = m /\ Core(d[j]) = x
    BY <1>2, <1>6, <1>8, <2>1, <2>6
  <2>8. Apart(d, j) <=> Apart(d, k + 1)
    BY <2>6
  <2>9. Stands(T, d, j, u, v)
    BY <1>2, <2>2, <2>3, <2>4, <2>5, <2>7, <2>8 DEF Stands
  <2>10. QED BY <2>6, <2>9
<1>10. \A j \in 0 .. k + 1 : v[j] \in Nat /\ v[j] <= v[k + 1]
  <2>1. \A j \in 0 .. k : e[j] \in Nat /\ e[j] <= m
    BY <1>1, <1>2 DEF LaidAs
  <2>2. \A j \in 0 .. k + 1 : j \in 0 .. k \/ j = k + 1
    OBVIOUS
  <2>3. m + n + l \in Nat /\ m <= m + n + l
    BY <1>3
  <2>4. ASSUME NEW j \in 0 .. k PROVE v[j] \in Nat /\ v[j] <= v[k + 1]
    <3>1. v[j] = e[j] /\ v[k + 1] = m + n + l /\ e[j] \in Nat /\ e[j] <= m /\ m \in Nat
      BY <1>3, <1>6, <2>1
    <3>2. QED BY ONLY <2>3, <3>1
  <2>5. v[k + 1] \in Nat /\ v[k + 1] <= v[k + 1]
    BY <1>6, <2>3
  <2>6. QED BY <2>2, <2>4, <2>5
<1>11. LaidTo(T, d, k + 1, u, v)
  <2>1. v[0] = e[0] /\ \A j \in 1 .. k + 1 : j \in 1 .. k \/ j = k + 1
    BY <1>6
  <2>2. QED BY <1>5, <1>7, <1>9, <2>1 DEF LaidTo
<1>12. v[k + 1] = Len(T)
  BY <1>4, <1>6
<1>13. LaidAs(T, d, k + 1, u, v)
  BY <1>10, <1>11, <1>12 DEF LaidAs
<1>14. QED BY <1>2, <1>13 DEF Laid

\* One sequence behind the other is the one that has their elements.
LEMMA ConcatEqual ==
  ASSUME NEW S, NEW s \in Seq(S), NEW t \in Seq(S), NEW v \in Seq(S), Len(v) = Len(s) + Len(t),
         \A a \in 1 .. Len(s) : v[a] = s[a], \A a \in 1 .. Len(t) : v[Len(s) + a] = t[a]
  PROVE  s \o t = v
<1>0. /\ Len(v) = Len(s) + Len(t)
      /\ \A a \in 1 .. Len(s) : v[a] = s[a]
      /\ \A a \in 1 .. Len(t) : v[Len(s) + a] = t[a]
  OBVIOUS
<1>1. PICK w, m, n : w = s \o t /\ m = Len(s) /\ n = Len(t)
  OBVIOUS
<1>2. /\ w \in Seq(S) /\ Len(w) = m + n /\ m \in Nat /\ n \in Nat
      /\ \A a \in 1 .. m : w[a] = s[a]
      /\ \A a \in 1 .. n : w[m + a] = t[a]
  <2>1. /\ s \o t \in Seq(S) /\ Len(s) \in Nat /\ Len(t) \in Nat
        /\ Len(s \o t) = Len(s) + Len(t)
        /\ \A a \in 1 .. Len(s) : (s \o t)[a] = s[a]
        /\ \A a \in 1 .. Len(t) : (s \o t)[Len(s) + a] = t[a]
    BY ONLY s \in Seq(S), t \in Seq(S), ConcatIs
  <2>2. QED BY ONLY <1>1, <2>1
<1>3. ASSUME NEW a \in 1 .. m + n PROVE w[a] = v[a]
  <2>1. CASE a <= m
    <3>1. a \in 1 .. m
      BY ONLY <1>2, <2>1, a \in 1 .. m + n
    <3>2. QED BY ONLY <1>0, <1>1, <1>2, <3>1
  <2>2. CASE ~(a <= m)
    <3>1. a - m \in 1 .. n /\ m + (a - m) = a
      BY ONLY <1>2, <2>2, a \in 1 .. m + n
    <3>2. PICK z : z = a - m
      OBVIOUS
    <3>3. v[m + z] = t[z] /\ w[m + z] = t[z]
      BY ONLY <1>0, <1>1, <1>2, <3>1, <3>2
    <3>4. QED BY ONLY <3>1, <3>2, <3>3
  <2>3. QED BY <2>1, <2>2
<1>4. Len(w) = Len(v) /\ \A a \in 1 .. Len(w) : w[a] = v[a]
  BY ONLY <1>0, <1>1, <1>2, <1>3
<1>5. w = v
  BY ONLY <1>2, <1>4, v \in Seq(S), SeqEqual
<1>6. QED BY <1>1, <1>5

\* Pieces of two and three symbols.
LEMMA GlueTwo ==
  ASSUME NEW S, NEW h \in S, NEW i \in S
  PROVE  <<h>> \o <<i>> = <<h, i>>
<1>1. PICK p, q, pq : p = <<h>> /\ q = <<i>> /\ pq = <<h, i>>
  OBVIOUS
<1>2. /\ p \in Seq(S) /\ q \in Seq(S) /\ pq \in Seq(S)
      /\ Len(p) = 1 /\ Len(q) = 1 /\ Len(pq) = 2
      /\ p[1] = h /\ q[1] = i /\ pq[1] = h /\ pq[2] = i
  BY <1>1
<1>3. (\A a \in 1 .. 1 : a = 1) /\ 1 + 1 = 2
  OBVIOUS
<1>4. /\ p \in Seq(S) /\ q \in Seq(S) /\ pq \in Seq(S) /\ Len(pq) = Len(p) + Len(q)
      /\ \A a \in 1 .. Len(p) : pq[a] = p[a]
      /\ \A a \in 1 .. Len(q) : pq[Len(p) + a] = q[a]
  BY ONLY <1>2, <1>3
<1>5. p \o q = pq
  BY ONLY <1>4, ConcatEqual
<1>6. QED BY <1>1, <1>5

\* Pieces of up to three symbols.
LEMMA Glue ==
  ASSUME NEW S, NEW h \in S, NEW i \in S, NEW j \in S
  PROVE  /\ <<h>> \in Seq(S) /\ <<h, i>> \in Seq(S) /\ <<h, i, j>> \in Seq(S) /\ <<>> \in Seq(S)
         /\ Len(<<h>>) = 1 /\ Len(<<h, i>>) = 2 /\ Len(<<h, i, j>>) = 3 /\ Len(<<>>) = 0
         /\ <<h>> \o <<i>> = <<h, i>> /\ <<h>> \o <<i, j>> = <<h, i, j>> /\ <<h, i>> \o <<j>> = <<h, i, j>>
<1>1. /\ <<h>> \in Seq(S) /\ <<h, i>> \in Seq(S) /\ <<h, i, j>> \in Seq(S) /\ <<>> \in Seq(S)
      /\ Len(<<h>>) = 1 /\ Len(<<h, i>>) = 2 /\ Len(<<h, i, j>>) = 3 /\ Len(<<>>) = 0
  BY EmptySeq
<1>3. PICK p, q, pq, qr, pqr, l : /\ p = <<h>> /\ q = <<i>> /\ pq = <<h, i>>
                                  /\ qr = <<i, j>> /\ pqr = <<h, i, j>> /\ l = <<j>>
  OBVIOUS
<1>4. /\ p \in Seq(S) /\ q \in Seq(S) /\ pq \in Seq(S) /\ qr \in Seq(S) /\ pqr \in Seq(S) /\ l \in Seq(S)
      /\ Len(p) = 1 /\ Len(q) = 1 /\ Len(pq) = 2 /\ Len(qr) = 2 /\ Len(pqr) = 3 /\ Len(l) = 1
      /\ p[1] = h /\ q[1] = i /\ pq[1] = h /\ pq[2] = i /\ qr[1] = i /\ qr[2] = j
      /\ pqr[1] = h /\ pqr[2] = i /\ pqr[3] = j /\ l[1] = j
  BY <1>3
<1>5. /\ \A a \in 1 .. 1 : a = 1
      /\ \A a \in 1 .. 2 : a = 1 \/ a = 2
      /\ 1 + 1 = 2 /\ 1 + 2 = 3 /\ 2 + 1 = 3
  OBVIOUS
<1>6. p \o q = pq
  <2>1. /\ p \in Seq(S) /\ q \in Seq(S) /\ pq \in Seq(S) /\ Len(pq) = Len(p) + Len(q)
        /\ \A a \in 1 .. Len(p) : pq[a] = p[a]
        /\ \A a \in 1 .. Len(q) : pq[Len(p) + a] = q[a]
    BY ONLY <1>4, <1>5
  <2>2. QED BY ONLY <2>1, ConcatEqual
<1>7. p \o qr = pqr
  <2>1. /\ p \in Seq(S) /\ qr \in Seq(S) /\ pqr \in Seq(S) /\ Len(pqr) = Len(p) + Len(qr)
        /\ \A a \in 1 .. Len(p) : pqr[a] = p[a]
        /\ \A a \in 1 .. Len(qr) : pqr[Len(p) + a] = qr[a]
    BY ONLY <1>4, <1>5
  <2>2. QED BY ONLY <2>1, ConcatEqual
<1>8. pq \o l = pqr
  <2>1. /\ pq \in Seq(S) /\ l \in Seq(S) /\ pqr \in Seq(S) /\ Len(pqr) = Len(pq) + Len(l)
        /\ \A a \in 1 .. Len(pq) : pqr[a] = pq[a]
        /\ \A a \in 1 .. Len(l) : pqr[Len(pq) + a] = l[a]
    BY ONLY <1>4, <1>5
  <2>2. QED BY ONLY <2>1, ConcatEqual
<1>9. QED BY <1>1, <1>3, <1>6, <1>7, <1>8

\* Without the last symbol.
LEMMA FrontOf ==
  ASSUME NEW S, NEW x \in Seq(S), NEW h \in S, NEW v, v = x \o <<h>>
  PROVE  File!Front(v) = x /\ Len(v) = Len(x) + 1 /\ v \in Seq(S)
<1>1. <<h>> \in Seq(S) /\ Len(<<h>>) = 1
  OBVIOUS
<1>2. /\ x \o <<h>> \in Seq(S) /\ Len(x) \in Nat
      /\ Len(x \o <<h>>) = Len(x) + Len(<<h>>)
      /\ \A a \in 1 .. Len(x) : (x \o <<h>>)[a] = x[a]
  BY ONLY <1>1, x \in Seq(S), ConcatIs
<1>3. v \in Seq(S) /\ Len(v) = Len(x) + 1 /\ Len(x) \in Nat /\ \A a \in 1 .. Len(x) : v[a] = x[a]
  BY <1>1, <1>2
<1>4. SubSeq(v, 1, 1 + Len(x) - 1) = x
  <2>1. \A a \in 1 .. 1 + Len(x) - 1 : v[a] = x[a - 1 + 1]
    BY <1>3
  <2>2. QED BY <2>1, SubSeqIs
<1>5. 1 + Len(x) - 1 = Len(v) - 1
  BY <1>3
<1>6. QED BY <1>3, <1>4, <1>5 DEF File!Front

Regrouped(C, u, t, x, r) == ((C \o u) \o t) \o (x \o r) = ((C \o (u \o t)) \o x) \o r

\* Parentheses may be moved.
LEMMA Regroup ==
  ASSUME NEW S, NEW C \in Seq(S), NEW u \in Seq(S), NEW t \in Seq(S), NEW x \in Seq(S), NEW r \in Seq(S)
  PROVE  Regrouped(C, u, t, x, r)
<1>1. PICK w : w = u \o t
  OBVIOUS
<1>2. (C \o u) \o t = C \o w
  <2>1. C \in Seq(S) /\ u \in Seq(S) /\ t \in Seq(S)
    OBVIOUS
  <2>2. Associates(C, u, t)
    BY ONLY <2>1, ConcatAssociates
  <2>3. QED BY ONLY <1>1, <2>2 DEF Associates
<1>3. w \in Seq(S)
  BY <1>1, ConcatProperties
<1>4. PICK A : A = C \o w
  OBVIOUS
<1>5. A \in Seq(S)
  <2>1. C \o w \in Seq(S)
    BY <1>3, ConcatProperties
  <2>2. QED BY <1>4, <2>1
<1>6. A \o (x \o r) = (A \o x) \o r
  <2>1. A \in Seq(S) /\ x \in Seq(S) /\ r \in Seq(S)
    BY <1>5
  <2>2. (A \o x) \o r = A \o (x \o r)
    <3>1. Associates(A, x, r)
      BY ONLY <2>1, ConcatAssociates
    <3>2. QED BY ONLY <3>1 DEF Associates
  <2>3. QED BY <2>2
<1>7. QED BY <1>1, <1>2, <1>4, <1>6 DEF Regrouped

\* Tabs are white space.
LEMMA TabsAre ==
  ASSUME NEW n \in Nat, NEW compact, NEW t, t = File!Tabs(n, compact)
  PROVE  t \in Seq(Ink) /\ \A a \in 1 .. Len(t) : t[a] \in File!White
<1>1. File!Tab \in Ink /\ File!Tab \in File!White
  BY InInk, Characters
<1>2. CASE compact
  <2>1. t = <<>>
    BY <1>2 DEF File!Tabs
  <2>2. QED BY <2>1, EmptySeq
<1>3. CASE ~compact
  <2>1. t = [k \in 1 .. n |-> File!Tab]
    BY <1>3 DEF File!Tabs
  <2>2. [k \in 1 .. n |-> File!Tab] \in Seq(Ink)
    BY <1>1, IsASeq
  <2>3. DOMAIN t = 1 .. n /\ \A a \in 1 .. n : t[a] = File!Tab
    BY <2>1
  <2>4. DOMAIN t = 1 .. Len(t) /\ t \in Seq(Ink)
    BY <2>1, <2>2, LenProperties
  <2>5. QED BY <1>1, <2>3, <2>4
<1>4. QED BY <1>2, <1>3

\* What is written behind the k-th item at once.
Hanging(u, d, k, window) ==
  CASE window -> u = <<>>
    [] ~window /\ k > 0 /\ d[k].kind # "object" -> u \in {<<File!Comma>>, <<File!Comma, File!NewLine>>}
    [] ~window /\ ~(k > 0 /\ d[k].kind # "object") -> u \in {<<>>, <<File!NewLine>>}

Attained(B, d, k, window) == \E C, u : Laid(C, d, k) /\ Hanging(u, d, k, window) /\ B = C \o u

WentOn(T, d, k, r) == \E D : Laid(D, d, k) /\ T = D \o r

\* What is put behind the text of k items, with what may stand before the next, is one item more.
LEMMA StepOn ==
  ASSUME NEW d, NEW k \in Nat, NEW C, Laid(C, d, k), \A j \in 1 .. k + 1 : d[j] \in File!Item,
         NEW u \in Seq(Ink), NEW t \in Seq(Ink), NEW r \in Seq(Ink), GapIs(u \o t, d, k + 1),
         NEW T, T = ((C \o u) \o t) \o (Core(d[k + 1]) \o r)
  PROVE  WentOn(T, d, k + 1, r)
<1>1. PICK x, w : x = Core(d[k + 1]) /\ w = u \o t
  OBVIOUS
<1>2. C \in Seq(Ink) /\ x \in Seq(Ink)
  <2>1. d[k + 1] \in File!Item
    OBVIOUS
  <2>2. QED BY <1>1, <2>1, CoreSize DEF Laid, LaidAs, LaidTo
<1>3. T = ((C \o w) \o x) \o r
  <2>1. C \in Seq(Ink) /\ u \in Seq(Ink) /\ t \in Seq(Ink) /\ x \in Seq(Ink) /\ r \in Seq(Ink)
    BY <1>2
  <2>2. ((C \o u) \o t) \o (x \o r) = ((C \o (u \o t)) \o x) \o r
    <3>1. Regrouped(C, u, t, x, r)
      BY ONLY <2>1, Regroup
    <3>2. QED BY ONLY <3>1 DEF Regrouped
  <2>3. QED BY <1>1, <2>2
<1>4. Laid((C \o w) \o x, d, k + 1)
  BY <1>1, Grown
<1>5. QED BY <1>3, <1>4 DEF WentOn

\* White space may stand behind what may stand there.
LEMMA GapGrows ==
  ASSUME NEW d, NEW k, NEW u, GapIs(u, d, k), NEW t \in Seq(Ink), \A a \in 1 .. Len(t) : t[a] \in File!White
  PROVE  GapIs(u \o t, d, k)
<1>1. PICK w, m, n : w = u \o t /\ m = Len(u) /\ n = Len(t)
  OBVIOUS
<1>2. u \in Seq(Ink)
  BY DEF GapIs
<1>3. /\ w \in Seq(Ink) /\ Len(w) = m + n /\ m \in Nat /\ n \in Nat
      /\ \A a \in 1 .. m : w[a] = u[a]
      /\ \A a \in 1 .. n : w[m + a] = t[a]
  <2>1. /\ u \o t \in Seq(Ink) /\ Len(u) \in Nat /\ Len(t) \in Nat
        /\ Len(u \o t) = Len(u) + Len(t)
        /\ \A a \in 1 .. Len(u) : (u \o t)[a] = u[a]
        /\ \A a \in 1 .. Len(t) : (u \o t)[Len(u) + a] = t[a]
    BY ONLY <1>2, t \in Seq(Ink), ConcatIs
  <2>2. QED BY ONLY <1>1, <2>1
<1>4. /\ Apart(d, k) => m > 0 /\ u[1] = File!Comma
      /\ \A a \in 1 .. m : (Apart(d, k) /\ a = 1) \/ u[a] \in File!White
      /\ \A a \in 1 .. n : t[a] \in File!White
  BY <1>1 DEF GapIs
<1>5. Apart(d, k) => Len(w) > 0 /\ w[1] = File!Comma
  <2>1. m > 0 => 1 \in 1 .. m /\ m + n > 0
    BY <1>3
  <2>2. QED BY <1>3, <1>4, <2>1
<1>6. ASSUME NEW a \in 1 .. Len(w) PROVE (Apart(d, k) /\ a = 1) \/ w[a] \in File!White
  <2>1. a \in 1 .. m + n
    BY <1>3
  <2>2. CASE a <= m
    <3>1. a \in 1 .. m
      BY <1>3, <2>1, <2>2
    <3>2. QED BY <1>3, <1>4, <3>1
  <2>3. CASE ~(a <= m)
    <3>1. a - m \in 1 .. n /\ m + (a - m) = a
      BY <1>3, <2>1, <2>3
    <3>2. PICK z : z = a - m
      OBVIOUS
    <3>3. w[m + z] \in File!White
      BY <1>3, <1>4, <3>1, <3>2
    <3>4. QED BY <3>1, <3>2, <3>3
  <2>4. QED BY <2>2, <2>3
<1>7. QED BY <1>1, <1>3, <1>5, <1>6 DEF GapIs

\* Nothing, or a line end, may stand before what follows without a comma.
LEMMA GapBefore ==
  ASSUME NEW d, NEW k
  PROVE  /\ ~Apart(d, k) => GapIs(<<>>, d, k) /\ GapIs(<<File!NewLine>>, d, k)
         /\ Apart(d, k) => GapIs(<<File!Comma>>, d, k) /\ GapIs(<<File!Comma, File!NewLine>>, d, k)
<1>1. PICK p, q, r, z : z = <<>> /\ p = <<File!NewLine>> /\ q = <<File!Comma>> /\ r = <<File!Comma, File!NewLine>>
  OBVIOUS
<1>2. /\ z \in Seq(Ink) /\ p \in Seq(Ink) /\ q \in Seq(Ink) /\ r \in Seq(Ink)
      /\ Len(z) = 0 /\ Len(p) = 1 /\ Len(q) = 1 /\ Len(r) = 2
  <2>1. File!NewLine \in Ink /\ File!Comma \in Ink
    BY InInk, Characters
  <2>2. QED BY <1>1, <2>1, EmptySeq
<1>3. p[1] = File!NewLine /\ q[1] = File!Comma /\ r[1] = File!Comma /\ r[2] = File!NewLine
  BY <1>1
<1>4. File!NewLine \in File!White
  BY Characters
<1>5. /\ \A a \in 1 .. 1 : a = 1
      /\ \A a \in 1 .. 2 : a = 1 \/ a = 2
      /\ \A a \in 1 .. 0 : FALSE
  OBVIOUS
<1>6. ~Apart(d, k) => GapIs(z, d, k) /\ GapIs(p, d, k)
  BY <1>2, <1>3, <1>4, <1>5 DEF GapIs
<1>7. Apart(d, k) => GapIs(q, d, k) /\ GapIs(r, d, k)
  BY <1>2, <1>3, <1>4, <1>5 DEF GapIs
<1>8. QED BY <1>1, <1>6, <1>7

\* A comma that hangs behind the text is cut off.
LEMMA CommaRemoved ==
  ASSUME NEW C \in Seq(Ink), Len(C) >= 1, NEW u,
         u \in {<<File!Comma>>, <<File!Comma, File!NewLine>>}
  PROVE  File!RemoveComma(C \o u) = C
<1>1. PICK w, m, n : w = C \o u /\ m = Len(C) /\ n = Len(u)
  OBVIOUS
<1>2. u \in Seq(Ink) /\ n \in {1, 2} /\ u[1] = File!Comma /\ (n = 2 => u[2] = File!NewLine)
  <2>1. File!NewLine \in Ink /\ File!Comma \in Ink
    BY InInk, Characters
  <2>2. CASE u = <<File!Comma>>
    BY <1>1, <2>1, <2>2
  <2>3. CASE u = <<File!Comma, File!NewLine>>
    BY <1>1, <2>1, <2>3
  <2>4. QED BY <2>2, <2>3
<1>3. /\ w \in Seq(Ink) /\ Len(w) = m + n /\ m \in Nat /\ m >= 1 /\ n \in Nat
      /\ \A a \in 1 .. m : w[a] = C[a]
      /\ \A a \in 1 .. n : w[m + a] = u[a]
  <2>1. /\ C \o u \in Seq(Ink) /\ Len(C) \in Nat /\ Len(u) \in Nat
        /\ Len(C \o u) = Len(C) + Len(u)
        /\ \A a \in 1 .. Len(C) : (C \o u)[a] = C[a]
        /\ \A a \in 1 .. Len(u) : (C \o u)[Len(C) + a] = u[a]
    <3>1. C \in Seq(Ink) /\ u \in Seq(Ink)
      BY <1>2
    <3>2. QED BY ONLY <3>1, ConcatIs
  <2>2. QED BY <1>1, <2>1
<1>4. w[m + 1] = File!Comma /\ (n = 2 => w[m + 2] # File!Comma)
  <2>1. 1 \in 1 .. n /\ (n = 2 => 2 \in 1 .. n)
    BY <1>2
  <2>2. QED BY <1>2, <1>3, <2>1, Different
<1> DEFINE Is(k) == /\ k \in 1 .. Len(w) - 1
                    /\ w[k + 1] = File!Comma /\ \A j \in k + 2 .. Len(w) : w[j] # File!Comma
           x == CHOOSE k \in 1 .. Len(w) - 1 :
                  w[k + 1] = File!Comma /\ \A j \in k + 2 .. Len(w) : w[j] # File!Comma
<1>5. Is(m)
  <2>1. m \in 1 .. Len(w) - 1
    BY <1>2, <1>3
  <2>2. ASSUME NEW j \in m + 2 .. Len(w) PROVE w[j] # File!Comma
    <3>1. n = 2 /\ j = m + 2
      BY <1>2, <1>3
    <3>2. QED BY <1>4, <3>1
  <2>3. QED BY <1>4, <2>1, <2>2
<1>6. Is(x)
  BY <1>5
<1> HIDE DEF x
<1>7. x = m
  <2>1. x \in Nat /\ x + 1 \in Nat /\ x <= (m + n) - 1 /\ n \in {1, 2}
    BY <1>2, <1>3, <1>6
  <2>2. ASSUME x < m PROVE FALSE
    <3>1. m + 1 \in x + 2 .. Len(w)
      BY <1>2, <1>3, <2>1, <2>2
    <3>2. QED BY <1>4, <1>6, <3>1
  <2>3. ASSUME x > m PROVE FALSE
    <3>1. n = 2 /\ x + 1 = m + 2
      BY <1>3, <2>1, <2>3
    <3>2. QED BY <1>4, <1>6, <3>1
  <2>4. QED BY <1>3, <2>1, <2>2, <2>3
<1>8. ~(\A k \in 2 .. Len(w) : w[k] # File!Comma)
  <2>1. m + 1 \in 2 .. Len(w)
    BY <1>2, <1>3
  <2>2. QED BY <1>4, <2>1
<1>9. File!RemoveComma(w) = SubSeq(w, 1, x)
  BY <1>8 DEF File!RemoveComma, x
<1>10. SubSeq(w, 1, 1 + Len(C) - 1) = C
  <2>1. \A a \in 1 .. 1 + Len(C) - 1 : w[a] = C[a - 1 + 1]
    BY <1>1, <1>3
  <2>2. QED BY <2>1, SubSeqIs
<1>11. 1 + Len(C) - 1 = m
  BY <1>1, <1>3
<1>12. QED BY <1>1, <1>7, <1>9, <1>10, <1>11

\* What the text up to an item ends with.
LEMMA EndsWith ==
  ASSUME NEW d, NEW k \in Nat, NEW C, Laid(C, d, k), \A j \in 1 .. k : d[j] \in File!Item
  PROVE  /\ C \in Seq(Ink) /\ Len(C) >= 1
         /\ File!Last(C) = File!LBrace <=> (k = 0 \/ d[k].kind = "object")
<1>1. PICK s, e : LaidAs(C, d, k, s, e)
  BY DEF Laid
<1>2. C \in Seq(Ink) /\ e[k] = Len(C) /\ Len(C) \in Nat
  BY <1>1, LenProperties DEF LaidAs, LaidTo
<1>3. Len(C) >= 1
  <2>1. e[0] \in Nat \ {0} /\ e[0] <= Len(C)
    BY <1>1 DEF LaidAs, LaidTo
  <2>2. QED BY <1>2, <2>1
<1>4. CASE k = 0
  <2>1. C[Len(C)] = File!LBrace
    BY <1>1, <1>2, <1>4 DEF LaidAs, LaidTo
  <2>2. QED BY <1>2, <1>3, <1>4, <2>1 DEF File!Last
<1>5. CASE k # 0
  <2>1. k \in 1 .. k /\ d[k] \in File!Item
    BY <1>5
  <2>2. Stands(C, d, k, s, e)
    BY <1>1, <2>1 DEF LaidAs, LaidTo
  <2>3. PICK it, x, n, m, b, l : /\ it = d[k] /\ x = Core(it) /\ n = Len(it.name) /\ m = Len(it.data)
                                 /\ b = s[k] /\ l = Len(x)
    OBVIOUS
  <2>4. l \in Nat \ {0} /\ b \in Nat /\ Len(C) = b + l - 1 /\ \A a \in 1 .. l : C[b + a - 1] = x[a]
    BY <1>2, <2>1, <2>2, <2>3, CoreSize DEF Stands
  <2>5. C[Len(C)] = x[l]
    <3>1. l \in 1 .. l
      BY <2>4
    <3>2. QED BY <2>4, <3>1
  <2>6. Shape(it, n, m, x) /\ it.kind \in {"value", "object", "end"}
    BY <2>1, <2>3, CoreShape, ItemShape
  <2>7. it.kind = "object" => x[l] = File!LBrace
    BY <2>3, <2>6 DEF Shape
  <2>8. it.kind = "end" => x[l] = File!RBrace
    BY <2>3, <2>6 DEF Shape
  <2>9. it.kind = "value" => x[l] \in Numbers \cup {File!Quote}
    BY <2>3, <2>6 DEF Shape
  <2>10. x[l] = File!LBrace <=> it.kind = "object"
    BY <2>6, <2>7, <2>8, <2>9, Different, NumbersAre
  <2>11. QED BY <1>2, <1>3, <1>5, <2>3, <2>5, <2>10 DEF File!Last
<1>6. QED BY <1>4, <1>5

\* What is appended to a line.
LEMMA CatIs ==
  ASSUME NEW A, NEW v, NEW compact
  PROVE  File!Cat(A, v, compact) = A \o v \/ File!Cat(A, v, compact) = A \o File!Front(v)
  BY DEF File!Cat

\* How each kind of item is written.
LEMMA CoreKinds ==
  ASSUME NEW it
  PROVE  /\ it.kind = "value" => Core(it) = File!Key(it) \o File!Quoted(it.data)
         /\ it.kind = "object" => Core(it) = File!Key(it) \o <<File!Blank, File!LBrace>>
         /\ it.kind = "end" => Core(it) = <<File!RBrace>>
  BY DEF Core

\* The text without what hangs behind it.
LEMMA Parted ==
  ASSUME NEW d, NEW k \in Nat, NEW B, NEW window, Attained(B, d, k, window),
         \A j \in 1 .. k : d[j] \in File!Item
  PROVE  \E C, u : /\ Laid(C, d, k) /\ Hanging(u, d, k, window) /\ B = C \o u
                   /\ C \in Seq(Ink) /\ Len(C) >= 1 /\ u \in Seq(Ink)
                   /\ window => B = C
<1>1. PICK C, u : Laid(C, d, k) /\ Hanging(u, d, k, window) /\ B = C \o u
  BY DEF Attained
<1>2. C \in Seq(Ink) /\ Len(C) >= 1
  BY <1>1, EndsWith
<1>3. u \in {<<>>, <<File!NewLine>>, <<File!Comma>>, <<File!Comma, File!NewLine>>}
  BY <1>1 DEF Hanging
<1>4. u \in Seq(Ink)
  <2>1. File!NewLine \in Ink /\ File!Comma \in Ink
    BY InInk, Characters
  <2>2. <<File!NewLine>> \in Seq(Ink) /\ <<File!Comma>> \in Seq(Ink) /\ <<>> \in Seq(Ink)
    BY <2>1, EmptySeq
  <2>3. <<File!Comma, File!NewLine>> \in Seq(Ink)
    BY <2>1
  <2>4. QED BY ONLY <1>3, <2>2, <2>3
<1>5. window => B = C
  <2>1. window => u = <<>>
    BY <1>1 DEF Hanging
  <2>2. C \o <<>> = C
    BY <1>2, ConcatEmptySeq
  <2>3. QED BY <1>1, <2>1, <2>2
<1>6. QED BY <1>1, <1>2, <1>4, <1>5

\* The program writes a value or the beginning of an object.
LEMMA DumpsItem ==
  ASSUME NEW d, NEW k \in Nat, \A j \in 1 .. k + 1 : d[j] \in File!Item,
         NEW B, Attained(B, d, k, FALSE), d[k + 1].kind # "end",
         NEW n \in Nat, NEW compact
  PROVE  Attained(File!Dump(B, d[k + 1], n, compact), d, k + 1, FALSE)
<1>0. d[k + 1] \in File!Item /\ \A j \in 1 .. k : d[j] \in File!Item
  OBVIOUS
<1>1. PICK C, u : /\ Laid(C, d, k) /\ Hanging(u, d, k, FALSE) /\ B = C \o u
                  /\ C \in Seq(Ink) /\ u \in Seq(Ink)
  <2>1. k \in Nat /\ Attained(B, d, k, FALSE)
    OBVIOUS
  <2>2. QED BY ONLY <1>0, <2>1, Parted
<1>2. PICK t, it, x, T : t = File!Tabs(n, compact) /\ it = d[k + 1] /\ x = Core(it) /\ T = File!Dump(B, it, n, compact)
  OBVIOUS
<1>3. t \in Seq(Ink) /\ \A a \in 1 .. Len(t) : t[a] \in File!White
  BY <1>2, TabsAre
<1>4. GapIs(u, d, k + 1)
  <2>1. Apart(d, k + 1) <=> k > 0 /\ d[k].kind # "object"
    <3>1. (k + 1) - 1 = k /\ (k + 1 > 1 <=> k > 0)
      OBVIOUS
    <3>2. QED BY <3>1 DEF Apart
  <2>2. CASE Apart(d, k + 1)
    <3>1. u \in {<<File!Comma>>, <<File!Comma, File!NewLine>>}
      BY <1>1, <2>1, <2>2 DEF Hanging
    <3>2. QED BY <2>2, <3>1, GapBefore
  <2>3. CASE ~Apart(d, k + 1)
    <3>1. u \in {<<>>, <<File!NewLine>>}
      BY <1>1, <2>1, <2>3 DEF Hanging
    <3>2. QED BY <2>3, <3>1, GapBefore
  <2>4. QED BY <2>2, <2>3
<1>5. GapIs(u \o t, d, k + 1)
  BY <1>3, <1>4, GapGrows
<1>6. x \in Seq(Ink) /\ it.kind \in {"value", "object"}
  BY <1>0, <1>2, CoreSize, ItemShape
<1>b. PICK A : A = (C \o u) \o t
  OBVIOUS
<1>7. ASSUME NEW r \in Seq(Ink), T = A \o (x \o r), Hanging(r, d, k + 1, FALSE)
      PROVE  Attained(T, d, k + 1, FALSE)
  <2>1. T = ((C \o u) \o t) \o (Core(d[k + 1]) \o r)
    BY <1>2, <1>7, <1>b
  <2>2. k \in Nat /\ Laid(C, d, k) /\ (\A j \in 1 .. k + 1 : d[j] \in File!Item)
        /\ u \in Seq(Ink) /\ t \in Seq(Ink) /\ r \in Seq(Ink) /\ GapIs(u \o t, d, k + 1)
    BY <1>1, <1>3, <1>5, <1>7
  <2>3. WentOn(T, d, k + 1, r)
    BY ONLY <2>1, <2>2, StepOn
  <2>4. QED BY <1>7, <2>3 DEF Attained, WentOn
<1>8. File!NewLine \in Ink /\ File!Comma \in Ink /\ File!Blank \in Ink /\ File!LBrace \in Ink
  BY InInk, Characters
<1>9. CASE it.kind = "value"
  <2>1. PICK v, w, r : v = x \o w /\ w = <<File!Comma, File!NewLine>> /\ r = <<File!Comma>>
    OBVIOUS
  <2>2. T = File!Cat(A, v, compact)
    <3>1. x = File!Key(it) \o File!Quoted(it.data)
      BY <1>2, <1>9, CoreKinds
    <3>2. T = File!Cat(B \o t, (File!Key(it) \o File!Quoted(it.data)) \o <<File!Comma, File!NewLine>>, compact)
      BY <1>2, <1>9 DEF File!Dump
    <3>3. QED BY <1>1, <1>2, <1>b, <2>1, <3>1, <3>2
  <2>3. w \in Seq(Ink) /\ r \in Seq(Ink) /\ w = r \o <<File!NewLine>>
    BY <1>8, <2>1, Glue
  <2>4. File!Front(v) = x \o r
    <3>1. PICK q : q = x \o r
      OBVIOUS
    <3>2. q \in Seq(Ink)
      <4>1. x \o r \in Seq(Ink)
        BY <1>6, <2>3, ConcatProperties
      <4>2. QED BY <3>1, <4>1
    <3>3. v = q \o <<File!NewLine>>
      <4>1. PICK p : p = <<File!NewLine>>
        OBVIOUS
      <4>2. x \in Seq(Ink) /\ r \in Seq(Ink) /\ p \in Seq(Ink)
        BY <1>6, <1>8, <2>3, <4>1
      <4>3. (x \o r) \o p = x \o (r \o p)
        <5>1. Associates(x, r, p)
          BY ONLY <4>2, ConcatAssociates
        <5>2. QED BY ONLY <5>1 DEF Associates
      <4>4. QED BY <2>1, <2>3, <3>1, <4>1, <4>3
    <3>4. File!NewLine \in Ink
      BY <1>8
    <3>5. File!Front(v) = q
      BY ONLY <3>2, <3>3, <3>4, FrontOf
    <3>6. QED BY <3>1, <3>5
  <2>5. Hanging(w, d, k + 1, FALSE) /\ Hanging(r, d, k + 1, FALSE)
    <3>1. k + 1 > 0 /\ d[k + 1].kind # "object"
      BY <1>2, <1>9
    <3>2. QED BY <2>1, <3>1 DEF Hanging
  <2>6. T = A \o v \/ T = A \o File!Front(v)
    BY <2>2, CatIs
  <2>7. ASSUME T = A \o v PROVE Attained(T, d, k + 1, FALSE)
    <3>1. T = A \o (x \o w)
      BY <2>1, <2>7
    <3>2. QED BY ONLY <1>7, <2>3, <2>5, <3>1, Zenon
  <2>8. ASSUME T = A \o File!Front(v) PROVE Attained(T, d, k + 1, FALSE)
    <3>1. T = A \o (x \o r)
      BY <2>4, <2>8
    <3>2. QED BY ONLY <1>7, <2>3, <2>5, <3>1, Zenon
  <2>9. Attained(T, d, k + 1, FALSE)
    BY ONLY <2>6, <2>7, <2>8
  <2>10. QED BY <1>2, <2>9
<1>10. CASE it.kind = "object"
  <2>1. PICK v, w, r : v = x \o w /\ w = <<File!NewLine>> /\ r = <<>>
    OBVIOUS
  <2>2. T = File!Cat(A, v, compact)
    <3>1. PICK q, p, pw : /\ q = File!Key(it) /\ p = <<File!Blank, File!LBrace>>
                          /\ pw = <<File!Blank, File!LBrace, File!NewLine>>
      OBVIOUS
    <3>2. x = q \o p
      BY <1>2, <1>10, <3>1, CoreKinds
    <3>3. T = File!Cat(B \o t, q \o pw, compact)
      BY <1>2, <1>10, <3>1 DEF File!Dump
    <3>4. p \in Seq(Ink) /\ w \in Seq(Ink) /\ p \o w = pw
      BY ONLY <1>8, <2>1, <3>1, Glue
    <3>5. q \in Seq(Ink)
      BY <1>0, <1>2, <3>1, KeyShape
    <3>6. (q \o p) \o w = q \o (p \o w)
      <4>1. q \in Seq(Ink) /\ p \in Seq(Ink) /\ w \in Seq(Ink)
        BY <3>4, <3>5
      <4>2. Associates(q, p, w)
        BY ONLY <4>1, ConcatAssociates
      <4>3. QED BY ONLY <4>2 DEF Associates
    <3>7. v = q \o pw
      BY <2>1, <3>2, <3>4, <3>6
    <3>8. QED BY <1>1, <1>b, <3>3, <3>7
  <2>3. w \in Seq(Ink) /\ r \in Seq(Ink)
    BY <1>8, <2>1, EmptySeq
  <2>4. File!Front(v) = x \o r
    <3>1. x \o <<>> = x
      BY <1>6, ConcatEmptySeq
    <3>2. File!Front(v) = x
      BY <1>6, <1>8, <2>1, FrontOf
    <3>3. QED BY <2>1, <3>1, <3>2
  <2>5. Hanging(w, d, k + 1, FALSE) /\ Hanging(r, d, k + 1, FALSE)
    <3>1. d[k + 1].kind = "object"
      BY <1>2, <1>10
    <3>2. QED BY <2>1, <3>1 DEF Hanging
  <2>6. T = A \o v \/ T = A \o File!Front(v)
    BY <2>2, CatIs
  <2>7. ASSUME T = A \o v PROVE Attained(T, d, k + 1, FALSE)
    <3>1. T = A \o (x \o w)
      BY <2>1, <2>7
    <3>2. QED BY ONLY <1>7, <2>3, <2>5, <3>1, Zenon
  <2>8. ASSUME T = A \o File!Front(v) PROVE Attained(T, d, k + 1, FALSE)
    <3>1. T = A \o (x \o r)
      BY <2>4, <2>8
    <3>2. QED BY ONLY <1>7, <2>3, <2>5, <3>1, Zenon
  <2>9. Attained(T, d, k + 1, FALSE)
    BY ONLY <2>6, <2>7, <2>8
  <2>10. QED BY <1>2, <2>9
<1>11. QED BY <1>6, <1>9, <1>10

\* The end of an object goes behind the text.
LEMMA EndGoesOn ==
  ASSUME NEW d, NEW k \in Nat, \A j \in 1 .. k + 1 : d[j] \in File!Item,
         NEW C, Laid(C, d, k), d[k + 1].kind = "end",
         NEW u, u \in {<<>>, <<File!NewLine>>},
         NEW t \in Seq(Ink), \A a \in 1 .. Len(t) : t[a] \in File!White, NEW r \in Seq(Ink),
         NEW T, T = ((C \o u) \o t) \o (<<File!RBrace>> \o r)
  PROVE  WentOn(T, d, k + 1, r)
<1>1. ~Apart(d, k + 1)
  BY DEF Apart
<1>2. GapIs(u, d, k + 1)
  BY <1>1, GapBefore
<1>3. u \in Seq(Ink)
  BY <1>2 DEF GapIs
<1>4. GapIs(u \o t, d, k + 1)
  BY <1>2, GapGrows
<1>5. Core(d[k + 1]) = <<File!RBrace>>
  BY CoreKinds
<1>6. T = ((C \o u) \o t) \o (Core(d[k + 1]) \o r)
  BY <1>5
<1>7. k \in Nat /\ Laid(C, d, k) /\ (\A j \in 1 .. k + 1 : d[j] \in File!Item)
      /\ u \in Seq(Ink) /\ t \in Seq(Ink) /\ r \in Seq(Ink)
  BY <1>3
<1>8. QED BY ONLY <1>4, <1>6, <1>7, StepOn

\* Nothing in between.
LEMMA Nothing ==
  ASSUME NEW C \in Seq(Ink)
  PROVE  (C \o <<>>) \o <<>> = C /\ \A a \in 1 .. Len(<<>>) : FALSE
<1>1. C \o <<>> = C
  BY ConcatEmptySeq
<1>2. Len(<<>>) = 0
  BY EmptySeq
<1>3. QED BY <1>1, <1>2

\* The program writes the end of an object.
LEMMA DumpsEnd ==
  ASSUME NEW d, NEW k \in Nat, \A j \in 1 .. k + 1 : d[j] \in File!Item,
         NEW B, Attained(B, d, k, FALSE), d[k + 1].kind = "end", k > 0, d[k].kind # "object",
         NEW n \in Nat, NEW compact
  PROVE  Attained(File!Dump(B, d[k + 1], n, compact), d, k + 1, FALSE)
<1>0. \A j \in 1 .. k : d[j] \in File!Item
  OBVIOUS
<1>1. PICK C, u : /\ Laid(C, d, k) /\ Hanging(u, d, k, FALSE) /\ B = C \o u
                  /\ C \in Seq(Ink) /\ Len(C) >= 1 /\ u \in Seq(Ink)
  <2>1. k \in Nat /\ Attained(B, d, k, FALSE)
    OBVIOUS
  <2>2. QED BY ONLY <1>0, <2>1, Parted
<1>2. File!RemoveComma(B) = C
  <2>1. u \in {<<File!Comma>>, <<File!Comma, File!NewLine>>}
    BY <1>1 DEF Hanging
  <2>2. QED BY <1>1, <2>1, CommaRemoved
<1>3. File!NewLine \in Ink /\ File!Comma \in Ink /\ File!RBrace \in Ink
  BY InInk, Characters
<1>4. PICK T, it : it = d[k + 1] /\ T = File!Dump(B, it, n, compact)
  OBVIOUS
<1>5. ASSUME NEW r, WentOn(T, d, k + 1, r), r \in {<<File!Comma>>, <<File!Comma, File!NewLine>>}
      PROVE  Attained(T, d, k + 1, FALSE)
  <2>1. Hanging(r, d, k + 1, FALSE)
    <3>1. k + 1 > 0 /\ d[k + 1].kind # "object"
      OBVIOUS
    <3>2. QED BY <1>5, <3>1 DEF Hanging
  <2>2. QED BY <1>5, <2>1 DEF WentOn, Attained
<1>6. CASE compact
  <2>1. PICK p, r, pr, z : p = <<File!RBrace>> /\ r = <<File!Comma>> /\ pr = <<File!RBrace, File!Comma>> /\ z = <<>>
    OBVIOUS
  <2>2. T = C \o pr
    BY <1>2, <1>4, <1>6, <2>1 DEF File!Dump
  <2>3. pr = p \o r /\ r \in Seq(Ink) /\ z \in Seq(Ink)
    BY <1>3, <2>1, Glue
  <2>4. (C \o z) \o z = C /\ \A a \in 1 .. Len(z) : z[a] \in File!White
    BY <1>1, <2>1, Nothing
  <2>5. T = ((C \o z) \o z) \o (p \o r)
    BY <2>2, <2>3, <2>4
  <2>6. T = ((C \o z) \o z) \o (<<File!RBrace>> \o r) /\ z \in {<<>>, <<File!NewLine>>}
    BY <2>1, <2>5
  <2>7. WentOn(T, d, k + 1, r)
    <3>1. k \in Nat /\ Laid(C, d, k) /\ (\A j \in 1 .. k + 1 : d[j] \in File!Item) /\ d[k + 1].kind = "end"
      BY <1>1
    <3>2. QED BY ONLY <2>3, <2>4, <2>6, <3>1, EndGoesOn
  <2>8. Attained(T, d, k + 1, FALSE)
    BY <1>5, <2>1, <2>7
  <2>9. QED BY <1>4, <2>8
<1>7. CASE ~compact
  <2>1. PICK p, r, pr, z, t : /\ p = <<File!RBrace>> /\ r = <<File!Comma, File!NewLine>>
                              /\ pr = <<File!RBrace, File!Comma, File!NewLine>>
                              /\ z = <<File!NewLine>> /\ t = File!Tabs(n, compact)
    OBVIOUS
  <2>2. T = ((C \o z) \o t) \o pr
    BY <1>2, <1>4, <1>7, <2>1 DEF File!Dump
  <2>3. pr = p \o r /\ r \in Seq(Ink)
    BY <1>3, <2>1, Glue
  <2>4. t \in Seq(Ink) /\ \A a \in 1 .. Len(t) : t[a] \in File!White
    BY <2>1, TabsAre
  <2>5. T = ((C \o z) \o t) \o (p \o r)
    BY <2>2, <2>3
  <2>6. T = ((C \o z) \o t) \o (<<File!RBrace>> \o r) /\ z \in {<<>>, <<File!NewLine>>}
    BY <2>1, <2>5
  <2>7. WentOn(T, d, k + 1, r)
    <3>1. k \in Nat /\ Laid(C, d, k) /\ (\A j \in 1 .. k + 1 : d[j] \in File!Item) /\ d[k + 1].kind = "end"
      BY <1>1
    <3>2. QED BY ONLY <2>3, <2>4, <2>6, <3>1, EndGoesOn
  <2>8. Attained(T, d, k + 1, FALSE)
    BY <1>5, <2>1, <2>7
  <2>9. QED BY <1>4, <2>8
<1>8. QED BY <1>6, <1>7

\* The window writes an item.
LEMMA WindowWrites ==
  ASSUME NEW d, NEW k \in Nat, \A j \in 1 .. k + 1 : d[j] \in File!Item,
         NEW B, Attained(B, d, k, TRUE)
  PROVE  Laid(File!GenJson(B, d[k + 1]), d, k + 1)
<1>0. d[k + 1] \in File!Item /\ \A j \in 1 .. k : d[j] \in File!Item
  OBVIOUS
<1>1. PICK C : Laid(C, d, k) /\ B = C /\ C \in Seq(Ink) /\ Len(C) >= 1
  BY <1>0, Parted
<1>2. /\ File!NewLine \in Ink /\ File!Comma \in Ink /\ File!RBrace \in Ink
      /\ File!Blank \in Ink /\ File!LBrace \in Ink /\ File!NewLine \in File!White
  BY InInk, Characters
<1>3. PICK T, it, x : it = d[k + 1] /\ T = File!GenJson(B, it) /\ x = Core(it)
  OBVIOUS
<1>4. PICK n, z : n = <<File!NewLine>> /\ z = <<>>
  OBVIOUS
<1>5. n \in Seq(Ink) /\ z \in Seq(Ink) /\ Len(n) = 1 /\ n[1] = File!NewLine
  BY <1>2, <1>4, EmptySeq
<1>6. ASSUME WentOn(T, d, k + 1, z) PROVE Laid(T, d, k + 1)
  <2>1. PICK D : Laid(D, d, k + 1) /\ T = D \o z
    BY <1>6 DEF WentOn
  <2>2. k + 1 \in Nat
    OBVIOUS
  <2>3. D \in Seq(Ink)
    BY <2>1, <2>2, EndsWith
  <2>4. D \o <<>> = D
    BY <2>3, ConcatEmptySeq
  <2>5. QED BY <1>4, <2>1, <2>4
<1>7. x \in Seq(Ink) /\ x \o z = x /\ it.kind \in {"value", "object", "end"}
  <2>1. x \in Seq(Ink) /\ it.kind \in {"value", "object", "end"}
    BY <1>0, <1>3, CoreSize, ItemShape
  <2>2. x \o <<>> = x
    BY <2>1, ConcatEmptySeq
  <2>3. QED BY <1>4, <2>1, <2>2
<1>8. CASE it.kind = "end"
  <2>1. PICK p, np : p = <<File!RBrace>> /\ np = <<File!NewLine, File!RBrace>>
    OBVIOUS
  <2>2. T = C \o np
    BY <1>1, <1>3, <1>8, <2>1 DEF File!GenJson
  <2>3. np = n \o p /\ p \in Seq(Ink)
    BY <1>2, <1>4, <2>1, Glue
  <2>4. p = x
    BY <1>3, <1>8, <2>1, CoreKinds
  <2>5. PICK A : A = C \o n
    OBVIOUS
  <2>6. A \o z = A
    <3>1. C \o n \in Seq(Ink)
      BY <1>1, <1>5, ConcatProperties
    <3>2. A \o <<>> = A
      BY <2>5, <3>1, ConcatEmptySeq
    <3>3. QED BY <1>4, <3>2
  <2>7. T = A \o p
    <3>1. C \in Seq(Ink) /\ n \in Seq(Ink) /\ p \in Seq(Ink)
      BY <1>1, <1>5, <2>3
    <3>2. (C \o n) \o p = C \o (n \o p)
      <4>1. Associates(C, n, p)
        BY ONLY <3>1, ConcatAssociates
      <4>2. QED BY ONLY <4>1 DEF Associates
    <3>3. QED BY <2>2, <2>3, <2>5, <3>2
  <2>8. T = ((C \o n) \o z) \o (<<File!RBrace>> \o z)
    <3>1. p \o z = p
      BY <1>7, <2>4
    <3>2. T = (A \o z) \o (p \o z)
      BY <2>6, <2>7, <3>1
    <3>3. QED BY <2>1, <2>5, <3>2
  <2>9. WentOn(T, d, k + 1, z)
    <3>1. k \in Nat /\ Laid(C, d, k) /\ (\A j \in 1 .. k + 1 : d[j] \in File!Item) /\ d[k + 1].kind = "end"
          /\ n \in {<<>>, <<File!NewLine>>} /\ z \in Seq(Ink) /\ \A a \in 1 .. Len(z) : z[a] \in File!White
      BY <1>1, <1>3, <1>4, <1>5, <1>8, Nothing
    <3>2. QED BY ONLY <2>8, <3>1, EndGoesOn
  <2>10. QED BY <1>3, <1>6, <2>9
<1>9. CASE it.kind # "end"
  <2>1. PICK u : u = IF File!Last(C) = File!LBrace THEN <<>> ELSE <<File!Comma>>
    OBVIOUS
  <2>2. u \in Seq(Ink)
    BY <1>2, <2>1, EmptySeq
  <2>3. (IF File!Last(B) = File!LBrace THEN B ELSE B \o <<File!Comma>>) = C \o u
    <3>1. C \o <<>> = C
      BY <1>1, ConcatEmptySeq
    <3>2. QED BY <1>1, <2>1, <3>1
  <2>4. PICK q, w, A : q = File!Key(it) /\ A = (C \o u) \o n
          /\ w = IF it.kind = "object" THEN <<File!Blank, File!LBrace>> ELSE File!Quoted(it.data)
    OBVIOUS
  <2>5. T = (A \o q) \o w
    BY <1>3, <1>4, <1>9, <2>3, <2>4 DEF File!GenJson
  <2>6. x = q \o w
    BY <1>3, <1>7, <1>9, <2>4, CoreKinds
  <2>7. q \in Seq(Ink) /\ w \in Seq(Ink) /\ A \in Seq(Ink)
    <3>1. q \in Seq(Ink)
      BY <1>0, <1>3, <2>4, KeyShape
    <3>2. w \in Seq(Ink)
      <4>1. CASE it.kind = "object"
        BY <1>2, <2>4, <4>1
      <4>2. CASE it.kind # "object"
        <5>1. it.data \in Seq(Ink) /\ w = File!Quoted(it.data)
          BY <1>0, <1>3, <2>4, <4>2, ItemShape
        <5>2. QED BY <5>1, QuotedShape
      <4>3. QED BY <4>1, <4>2
    <3>3. C \o u \in Seq(Ink)
      BY <1>1, <2>2, ConcatProperties
    <3>4. PICK D : D = C \o u
      OBVIOUS
    <3>5. D \o n \in Seq(Ink)
      BY <1>5, <3>3, <3>4, ConcatProperties
    <3>6. QED BY <2>4, <3>1, <3>2, <3>4, <3>5
  <2>8. (A \o q) \o w = A \o (q \o w)
    <3>1. Associates(A, q, w)
      BY ONLY <2>7, ConcatAssociates
    <3>2. QED BY ONLY <3>1 DEF Associates
  <2>9. T = A \o (x \o z)
    BY <1>7, <2>5, <2>6, <2>8
  <2>10. T = ((C \o u) \o n) \o (Core(d[k + 1]) \o z)
    BY <1>3, <2>4, <2>9
  <2>11. GapIs(u \o n, d, k + 1)
    <3>1. Apart(d, k + 1) <=> k > 0 /\ d[k].kind # "object"
      <4>1. (k + 1) - 1 = k /\ (k + 1 > 1 <=> k > 0) /\ d[k + 1].kind # "end"
        BY <1>3, <1>9
      <4>2. QED BY <4>1 DEF Apart
    <3>2. File!Last(C) = File!LBrace <=> ~Apart(d, k + 1)
      <4>1. File!Last(C) = File!LBrace <=> (k = 0 \/ d[k].kind = "object")
        BY <1>0, <1>1, EndsWith
      <4>2. QED BY <3>1, <4>1
    <3>3. GapIs(u, d, k + 1)
      BY <2>1, <3>2, GapBefore
    <3>4. \A a \in 1 .. Len(n) : n[a] \in File!White
      <4>1. \A a \in 1 .. 1 : a = 1
        OBVIOUS
      <4>2. QED BY <1>2, <1>5, <4>1
    <3>5. QED BY <1>5, <3>3, <3>4, GapGrows
  <2>12. WentOn(T, d, k + 1, z)
    <3>1. k \in Nat /\ Laid(C, d, k) /\ (\A j \in 1 .. k + 1 : d[j] \in File!Item)
          /\ u \in Seq(Ink) /\ n \in Seq(Ink) /\ z \in Seq(Ink)
      BY <1>1, <1>5, <2>2
    <3>2. QED BY ONLY <2>10, <2>11, <3>1, StepOn
  <2>13. QED BY <1>3, <1>6, <2>12
<1>10. QED BY <1>8, <1>9

\* The text before the first item, and behind one more.
FirstText(style) == IF style = "window" THEN <<File!Blank, File!LBrace>> ELSE <<File!LBrace, File!NewLine>>
NextText(B, c, k, style) ==
  IF style = "window" THEN File!GenJson(B, c[k])
  ELSE File!Dump(B, c[k], Len(File!Counts(c)[k - 1]), style = "compact")

\* The texts behind the items of a first part.
Script(g, c, style, m) ==
  g = [k \in 0 .. m |-> IF k = 0 THEN FirstText(style) ELSE NextText(g[k - 1], c, k, style)]

\* There are texts for every first part.
LEMMA ScriptExists ==
  ASSUME NEW c, NEW style, NEW m \in Nat
  PROVE  \E g : Script(g, c, style, m)
<1> DEFINE Bad == {n \in Nat : ~\E g : Script(g, c, style, n)}
<1>1. SUFFICES ASSUME Bad # {} PROVE FALSE
  OBVIOUS
<1>2. PICK n \in Bad : \A k \in Bad : n <= k
  BY <1>1, Least
<1>3. CASE n = 0
  <2> DEFINE g == [k \in 0 .. 0 |-> FirstText(style)]
  <2>1. g = [k \in 0 .. 0 |-> IF k = 0 THEN FirstText(style) ELSE NextText(g[k - 1], c, k, style)]
    OBVIOUS
  <2>2. Script(g, c, style, 0)
    BY <2>1 DEF Script
  <2>3. QED BY <1>2, <1>3, <2>2
<1>4. CASE n # 0
  <2>1. n - 1 \in Nat /\ n \in Nat /\ n - 1 \notin Bad
    BY <1>2, <1>4
  <2>2. PICK g : Script(g, c, style, n - 1)
    BY <2>1
  <2> DEFINE h == [k \in 0 .. n |-> IF k = n THEN NextText(g[n - 1], c, n, style) ELSE g[k]]
  <2>3. \A k \in 0 .. n - 1 : g[k] = IF k = 0 THEN FirstText(style) ELSE NextText(g[k - 1], c, k, style)
    BY <2>2 DEF Script
  <2>4. \A k \in 0 .. n : h[k] = IF k = n THEN NextText(g[n - 1], c, n, style) ELSE g[k]
    OBVIOUS
  <2>5. h = [k \in 0 .. n |-> h[k]]
    OBVIOUS
  <2> HIDE DEF h
  <2>6. ASSUME NEW k \in 0 .. n
        PROVE  h[k] = IF k = 0 THEN FirstText(style) ELSE NextText(h[k - 1], c, k, style)
    <3>1. CASE k = n
      <4>1. n - 1 \in 0 .. n /\ n - 1 # n
        BY <2>1
      <4>2. h[n - 1] = g[n - 1]
        BY <2>4, <4>1
      <4>3. QED BY <1>4, <2>4, <3>1, <4>2
    <3>2. CASE k # n /\ k # 0
      <4>1. k \in 0 .. n - 1 /\ k - 1 \in 0 .. n /\ k - 1 # n
        BY <2>1, <3>2
      <4>2. h[k] = g[k] /\ h[k - 1] = g[k - 1]
        BY <2>4, <3>2, <4>1
      <4>3. QED BY <2>3, <3>2, <4>1, <4>2
    <3>3. CASE k # n /\ k = 0
      <4>1. 0 \in 0 .. n - 1
        BY <1>4, <2>1
      <4>2. QED BY <2>3, <2>4, <3>3, <4>1
    <3>4. QED BY <3>1, <3>2, <3>3
  <2>7. h = [k \in 0 .. n |-> IF k = 0 THEN FirstText(style) ELSE NextText(h[k - 1], c, k, style)]
    BY <2>5, <2>6
  <2>8. Script(h, c, style, n)
    BY <2>7 DEF Script
  <2>9. QED BY <1>2, <2>8
<1>5. QED BY <1>3, <1>4

\* The texts of the code are these.
LEMMA WrittenIs ==
  ASSUME NEW c, Len(c) \in Nat, NEW style, NEW W, W = File!Written(c, style)
  PROVE  /\ W[0] = FirstText(style)
         /\ \A k \in 1 .. Len(c) : W[k] = NextText(W[k - 1], c, k, style)
<1>1. \E g : Script(g, c, style, Len(c))
  BY ScriptExists
<1>2. Script(File!Written(c, style), c, style, Len(c))
  BY <1>1 DEF Script, File!Written, FirstText, NextText
<1>3. W = [k \in 0 .. Len(c) |-> IF k = 0 THEN FirstText(style) ELSE NextText(W[k - 1], c, k, style)]
  BY <1>2 DEF Script
<1>4. \A k \in 0 .. Len(c) : W[k] = IF k = 0 THEN FirstText(style) ELSE NextText(W[k - 1], c, k, style)
  BY <1>3
<1>5. QED BY <1>4

\* Before the first item stands the opening brace.
LEMMA FirstAttained ==
  ASSUME NEW d, NEW style
  PROVE  IF style = "window" THEN Attained(FirstText(style), d, 0, TRUE)
         ELSE Attained(FirstText(style), d, 0, FALSE)
<1>1. /\ File!NewLine \in Ink /\ File!Blank \in Ink /\ File!LBrace \in Ink /\ File!Blank \in File!White
  BY InInk, Characters
<1>2. ASSUME NEW C \in Seq(Ink), NEW m \in Nat \ {0}, Len(C) = m, C[m] = File!LBrace,
             \A a \in 1 .. m - 1 : C[a] \in File!White
      PROVE  Laid(C, d, 0)
  <2> DEFINE e == [j \in {0} |-> m]
  <2>1. e[0] = m
    OBVIOUS
  <2> HIDE DEF e
  <2>2. (\A j \in 1 .. 0 : Stands(C, d, j, e, e)) /\ (\A j \in 0 .. 0 : j = 0)
    OBVIOUS
  <2>3. LaidTo(C, d, 0, e, e)
    BY <1>2, <2>1, <2>2 DEF LaidTo
  <2>4. LaidAs(C, d, 0, e, e)
    BY <1>2, <2>1, <2>2, <2>3 DEF LaidAs
  <2>5. QED BY <2>4 DEF Laid
<1>3. CASE style = "window"
  <2>1. PICK C : C = <<File!Blank, File!LBrace>>
    OBVIOUS
  <2>2. C \in Seq(Ink) /\ Len(C) = 2 /\ C[2] = File!LBrace /\ C[1] = File!Blank
    BY <1>1, <2>1
  <2>3. Laid(C, d, 0)
    <3>1. 2 \in Nat \ {0} /\ \A a \in 1 .. 2 - 1 : C[a] \in File!White
      <4>1. \A a \in 1 .. 2 - 1 : a = 1
        OBVIOUS
      <4>2. QED BY <1>1, <2>2, <4>1
    <3>2. QED BY <1>2, <2>2, <3>1
  <2>4. C \o <<>> = C
    BY <2>2, ConcatEmptySeq
  <2>5. Hanging(<<>>, d, 0, TRUE)
    BY DEF Hanging
  <2>6. Attained(C, d, 0, TRUE)
    BY <2>3, <2>4, <2>5 DEF Attained
  <2>7. QED BY <1>3, <2>1, <2>6 DEF FirstText
<1>4. CASE style # "window"
  <2>1. PICK C, n, T : C = <<File!LBrace>> /\ n = <<File!NewLine>> /\ T = <<File!LBrace, File!NewLine>>
    OBVIOUS
  <2>2. C \in Seq(Ink) /\ Len(C) = 1 /\ C[1] = File!LBrace
    BY <1>1, <2>1
  <2>3. Laid(C, d, 0)
    <3>1. 1 \in Nat \ {0} /\ \A a \in 1 .. 1 - 1 : C[a] \in File!White
      OBVIOUS
    <3>2. QED BY <1>2, <2>2, <3>1
  <2>4. C \o n = T
    <3>1. <<File!LBrace>> \o <<File!NewLine>> = <<File!LBrace, File!NewLine>>
      BY ONLY <1>1, GlueTwo
    <3>2. QED BY <2>1, <3>1
  <2>5. Hanging(n, d, 0, FALSE)
    BY <2>1 DEF Hanging
  <2>6. Attained(T, d, 0, FALSE)
    BY <2>3, <2>4, <2>5 DEF Attained
  <2>7. QED BY <1>4, <2>1, <2>6 DEF FirstText
<1>5. QED BY <1>3, <1>4

\* The text behind the first k items.
LEMMA WritingIs ==
  ASSUME NEW c, File!IsTree(c), File!Fits(c), NEW d, d = Items(c), NEW style,
         NEW W, W = File!Written(c, style), NEW n \in 0 .. Len(c)
  PROVE  IF style = "window" THEN Attained(W[n], d, n, TRUE) ELSE Attained(W[n], d, n, FALSE)
<1>1. /\ Len(c) \in Nat /\ \A j \in 1 .. Len(c) : d[j] = c[j]
      /\ \A j \in 1 .. Len(c) + 1 : d[j] \in File!Item
  BY ItemsAre
<1>2. /\ W[0] = FirstText(style)
      /\ \A k \in 1 .. Len(c) : W[k] = NextText(W[k - 1], c, k, style)
  BY <1>1, WrittenIs
<1> DEFINE Good(k) == IF style = "window" THEN Attained(W[k], d, k, TRUE) ELSE Attained(W[k], d, k, FALSE)
           Bad == {k \in 0 .. Len(c) : ~Good(k)}
<1>3. Good(0)
  BY <1>2, FirstAttained
<1>4. ASSUME NEW k \in Nat, k + 1 \in 1 .. Len(c), Good(k) PROVE Good(k + 1)
  <2>1. /\ k \in 0 .. Len(c) /\ (k + 1) - 1 = k /\ d[k + 1] = c[k + 1]
        /\ \A j \in 1 .. k + 1 : d[j] \in File!Item
    BY <1>1, <1>4
  <2>2. W[k + 1] = NextText(W[k], c, k + 1, style)
    BY <1>2, <1>4, <2>1
  <2>3. CASE style = "window"
    <3>1. Attained(W[k], d, k, TRUE) /\ W[k + 1] = File!GenJson(W[k], d[k + 1])
      BY <1>4, <2>1, <2>2, <2>3 DEF NextText
    <3>2. Laid(W[k + 1], d, k + 1)
      BY <2>1, <3>1, WindowWrites
    <3>3. W[k + 1] \in Seq(Ink)
      <4>1. k + 1 \in Nat
        OBVIOUS
      <4>2. QED BY <2>1, <3>2, <4>1, EndsWith
    <3>4. W[k + 1] \o <<>> = W[k + 1]
      BY <3>3, ConcatEmptySeq
    <3>5. Hanging(<<>>, d, k + 1, TRUE)
      BY DEF Hanging
    <3>6. Attained(W[k + 1], d, k + 1, TRUE)
      BY <3>2, <3>4, <3>5 DEF Attained
    <3>7. QED BY <2>3, <3>6
  <2>4. CASE style # "window"
    <3>1. PICK B, m, compact : B = W[k] /\ m = Len(File!Counts(c)[k]) /\ compact = (style = "compact")
      OBVIOUS
    <3>2. Attained(B, d, k, FALSE) /\ W[k + 1] = File!Dump(B, d[k + 1], m, compact)
      BY <1>4, <2>1, <2>2, <2>4, <3>1 DEF NextText
    <3>3. m \in Nat
      BY <2>1, <3>1, CountsAre
    <3>4. Attained(File!Dump(B, d[k + 1], m, compact), d, k + 1, FALSE)
      <4>1. CASE d[k + 1].kind = "end"
        <5>1. k > 0 /\ d[k].kind # "object"
          BY <2>1, <4>1, NotEmpty
        <5>2. QED BY <2>1, <3>2, <3>3, <4>1, <5>1, DumpsEnd
      <4>2. CASE d[k + 1].kind # "end"
        BY <2>1, <3>2, <3>3, <4>2, DumpsItem
      <4>3. QED BY <4>1, <4>2
    <3>5. QED BY <2>4, <3>2, <3>4
  <2>5. QED BY <2>3, <2>4
<1> HIDE DEF Good
<1>5. Bad = {}
  <2>1. SUFFICES ASSUME Bad # {} PROVE FALSE
    OBVIOUS
  <2>a. Bad \in SUBSET Nat
    BY <1>1
  <2>2. PICK k \in Bad : \A j \in Bad : k <= j
    <3> HIDE DEF Bad
    <3>1. QED BY <2>1, <2>a, Least
  <2>3. k \in 0 .. Len(c) /\ ~Good(k) /\ k # 0
    BY <1>3, <2>2
  <2>4. k - 1 \in Nat /\ (k - 1) + 1 = k /\ (k - 1) + 1 \in 1 .. Len(c) /\ k - 1 \in 0 .. Len(c) /\ ~(k <= k - 1)
    BY <1>1, <2>3
  <2>5. Good(k - 1)
    BY <2>2, <2>4
  <2>6. Good((k - 1) + 1)
    BY <1>4, <2>4, <2>5
  <2>7. QED BY <2>3, <2>4, <2>6
<1>6. QED BY <1>5 DEF Good

\* What is written is laid out item by item, and ends.
LEMMA TextIs ==
  ASSUME NEW c, File!IsTree(c), File!Fits(c), NEW d, d = Items(c), NEW style,
         NEW T, T = File!Text(c, style)
  PROVE  \E s, e : LaidTo(T, d, Len(d), s, e)
<1>1. /\ Len(c) \in Nat /\ Len(d) = Len(c) + 1 /\ d[Len(c) + 1] = File!End
      /\ \A j \in 1 .. Len(c) + 1 : d[j] \in File!Item
      /\ File!End.kind = "end"
  BY ItemsAre DEF File!End
<1>2. PICK k, W, B : k = Len(c) /\ W = File!Written(c, style) /\ B = W[k]
  OBVIOUS
<1>3. /\ k \in Nat /\ k \in 0 .. Len(c) /\ d[k + 1] = File!End /\ Len(d) = k + 1
      /\ \A j \in 1 .. k + 1 : d[j] \in File!Item
      /\ \A j \in 1 .. k : d[j] \in File!Item
  BY <1>1, <1>2
<1>4. IF style = "window" THEN Attained(B, d, k, TRUE) ELSE Attained(B, d, k, FALSE)
  BY <1>2, <1>3, WritingIs
<1>5. ASSUME NEW D, Laid(D, d, k + 1), NEW r \in Seq(Ink), T = D \o r
      PROVE  \E s, e : LaidTo(T, d, Len(d), s, e)
  <2>1. PICK s, e : LaidAs(D, d, k + 1, s, e)
    BY <1>5 DEF Laid
  <2>2. D \in Seq(Ink) /\ k + 1 \in Nat
    BY <1>3, <2>1 DEF LaidAs, LaidTo
  <2>3. /\ D \o r \in Seq(Ink) /\ Len(D) \in Nat /\ Len(r) \in Nat
        /\ Len(D \o r) = Len(D) + Len(r)
        /\ \A a \in 1 .. Len(D) : (D \o r)[a] = D[a]
    BY ONLY <2>2, r \in Seq(Ink), ConcatIs
  <2>4. T \in Seq(Ink) /\ Len(D) <= Len(T) /\ \A a \in 1 .. Len(D) : T[a] = D[a]
    BY ONLY <1>5, <2>3
  <2>5. LaidTo(T, d, k + 1, s, e)
    BY <1>3, <2>1, <2>2, <2>4, Longer
  <2>6. QED BY <1>3, <2>5
<1>6. CASE style = "window"
  <2>1. T = File!GenJson(B, d[k + 1]) /\ Attained(B, d, k, TRUE)
    BY <1>2, <1>3, <1>4, <1>6 DEF File!Text
  <2>2. Laid(T, d, k + 1)
    BY <1>3, <2>1, WindowWrites
  <2>3. T \in Seq(Ink)
    <3>1. k + 1 \in Nat
      BY <1>3
    <3>2. QED BY <1>3, <2>2, <3>1, EndsWith
  <2>4. T = T \o <<>> /\ <<>> \in Seq(Ink)
    BY <2>3, ConcatEmptySeq, EmptySeq
  <2>5. QED BY <1>5, <2>2, <2>4
<1>7. CASE style # "window"
  <2>1. Attained(B, d, k, FALSE)
    BY <1>4, <1>7
  <2>2. k > 0 /\ d[k].kind # "object"
    BY <1>1, <1>3, NotEmpty
  <2>3. PICK C, u : /\ Laid(C, d, k) /\ Hanging(u, d, k, FALSE) /\ B = C \o u
                    /\ C \in Seq(Ink) /\ Len(C) >= 1 /\ u \in Seq(Ink)
    <3>1. k \in Nat /\ \A j \in 1 .. k : d[j] \in File!Item
      BY <1>3
    <3>2. QED BY ONLY <2>1, <3>1, Parted
  <2>4. File!RemoveComma(B) = C
    <3>1. u \in {<<File!Comma>>, <<File!Comma, File!NewLine>>}
      BY <2>2, <2>3 DEF Hanging
    <3>2. QED BY <2>3, <3>1, CommaRemoved
  <2>5. PICK n, p, np, v, z : /\ n = <<File!NewLine>> /\ p = <<File!RBrace>> /\ np = <<File!NewLine, File!RBrace>>
                              /\ v = <<File!NewLine, File!RBrace, File!NewLine>> /\ z = <<>>
    OBVIOUS
  <2>6. /\ n \in Seq(Ink) /\ p \in Seq(Ink) /\ np \in Seq(Ink) /\ z \in Seq(Ink)
        /\ np = n \o p /\ v = np \o n
    <3>1. File!NewLine \in Ink /\ File!RBrace \in Ink
      BY InInk, Characters
    <3>2. QED BY <2>5, <3>1, Glue
  <2>7. T = C \o v \/ T = C \o File!Front(v)
    <3>1. T = File!Cat(C, v, style = "compact")
      BY <1>2, <1>7, <2>4, <2>5 DEF File!Text
    <3>2. QED BY <3>1, CatIs
  <2>8. File!Front(v) = np
    <3>1. File!NewLine \in Ink
      BY InInk, Characters
    <3>2. v = np \o <<File!NewLine>> /\ np \in Seq(Ink)
      BY ONLY <2>5, <2>6
    <3>3. QED BY ONLY <3>1, <3>2, FrontOf
  <2>9. PICK A : A = (C \o n) \o p
    OBVIOUS
  <2>10. Laid(A, d, k + 1)
    <3>1. Laid((C \o n) \o Core(d[k + 1]), d, k + 1)
      <4>1. ~Apart(d, k + 1)
        BY <1>1, <1>3 DEF Apart
      <4>2. GapIs(n, d, k + 1)
        BY <2>5, <4>1, GapBefore
      <4>3. QED BY <1>3, <2>3, <4>2, Grown
    <3>2. Core(d[k + 1]) = p
      BY <1>1, <1>3, <2>5, CoreKinds
    <3>3. QED BY <2>9, <3>1, <3>2
  <2>11. C \o np = A
    <3>1. C \in Seq(Ink) /\ n \in Seq(Ink) /\ p \in Seq(Ink)
      BY <2>3, <2>6
    <3>2. (C \o n) \o p = C \o (n \o p)
      <4>1. Associates(C, n, p)
        BY ONLY <3>1, ConcatAssociates
      <4>2. QED BY ONLY <4>1 DEF Associates
    <3>3. QED BY <2>6, <2>9, <3>2
  <2>12. CASE T = C \o v
    <3>1. C \in Seq(Ink) /\ np \in Seq(Ink) /\ n \in Seq(Ink)
      BY <2>3, <2>6
    <3>2. (C \o np) \o n = C \o (np \o n)
      <4>1. Associates(C, np, n)
        BY ONLY <3>1, ConcatAssociates
      <4>2. QED BY ONLY <4>1 DEF Associates
    <3>3. T = A \o n
      BY <2>6, <2>11, <2>12, <3>2
    <3>4. QED BY <1>5, <2>6, <2>10, <3>3
  <2>13. CASE T = C \o File!Front(v)
    <3>1. T = A
      BY <2>8, <2>11, <2>13
    <3>2. A \in Seq(Ink)
      <4>1. k + 1 \in Nat
        BY <1>3
      <4>2. QED BY <1>3, <2>10, <4>1, EndsWith
    <3>3. T = A \o <<>> /\ <<>> \in Seq(Ink)
      BY <3>1, <3>2, ConcatEmptySeq, EmptySeq
    <3>4. QED BY <1>5, <2>10, <3>3
  <2>14. QED BY <2>7, <2>12, <2>13
<1>8. QED BY <1>6, <1>7

\* The text is laid out as the configuration, and the program has got somewhere in both.
Read(c, x, o, a, p, t) ==
  LET d == Items(c) IN
  \E s, e : LaidTo(x, d, Len(d), s, e) /\ Progress(c, s, e, o, a, p, t)

LoadOf(c, x, o, a, p, t) ==
  /\ File!IsTree(c)
  /\ File!Fits(c) => Read(c, x, o, a, p, t)

LoadInv == LoadOf(config, text, objs, act, pos, token)

\* Nothing is read.
LEMMA LoadInit == File!Init => LoadInv
<1> SUFFICES ASSUME File!Init PROVE LoadInv
  OBVIOUS
<1>1. File!IsTree(config)
  BY MCLoadAssumption DEF File!Init, File!JsonAssumption
<1>2. ASSUME File!Fits(config) PROVE Read(config, text, objs, act, pos, token)
  <2>1. PICK style : text = File!Text(config, style)
    BY DEF File!Init
  <2>2. PICK c, d : c = config /\ d = Items(c)
    OBVIOUS
  <2>3. File!IsTree(c) /\ File!Fits(c) /\ text = File!Text(c, style)
    BY <1>1, <1>2, <2>1, <2>2
  <2>4. PICK s, e : LaidTo(text, d, Len(d), s, e)
    BY ONLY <2>2, <2>3, TextIs
  <2>5. Progress(c, s, e, objs, act, pos, token)
    BY DEF File!Init, Progress
  <2>6. QED BY <2>2, <2>4, <2>5 DEF Read
<1>3. QED BY <1>1, <1>2 DEF LoadInv, LoadOf

\* Every step goes on, one item at a time.
LEMMA LoadStep ==
  ASSUME NEW c, c = config, File!IsTree(c), File!Fits(c), NEW d, d = Items(c), NEW s, NEW e,
         LaidTo(text, d, Len(d), s, e), Progress(c, s, e, objs, act, pos, token), File!Next
  PROVE  Progress(c, s, e, objs', act', pos', token')
<1>1. CASE File!Load
  <2>1. act = "load"
    BY <1>1 DEF File!Load
  <2>2. pos = 1
    BY <2>1 DEF Progress, Behindhand
  <2>3. QED BY <1>1, <2>2, LoadGoesOn
<1>2. CASE ~File!Load
  <2>1. act \in {"member", "value", "next"}
    BY <1>2 DEF File!Next, File!ReadName, File!ReadValue, File!Open, File!Close, File!Separator, File!TooMany
  <2>2. PICK k, b : Behindhand(c, s, e, k, b, objs, act, pos, token)
    BY <2>1 DEF Progress
  <2>3. CASE File!ReadName
    BY <2>2, <2>3, ReadNameGoesOn
  <2>4. CASE File!ReadValue
    BY <2>2, <2>4, ReadValueGoesOn
  <2>5. CASE File!Open
    BY <2>2, <2>5, OpenGoesOn
  <2>6. CASE File!Close
    BY <2>2, <2>6, CloseGoesOn
  <2>7. CASE File!Separator
    BY <2>2, <2>7, SeparatorGoesOn
  <2>8. ~File!TooMany
    BY <2>2, NeverTooMany
  <2>9. QED BY <1>2, <2>3, <2>4, <2>5, <2>6, <2>7, <2>8 DEF File!Next
<1>3. QED BY <1>1, <1>2

\* The configuration and its text stay.
LEMMA LoadNext == LoadInv /\ [File!Next]_(File!vars) => LoadInv'
<1> SUFFICES ASSUME LoadInv, [File!Next]_(File!vars) PROVE LoadInv'
  OBVIOUS
<1>1. CASE UNCHANGED File!vars
  BY <1>1 DEF File!vars, LoadInv
<1>2. CASE File!Next
  <2>1. config' = config /\ text' = text
    BY <1>2 DEF File!Next, File!Load, File!ReadName, File!ReadValue, File!Open, File!Close, File!Separator,
                File!TooMany
  <2>2. PICK c, d, x, o, a, p, t : /\ c = config /\ d = Items(c) /\ x = text
                                   /\ o = objs' /\ a = act' /\ p = pos' /\ t = token'
    OBVIOUS
  <2>3. File!IsTree(c) /\ (File!Fits(c) => Read(c, x, objs, act, pos, token))
    BY <2>2 DEF LoadInv, LoadOf
  <2>4. ASSUME File!Fits(c) PROVE Read(c, x, o, a, p, t)
    <3>1. PICK s, e : LaidTo(text, d, Len(d), s, e) /\ Progress(c, s, e, objs, act, pos, token)
      BY <2>2, <2>3, <2>4 DEF Read
    <3>2. Progress(c, s, e, objs', act', pos', token')
      BY <1>2, <2>2, <2>3, <2>4, <3>1, LoadStep
    <3>3. QED BY <2>2, <3>1, <3>2 DEF Read
  <2>5. LoadOf(c, x, o, a, p, t)
    BY <2>3, <2>4 DEF LoadOf
  <2>6. LoadInv' = LoadOf(config', text', objs', act', pos', token')
    BY DEF LoadInv
  <2>7. QED BY <2>1, <2>2, <2>5, <2>6
<1>3. QED BY <1>1, <1>2

\* What the window or the program wrote, in any of the three styles, is what json_load reads,
\* whatever names and values there are, how many of them and how deep the tree, when every
\* object has a member and none has more than json_decode reads.
THEOREM SavedIsLoadedHolds == File!Spec => []SavedIsLoaded
<1>1. LoadInv => SavedIsLoaded
  <2> SUFFICES ASSUME LoadInv, act \in {"loaded", "exit"}, File!Fits(config)
               PROVE  act = "loaded" /\ File!Top.members = config
    BY DEF SavedIsLoaded, File!SavedIsLoaded
  <2>1. PICK s, e : Progress(config, s, e, objs, act, pos, token)
    BY DEF LoadInv, LoadOf, Read
  <2>2. ~\E k, b : Behindhand(config, s, e, k, b, objs, act, pos, token)
    BY DEF Behindhand
  <2>3. QED BY <2>1, <2>2 DEF Progress, File!Top
<1>2. QED BY <1>1, LoadInit, LoadNext, PTL DEF File!Spec

-----------------------------------------------------------------------------
(* The thread pool.                                                         *)

USE ConstantsAssumption

\* The pool has at least one worker, and Wild is none of them.
LEMMA WorkersExist == WorkerMax \in Nat \ {0} /\ Wild \notin Workers
BY DEF WorkerMax, Workers, Wild

\* What the type of the list says of one slot (server->j).
LEMMA SlotType ==
  ASSUME TypeOK
  PROVE  /\ Len(jobs) \in Nat /\ DOMAIN jobs = 1 .. Len(jobs)
         /\ \A k \in DOMAIN jobs : jobs[k] \in Job
BY LenProperties, ElementOfSeq DEF TypeOK

\* server2_add_job fills one unused or new slot and leaves the others alone.
LEMMA StoreSlots ==
  ASSUME TypeOK, NEW j \in Job, Store(j)
  PROVE  /\ jobs' \in Seq(Job)
         /\ \E n \in DOMAIN jobs' :
              /\ DOMAIN jobs' = DOMAIN jobs \cup {n}
              /\ n \in DOMAIN jobs => jobs[n].status = "JOB_NONE"
              /\ jobs'[n] = j
              /\ \A k \in DOMAIN jobs \ {n} : jobs'[k] = jobs[k]
<1>1. CASE FreeSlots = {}
  <2>1. jobs' = Append(jobs, j)
    BY <1>1 DEF Store
  <2>2. /\ jobs' \in Seq(Job) /\ Len(jobs') = Len(jobs) + 1
        /\ jobs'[Len(jobs) + 1] = j
        /\ \A k \in 1 .. Len(jobs) : jobs'[k] = jobs[k]
    BY <2>1, AppendProperties DEF TypeOK
  <2>3. DOMAIN jobs' = 1 .. Len(jobs')
    BY <2>2, LenProperties
  <2>4. QED BY <2>2, <2>3, SlotType
<1>2. CASE FreeSlots # {}
  <2>1. PICK n \in FreeSlots : jobs' = [jobs EXCEPT ![n] = j]
    BY <1>2 DEF Store
  <2>2. n \in 1 .. Len(jobs) /\ jobs[n].status = "JOB_NONE"
    BY <2>1, SlotType DEF FreeSlots
  <2>3. jobs' \in Seq(Job)
    BY <2>1, <2>2, ExceptSeq DEF TypeOK
  <2>4. QED BY <2>1, <2>2, <2>3, SlotType
<1>3. QED BY <1>1, <1>2

\* Rewriting every slot with a job keeps the list a list of jobs.
LEMMA MapSlots ==
  ASSUME TypeOK, NEW f, DOMAIN f = DOMAIN jobs,
         f = [k \in DOMAIN jobs |-> f[k]], \A k \in DOMAIN jobs : f[k] \in Job
  PROVE  f \in Seq(Job)
<1>1. f \in [1 .. Len(jobs) -> Job]
  BY SlotType
<1>2. QED BY <1>1, SlotType, SeqDef

THEOREM InvInit == Init => Inv
<1> SUFFICES ASSUME Init PROVE Inv
  OBVIOUS
<1>1. PICK w \in Workers \cup {Wild} : jobs = <<JobInit(w)>>
  BY DEF Init
<1>2. JobInit(w) \in Job
  BY DEF JobInit, Job, JobStatus
<1>3. jobs \in Seq(Job) /\ DOMAIN jobs = {1} /\ jobs[1].status = "JOB_NONE"
  BY <1>1, <1>2 DEF JobInit
<1>4. TypeOK
  BY <1>3, WorkersExist DEF Init, TypeOK, ThreadStep, MainStep
<1>5. BatchComplete /\ SlotsHoldJobs /\ UnfinishedAreCurrent /\ NotRunIsListed
  BY <1>3 DEF Init, BatchComplete, SlotsHoldJobs, UnfinishedAreCurrent, Unfinished,
              NotRunIsListed
<1>6. IdsAreNew /\ LiveOwnsSlot
  BY DEF Init, IdsAreNew, LiveOwnsSlot, Live
<1>7. QED BY <1>4, <1>5, <1>6 DEF Inv

-----------------------------------------------------------------------------
(* Each action keeps the invariant.                                         *)

\* A new batch id is newer than any job and any closed batch.
LEMMA InvGetNextBatchId ==
  ASSUME Inv, GetNextBatchId PROVE Inv'
<1> USE DEF Inv, GetNextBatchId, poolVars, threadVars, mainVars, histVars
<1>1. TypeOK'
  BY DEF TypeOK, ThreadStep, MainStep
<1>2. BatchComplete'
  BY DEF BatchComplete
<1>3. SlotsHoldJobs'
  BY DEF SlotsHoldJobs
<1>4. UnfinishedAreCurrent'
  BY DEF UnfinishedAreCurrent, Unfinished
<1>5. NotRunIsListed'
  BY DEF NotRunIsListed, Unfinished
<1>6. IdsAreNew'
  BY DEF JobIds, IdsAreNew, TypeOK
<1>7. LiveOwnsSlot'
  BY DEF LiveOwnsSlot, Live
<1>8. QED BY <1>1, <1>2, <1>3, <1>4, <1>5, <1>6, <1>7

\* Entering server2_run_until_done changes no job.
LEMMA InvRunUntilDone ==
  ASSUME Inv, RunUntilDone PROVE Inv'
<1> USE DEF Inv, RunUntilDone, poolVars, threadVars, mainVars, histVars
<1>1. TypeOK'
  BY WorkersExist DEF TypeOK, ThreadStep, MainStep
<1>2. BatchComplete'
  BY DEF BatchComplete
<1>3. SlotsHoldJobs'
  BY DEF SlotsHoldJobs
<1>4. UnfinishedAreCurrent'
  BY DEF UnfinishedAreCurrent, Unfinished
<1>5. NotRunIsListed'
  BY DEF NotRunIsListed, Unfinished
<1>6. IdsAreNew'
  BY DEF IdsAreNew, TypeOK
<1>7. LiveOwnsSlot'
  BY DEF LiveOwnsSlot, Live
<1>8. QED BY <1>1, <1>2, <1>3, <1>4, <1>5, <1>6, <1>7

\* A join forgets a thread that has exited, never a live one.
LEMMA InvCleanWorker ==
  ASSUME Inv, CleanWorker PROVE Inv'
<1>a. /\ pc = "clean" /\ nw' \in 1 .. WorkerMax + 1
      /\ thread' \in [Workers -> ThreadStep]
      /\ \A w \in Workers : Live(w)' => Live(w) /\ thread'[w] = thread[w]
      /\ UNCHANGED <<poolVars, slot, ptr, pc, todo, histVars>>
  <2>1. nw \in Workers /\ nw + 1 \in 1 .. WorkerMax + 1
    BY WorkersExist DEF CleanWorker, Inv, TypeOK, Workers
  <2>2. thread' = thread \/ thread' = [thread EXCEPT ![nw] = "null"]
    BY DEF CleanWorker
  <2>3. QED BY <2>1, <2>2 DEF CleanWorker, Inv, TypeOK, ThreadStep, Live
<1> USE DEF Inv, poolVars, threadVars, mainVars, histVars
<1>1. TypeOK'
  BY <1>a DEF TypeOK, ThreadStep, MainStep
<1>2. BatchComplete'
  BY <1>a DEF BatchComplete
<1>3. SlotsHoldJobs'
  BY <1>a DEF SlotsHoldJobs
<1>4. UnfinishedAreCurrent'
  BY <1>a DEF UnfinishedAreCurrent, Unfinished
<1>5. NotRunIsListed'
  BY <1>a DEF NotRunIsListed, Unfinished
<1>6. IdsAreNew'
  BY <1>a DEF IdsAreNew, TypeOK
<1>7. LiveOwnsSlot'
  BY <1>a DEF LiveOwnsSlot, Live
<1>8. QED BY <1>1, <1>2, <1>3, <1>4, <1>5, <1>6, <1>7

\* With no job left every job of the batch has run.
LEMMA InvCheckJobsLeft ==
  ASSUME Inv, CheckJobsLeft PROVE Inv'
<1>a. /\ pc = "clean" /\ pc' \in {"free", "run"}
      /\ UNCHANGED <<poolVars, threadVars, todo, nw, submitted, ran>>
  BY DEF CheckJobsLeft
<1>b. /\ batch_id \in 1 .. MaxBatch /\ returned' \subseteq returned \cup {batch_id}
      /\ pc' = "run" => returned' = returned
      /\ pc' = "free" => batch_id \in returned'
  BY <1>a DEF CheckJobsLeft, Inv, IdsAreNew, TypeOK
<1>c. todo = 0
  BY <1>a DEF Inv, IdsAreNew, TypeOK
<1>d. batch_id \in returned' => /\ \A k \in DOMAIN jobs : jobs[k].status \notin Unfinished
                               /\ \A i \in submitted : ran[i] = 1
  <2>1. SUFFICES ASSUME batch_id \in returned'
        PROVE  \A k \in DOMAIN jobs : jobs[k].status \notin Unfinished
    BY DEF Inv, NotRunIsListed
  <2>2. JobsLeft = {}
    BY <1>a, <2>1 DEF CheckJobsLeft, Inv, IdsAreNew
  <2>3. QED BY <2>2 DEF JobsLeft, Inv, UnfinishedAreCurrent, Unfinished
<1> USE DEF Inv, poolVars, threadVars, mainVars, histVars
<1>1. TypeOK'
  BY <1>a, <1>b DEF TypeOK, ThreadStep, MainStep
<1>2. BatchComplete'
  BY <1>a, <1>b, <1>d DEF BatchComplete
<1>3. SlotsHoldJobs'
  BY <1>a DEF SlotsHoldJobs
<1>4. UnfinishedAreCurrent'
  BY <1>a, <1>b, <1>d DEF UnfinishedAreCurrent, Unfinished
<1>5. NotRunIsListed'
  BY <1>a DEF NotRunIsListed, Unfinished
<1>6. IdsAreNew'
  BY <1>a, <1>b, <1>c DEF IdsAreNew, TypeOK
<1>7. LiveOwnsSlot'
  BY <1>a DEF LiveOwnsSlot, Live
<1>8. QED BY <1>1, <1>2, <1>3, <1>4, <1>5, <1>6, <1>7

\* The end of the walk changes no job.
LEMMA InvJobsRunReturns ==
  ASSUME Inv, JobsRunReturns PROVE Inv'
<1> USE DEF Inv, JobsRunReturns, poolVars, threadVars, mainVars, histVars
<1>1. TypeOK'
  BY WorkersExist DEF TypeOK, ThreadStep, MainStep
<1>2. BatchComplete'
  BY DEF BatchComplete
<1>3. SlotsHoldJobs'
  BY DEF SlotsHoldJobs
<1>4. UnfinishedAreCurrent'
  BY DEF UnfinishedAreCurrent, Unfinished
<1>5. NotRunIsListed'
  BY DEF NotRunIsListed, Unfinished
<1>6. IdsAreNew'
  BY DEF IdsAreNew, TypeOK
<1>7. LiveOwnsSlot'
  BY DEF LiveOwnsSlot, Live
<1>8. QED BY <1>1, <1>2, <1>3, <1>4, <1>5, <1>6, <1>7

\* When the pool is freed no thread uses its slot any more.
LEMMA InvFree ==
  ASSUME Inv, Free PROVE Inv'
<1> USE DEF Inv, Free, poolVars, threadVars, mainVars, histVars
<1>1. TypeOK'
  BY DEF TypeOK, ThreadStep, MainStep
<1>2. BatchComplete'
  BY DEF BatchComplete
<1>3. SlotsHoldJobs'
  BY DEF SlotsHoldJobs
<1>4. UnfinishedAreCurrent'
  BY DEF UnfinishedAreCurrent, Unfinished
<1>5. NotRunIsListed'
  BY DEF UnfinishedAreCurrent, NotRunIsListed, Unfinished
<1>6. IdsAreNew'
  BY DEF IdsAreNew, TypeOK
<1>7. LiveOwnsSlot'
  BY DEF UnfinishedAreCurrent, Unfinished, LiveOwnsSlot, Live
<1>8. QED BY <1>1, <1>2, <1>3, <1>4, <1>5, <1>6, <1>7

\* Freeing touches finished jobs only.
LEMMA InvFreeFinishedJobs ==
  ASSUME Inv, FreeFinishedJobs PROVE Inv'
<1>0. jobs' \in Seq(Job)
  <2>1. \A k \in DOMAIN jobs : jobs[k] \in Job /\ JobInit(jobs[k].w) \in Job
    BY SlotType DEF Inv, Job, JobInit, JobStatus
  <2>2. QED BY <2>1, MapSlots DEF Inv, FreeFinishedJobs
<1> USE DEF Inv, FreeFinishedJobs, Freeable, poolVars, threadVars, mainVars, histVars
<1>1. TypeOK'
  BY <1>0  DEF TypeOK, ThreadStep, MainStep
<1>2. BatchComplete'
  BY DEF BatchComplete
<1>3. SlotsHoldJobs'
  BY DEF JobInit, SlotsHoldJobs
<1>4. UnfinishedAreCurrent'
  BY DEF JobInit, UnfinishedAreCurrent, Unfinished
<1>5. NotRunIsListed'
  BY DEF JobInit, NotRunIsListed, Unfinished
<1>6. IdsAreNew'
  BY DEF IdsAreNew, TypeOK
<1>7. LiveOwnsSlot'
  BY DEF JobInit, LiveOwnsSlot, Live
<1>8. QED BY <1>1, <1>2, <1>3, <1>4, <1>5, <1>6, <1>7

\* The worker number a thread reads is its own.
LEMMA InvThreadStart ==
  ASSUME Inv, NEW w \in Workers, ThreadStart(w) PROVE Inv'
<1> USE DEF Inv, ThreadStart, poolVars, threadVars, mainVars, histVars
<1>1. TypeOK'
  BY DEF LiveOwnsSlot, Live, TypeOK, ThreadStep, MainStep
<1>2. BatchComplete'
  BY DEF BatchComplete
<1>3. SlotsHoldJobs'
  BY DEF SlotsHoldJobs
<1>4. UnfinishedAreCurrent'
  BY DEF UnfinishedAreCurrent, Unfinished
<1>5. NotRunIsListed'
  BY DEF NotRunIsListed, Unfinished
<1>6. IdsAreNew'
  BY DEF IdsAreNew, TypeOK
<1>7. LiveOwnsSlot'
  BY DEF TypeOK, LiveOwnsSlot, Live
<1>8. QED BY <1>1, <1>2, <1>3, <1>4, <1>5, <1>6, <1>7

\* What j->status=JOB_FINISHED does to the list: it finishes the thread's own slot.
LEMMA ThreadStoreStatusSlots ==
  ASSUME Inv, NEW w \in Workers, ThreadStoreStatus(w)
  PROVE  /\ slot[w] \in DOMAIN jobs
         /\ jobs[slot[w]].status = "JOB_RUNNING" /\ jobs[slot[w]].w = w
         /\ jobs[slot[w]].id \in submitted /\ jobs[slot[w]].id \in JobIds
         /\ ran[jobs[slot[w]].id] = 0
         /\ jobs' \in Seq(Job) /\ DOMAIN jobs' = DOMAIN jobs
         /\ \A l \in DOMAIN jobs :
              /\ jobs'[l].id = jobs[l].id /\ jobs'[l].batch_id = jobs[l].batch_id
              /\ jobs'[l].w = jobs[l].w
              /\ jobs'[l].status = IF l = slot[w] THEN "JOB_FINISHED" ELSE jobs[l].status
<1> DEFINE k == slot[w]
             i == jobs[k].id
<1>a. thread[w] = "compute"
  BY DEF ThreadStoreStatus
<1>b. /\ k \in DOMAIN jobs /\ jobs[k].status = "JOB_RUNNING" /\ jobs[k].w = w
      /\ i \in submitted /\ i \in JobIds /\ ran[i] = 0
  BY <1>a DEF Inv, LiveOwnsSlot, Live, SlotsHoldJobs, UnfinishedAreCurrent, Unfinished, TypeOK
<1>c. /\ jobs' \in Seq(Job) /\ DOMAIN jobs' = DOMAIN jobs
      /\ \A l \in DOMAIN jobs :
           /\ jobs'[l].id = jobs[l].id /\ jobs'[l].batch_id = jobs[l].batch_id
           /\ jobs'[l].w = jobs[l].w
           /\ jobs'[l].status = IF l = k THEN "JOB_FINISHED" ELSE jobs[l].status
  <2>1. jobs' = [jobs EXCEPT ![k] = [jobs[k] EXCEPT !.status = "JOB_FINISHED"]]
    BY DEF ThreadStoreStatus
  <2>2. [jobs[k] EXCEPT !.status = "JOB_FINISHED"] \in Job
    BY <1>b, SlotType DEF Inv, Job, JobStatus
  <2>3. k \in 1 .. Len(jobs) /\ jobs \in Seq(Job)
    BY <1>b, SlotType DEF Inv, TypeOK
  <2>4. jobs' \in Seq(Job) /\ Len(jobs') = Len(jobs) /\ DOMAIN jobs' = DOMAIN jobs
    BY <2>1, <2>2, <2>3, ExceptSeq
  <2>5. \A l \in DOMAIN jobs : jobs[l] \in Job
    BY SlotType DEF Inv
  <2>6. QED BY <1>b, <2>1, <2>4, <2>5 DEF Job
<1>d. QED BY <1>b, <1>c

\* Finishing a job marks the thread's own slot and counts the job once.
LEMMA InvThreadStoreStatus ==
  ASSUME Inv, NEW w \in Workers, ThreadStoreStatus(w) PROVE Inv'
<1> DEFINE k == slot[w]
             i == jobs[k].id
<1>a. /\ pc # "crashed" /\ thread[w] = "compute" /\ thread' = [thread EXCEPT ![w] = "finishing"]
      /\ \E p \in {jobs[k].w, Unread} : ptr' = [ptr EXCEPT ![w] = p]
      /\ UNCHANGED <<batch_id, working, slot, mainVars, submitted, returned>>
  BY DEF ThreadStoreStatus
<1>b. /\ k \in DOMAIN jobs /\ jobs[k].status = "JOB_RUNNING" /\ jobs[k].w = w
      /\ i \in submitted /\ i \in JobIds /\ ran[i] = 0
  BY ThreadStoreStatusSlots
<1>c. /\ jobs' \in Seq(Job) /\ DOMAIN jobs' = DOMAIN jobs
      /\ \A l \in DOMAIN jobs :
           /\ jobs'[l].id = jobs[l].id /\ jobs'[l].batch_id = jobs[l].batch_id
           /\ jobs'[l].w = jobs[l].w
           /\ jobs'[l].status = IF l = k THEN "JOB_FINISHED" ELSE jobs[l].status
  BY ThreadStoreStatusSlots
<1>d. /\ ran' \in [JobIds -> Nat]
      /\ \A x \in JobIds : ran'[x] = IF x = i THEN 1 ELSE ran[x]
  BY <1>b DEF ThreadStoreStatus, Inv, TypeOK
<1>e. \A l \in DOMAIN jobs : jobs[l].status # "JOB_NONE" =>
        /\ jobs[l].id \in submitted /\ jobs[l].id \in JobIds
        /\ l # k => jobs[l].id # i
  BY <1>b DEF Inv, TypeOK, SlotsHoldJobs
<1> USE DEF Inv, poolVars, threadVars, mainVars, histVars
<1>1. TypeOK'
  BY <1>a, <1>b, <1>c, <1>d, SlotType DEF TypeOK, ThreadStep, MainStep
<1>2. BatchComplete'
  BY <1>a, <1>b, <1>d DEF TypeOK, BatchComplete
<1>3. SlotsHoldJobs'
  <2>1. SlotsHoldJobs /\ submitted' = submitted
    BY <1>a
  <2>2. \A l \in DOMAIN jobs : jobs'[l].status # "JOB_NONE" => jobs[l].status # "JOB_NONE"
    BY ONLY <1>b, <1>c
  <2>3. QED BY ONLY <1>c, <2>1, <2>2 DEF SlotsHoldJobs
<1>4. UnfinishedAreCurrent'
  BY <1>a, <1>b, <1>c, <1>d, <1>e DEF UnfinishedAreCurrent, Unfinished
<1>5. NotRunIsListed'
  <2>1. \A x \in JobIds \ submitted' : ran'[x] = 0
    BY <1>a, <1>b, <1>d DEF NotRunIsListed
  <2>2. ASSUME NEW x \in submitted', ran'[x] # 1
        PROVE  ran'[x] = 0 /\ \E l \in DOMAIN jobs' :
                 jobs'[l].id = x /\ jobs'[l].status \in Unfinished
    <3>1. x \in submitted /\ x \in JobIds /\ x # i /\ ran'[x] = ran[x]
      BY <1>a, <1>d, <2>2 DEF TypeOK
    <3>2. PICK l \in DOMAIN jobs : jobs[l].id = x /\ jobs[l].status \in Unfinished
      BY <2>2, <3>1 DEF NotRunIsListed
    <3>3. l # k
      BY <3>1, <3>2
    <3>4. QED BY <1>c, <2>2, <3>1, <3>2, <3>3 DEF NotRunIsListed
  <2>3. QED BY <2>1, <2>2 DEF NotRunIsListed
<1>6. IdsAreNew'
  BY <1>a DEF IdsAreNew, TypeOK
<1>7. LiveOwnsSlot'
  BY <1>a, <1>b, <1>c DEF TypeOK, LiveOwnsSlot, Live
<1>8. QED BY <1>1, <1>2, <1>3, <1>4, <1>5, <1>6, <1>7

\* Wherever the last store of a thread lands, no job notices.
LEMMA InvThreadStoreWorking ==
  ASSUME Inv, NEW w \in Workers, ThreadStoreWorking(w) PROVE Inv'
<1> USE DEF Inv, ThreadStoreWorking, poolVars, threadVars, mainVars, histVars
<1>1. TypeOK'
  BY WorkersExist DEF LoadedW, TypeOK, ThreadStep, MainStep
<1>2. BatchComplete'
  BY DEF BatchComplete
<1>3. SlotsHoldJobs'
  BY DEF SlotsHoldJobs
<1>4. UnfinishedAreCurrent'
  BY DEF UnfinishedAreCurrent, Unfinished
<1>5. NotRunIsListed'
  BY DEF NotRunIsListed, Unfinished
<1>6. IdsAreNew'
  BY DEF IdsAreNew, TypeOK
<1>7. LiveOwnsSlot'
  BY DEF TypeOK, LiveOwnsSlot, Live
<1>8. QED BY <1>1, <1>2, <1>3, <1>4, <1>5, <1>6, <1>7

\* What server2_add_job does to the list: the new job waits in one slot that
\* was unused, or is new.
LEMMA AddJobSlots ==
  ASSUME Inv, AddJob
  PROVE  /\ <<batch_id, todo>> \in JobIds /\ <<batch_id, todo>> \notin submitted
         /\ jobs' \in Seq(Job)
         /\ \E n \in DOMAIN jobs' :
              /\ DOMAIN jobs' = DOMAIN jobs \cup {n}
              /\ n \in DOMAIN jobs => jobs[n].status = "JOB_NONE"
              /\ jobs'[n].status = "JOB_WAIT" /\ jobs'[n].batch_id = batch_id
              /\ jobs'[n].id = <<batch_id, todo>>
              /\ \A k \in DOMAIN jobs \ {n} : jobs'[k] = jobs[k]
<1> DEFINE i == <<batch_id, todo>>
<1>1. PICK w \in Workers \cup {Wild} :
        Store([status |-> "JOB_WAIT", batch_id |-> batch_id, id |-> i, w |-> w])
  BY DEF AddJob
<1> DEFINE j == [status |-> "JOB_WAIT", batch_id |-> batch_id, id |-> i, w |-> w]
<1>2. /\ pc = "add" /\ todo > 0 /\ todo' = todo - 1
      /\ submitted' = submitted \cup {i}
      /\ UNCHANGED <<batch_id, working, threadVars, pc, nw, ran, returned>>
  BY DEF AddJob
<1>3. i \in JobIds /\ i \notin submitted /\ i[1] = batch_id /\ i[2] = todo
  BY <1>2 DEF Inv, TypeOK, IdsAreNew, JobIds
<1>4. j \in Job
  BY <1>1, <1>3 DEF Inv, TypeOK, Job, JobStatus
<1>5. /\ jobs' \in Seq(Job)
      /\ \E n \in DOMAIN jobs' :
           /\ DOMAIN jobs' = DOMAIN jobs \cup {n}
           /\ n \in DOMAIN jobs => jobs[n].status = "JOB_NONE"
           /\ jobs'[n] = j
           /\ \A k \in DOMAIN jobs \ {n} : jobs'[k] = jobs[k]
  BY <1>1, <1>4, StoreSlots DEF Inv
<1>6. QED BY <1>3, <1>5

\* A new job takes a slot no live thread uses.
LEMMA InvAddJob ==
  ASSUME Inv, AddJob PROVE Inv'
<1> DEFINE i == <<batch_id, todo>>
<1>2. /\ pc = "add" /\ todo > 0 /\ todo' = todo - 1
      /\ submitted' = submitted \cup {i}
      /\ UNCHANGED <<batch_id, working, threadVars, pc, nw, ran, returned>>
  BY DEF AddJob
<1>3. i \in JobIds /\ i \notin submitted /\ i[1] = batch_id /\ i[2] = todo
  BY AddJobSlots
<1>5. jobs' \in Seq(Job)
  BY AddJobSlots
<1>6. PICK n \in DOMAIN jobs' :
        /\ DOMAIN jobs' = DOMAIN jobs \cup {n}
        /\ n \in DOMAIN jobs => jobs[n].status = "JOB_NONE"
        /\ jobs'[n].status = "JOB_WAIT" /\ jobs'[n].batch_id = batch_id
        /\ jobs'[n].id = i
        /\ \A k \in DOMAIN jobs \ {n} : jobs'[k] = jobs[k]
  BY AddJobSlots
<1>7. ran[i] = 0 /\ batch_id \notin returned
  BY <1>2, <1>3 DEF Inv, NotRunIsListed, IdsAreNew
<1> USE DEF Inv, threadVars
<1>8. TypeOK'
  <2>1. submitted' \subseteq JobIds
    BY <1>2, <1>3 DEF TypeOK
  <2>2. todo' \in 0 .. JobsPerBatch
    BY <1>2 DEF TypeOK
  <2>3. QED BY <1>2, <1>5, <2>1, <2>2 DEF TypeOK
<1>9. BatchComplete'
  BY <1>2, <1>3, <1>7 DEF BatchComplete
<1>10. SlotsHoldJobs'
  BY <1>2, <1>3, <1>6 DEF SlotsHoldJobs
<1>11. UnfinishedAreCurrent'
  BY <1>2, <1>6, <1>7 DEF UnfinishedAreCurrent, Unfinished
<1>12. NotRunIsListed'
  BY <1>2, <1>6, <1>7 DEF NotRunIsListed, Unfinished
<1>13. IdsAreNew'
  <2>1. ASSUME NEW x \in submitted'
        PROVE  x[1] <= batch_id /\ (x[1] = batch_id => x[2] > todo')
    <3>1. CASE x = i
      BY <1>2, <1>3, <3>1 DEF TypeOK
    <3>2. CASE x \in submitted
      BY <1>2, <3>2 DEF IdsAreNew, TypeOK, JobIds
    <3>3. QED BY <1>2, <2>1, <3>1, <3>2
  <2>2. QED BY <1>2, <2>1 DEF IdsAreNew, TypeOK
<1>14. LiveOwnsSlot'
  BY <1>2, <1>6 DEF LiveOwnsSlot, Live
<1>15. QED BY <1>8, <1>9, <1>10, <1>11, <1>12, <1>13, <1>14

\* What starting a job does: the first waiting slot runs, on a free worker.
LEMMA StartJobSlots ==
  ASSUME Inv, StartJob
  PROVE  \E k \in DOMAIN jobs, w \in Workers :
           /\ jobs[k].status = "JOB_WAIT" /\ thread[w] = "null"
           /\ jobs' \in Seq(Job) /\ DOMAIN jobs' = DOMAIN jobs
           /\ \A l \in DOMAIN jobs :
                /\ jobs'[l].id = jobs[l].id /\ jobs'[l].batch_id = jobs[l].batch_id
                /\ jobs'[l].w = IF l = k THEN w ELSE jobs[l].w
                /\ jobs'[l].status = IF l = k THEN "JOB_RUNNING" ELSE jobs[l].status
           /\ working' = [working EXCEPT ![w] = TRUE]
           /\ thread' = [thread EXCEPT ![w] = "start"]
           /\ slot' = [slot EXCEPT ![w] = k]
           /\ ptr' = [ptr EXCEPT ![w] = Unread]
<1>1. PICK k \in Waiting, w \in FreeWorkers :
        /\ jobs' = SetRunning(k, w)
        /\ working' = [working EXCEPT ![w] = TRUE]
        /\ thread' = [thread EXCEPT ![w] = "start"]
        /\ slot' = [slot EXCEPT ![w] = k]
        /\ ptr' = [ptr EXCEPT ![w] = Unread]
  BY DEF StartJob
<1>3. /\ k \in DOMAIN jobs /\ k \in 1 .. Len(jobs) /\ jobs[k].status = "JOB_WAIT"
      /\ w \in Workers /\ thread[w] = "null" /\ jobs[k] \in Job
  BY SlotType DEF Waiting, FreeWorkers, Inv
<1>4. /\ jobs' \in Seq(Job) /\ DOMAIN jobs' = DOMAIN jobs
      /\ \A l \in DOMAIN jobs :
           /\ jobs'[l].id = jobs[l].id /\ jobs'[l].batch_id = jobs[l].batch_id
           /\ jobs'[l].w = IF l = k THEN w ELSE jobs[l].w
           /\ jobs'[l].status = IF l = k THEN "JOB_RUNNING" ELSE jobs[l].status
  <2> DEFINE j == [jobs[k] EXCEPT !.status = "JOB_RUNNING", !.w = w]
  <2>1. jobs' = [jobs EXCEPT ![k] = j]
    BY <1>1, <1>3 DEF SetRunning, Job
  <2>2. j \in Job /\ j.status = "JOB_RUNNING" /\ j.w = w /\ j.id = jobs[k].id
        /\ j.batch_id = jobs[k].batch_id
    BY <1>3 DEF Job, JobStatus
  <2>3. jobs' \in Seq(Job) /\ Len(jobs') = Len(jobs)
    BY <1>3, <2>1, <2>2, ExceptSeq DEF Inv, TypeOK
  <2>4. QED BY <1>3, <2>1, <2>2, <2>3
<1>5. QED BY <1>1, <1>3, <1>4

\* Starting a job gives its slot to a worker without a thread.
LEMMA InvStartJob ==
  ASSUME Inv, StartJob PROVE Inv'
<1>1. PICK k \in DOMAIN jobs, w \in Workers :
        /\ jobs[k].status = "JOB_WAIT" /\ thread[w] = "null"
        /\ jobs' \in Seq(Job) /\ DOMAIN jobs' = DOMAIN jobs
        /\ \A l \in DOMAIN jobs :
             /\ jobs'[l].id = jobs[l].id /\ jobs'[l].batch_id = jobs[l].batch_id
             /\ jobs'[l].w = IF l = k THEN w ELSE jobs[l].w
             /\ jobs'[l].status = IF l = k THEN "JOB_RUNNING" ELSE jobs[l].status
        /\ working' = [working EXCEPT ![w] = TRUE]
        /\ thread' = [thread EXCEPT ![w] = "start"]
        /\ slot' = [slot EXCEPT ![w] = k]
        /\ ptr' = [ptr EXCEPT ![w] = Unread]
  BY StartJobSlots
<1>2. pc = "run" /\ UNCHANGED <<batch_id, mainVars, histVars>>
  BY DEF StartJob
<1>3. /\ k \in DOMAIN jobs /\ k \in 1 .. Len(jobs) /\ jobs[k].status = "JOB_WAIT"
      /\ w \in Workers /\ thread[w] = "null" /\ jobs[k] \in Job
  BY <1>1, SlotType DEF Inv
<1>4. /\ jobs' \in Seq(Job) /\ DOMAIN jobs' = DOMAIN jobs
      /\ \A l \in DOMAIN jobs :
           /\ jobs'[l].id = jobs[l].id /\ jobs'[l].batch_id = jobs[l].batch_id
           /\ jobs'[l].w = IF l = k THEN w ELSE jobs[l].w
           /\ jobs'[l].status = IF l = k THEN "JOB_RUNNING" ELSE jobs[l].status
  BY <1>1
<1> USE DEF Inv, mainVars, histVars
<1>5. TypeOK'
  BY <1>1, <1>2, <1>3, <1>4, SlotType DEF TypeOK, ThreadStep
<1>6. BatchComplete'
  BY <1>2 DEF BatchComplete
<1>7. SlotsHoldJobs'
  BY <1>2, <1>3, <1>4 DEF SlotsHoldJobs
<1>8. UnfinishedAreCurrent'
  BY <1>2, <1>3, <1>4 DEF UnfinishedAreCurrent, Unfinished
<1>9. NotRunIsListed'
  BY <1>2, <1>3, <1>4 DEF NotRunIsListed, Unfinished
<1>10. IdsAreNew'
  BY <1>2 DEF IdsAreNew
<1>11. LiveOwnsSlot'
  <2>1. ASSUME NEW v \in Workers, Live(v)', v # w
        PROVE  /\ slot'[v] \in DOMAIN jobs' /\ slot[v] # k
               /\ jobs'[slot'[v]].status = "JOB_RUNNING" /\ jobs'[slot'[v]].w = v
               /\ thread'[v] = "compute" => ptr'[v] = v
    <3>1. Live(v) /\ slot'[v] = slot[v] /\ ptr'[v] = ptr[v] /\ thread'[v] = thread[v]
      BY <1>1, <2>1 DEF Live, TypeOK
    <3>2. slot[v] \in DOMAIN jobs /\ slot[v] # k
      BY <1>3, <3>1 DEF LiveOwnsSlot
    <3>3. QED BY <1>4, <3>1, <3>2 DEF LiveOwnsSlot
  <2>2. /\ slot'[w] \in DOMAIN jobs' /\ thread'[w] # "compute"
        /\ jobs'[slot'[w]].status = "JOB_RUNNING" /\ jobs'[slot'[w]].w = w
    BY <1>1, <1>3, <1>4 DEF TypeOK
  <2>3. QED BY <2>1, <2>2 DEF LiveOwnsSlot
<1>12. QED BY <1>5, <1>6, <1>7, <1>8, <1>9, <1>10, <1>11

\* What running a job inside server2_jobs_run does: the first waiting slot is finished.
LEMMA RunInlineSlots ==
  ASSUME Inv, RunInline
  PROVE  \E k \in DOMAIN jobs, w \in Workers :
           /\ jobs[k].status = "JOB_WAIT" /\ thread[w] = "null"
           /\ jobs' \in Seq(Job) /\ DOMAIN jobs' = DOMAIN jobs
           /\ \A l \in DOMAIN jobs :
                /\ jobs'[l].id = jobs[l].id /\ jobs'[l].batch_id = jobs[l].batch_id
                /\ jobs'[l].w = IF l = k THEN w ELSE jobs[l].w
                /\ jobs'[l].status = IF l = k THEN "JOB_FINISHED" ELSE jobs[l].status
           /\ working' = [working EXCEPT ![w] = FALSE]
           /\ ran' = [ran EXCEPT ![jobs[k].id] = @ + 1]
<1>1. PICK k \in Waiting, w \in FreeWorkers :
        /\ jobs' = [jobs EXCEPT ![k].status = "JOB_FINISHED", ![k].w = w]
        /\ working' = [working EXCEPT ![w] = FALSE]
        /\ ran' = [ran EXCEPT ![jobs[k].id] = @ + 1]
  BY DEF RunInline
<1>3. /\ k \in DOMAIN jobs /\ k \in 1 .. Len(jobs) /\ jobs[k].status = "JOB_WAIT"
      /\ w \in Workers /\ thread[w] = "null" /\ jobs[k] \in Job
  BY SlotType DEF Waiting, FreeWorkers, Inv
<1>4. /\ jobs' \in Seq(Job) /\ DOMAIN jobs' = DOMAIN jobs
      /\ \A l \in DOMAIN jobs :
           /\ jobs'[l].id = jobs[l].id /\ jobs'[l].batch_id = jobs[l].batch_id
           /\ jobs'[l].w = IF l = k THEN w ELSE jobs[l].w
           /\ jobs'[l].status = IF l = k THEN "JOB_FINISHED" ELSE jobs[l].status
  <2> DEFINE j == [jobs[k] EXCEPT !.status = "JOB_FINISHED", !.w = w]
  <2>1. jobs' = [jobs EXCEPT ![k] = j]
    BY <1>1, <1>3 DEF Job
  <2>2. j \in Job /\ j.status = "JOB_FINISHED" /\ j.w = w /\ j.id = jobs[k].id
        /\ j.batch_id = jobs[k].batch_id
    BY <1>3 DEF Job, JobStatus
  <2>3. jobs' \in Seq(Job) /\ Len(jobs') = Len(jobs)
    BY <1>3, <2>1, <2>2, ExceptSeq DEF Inv, TypeOK
  <2>4. QED BY <1>3, <2>1, <2>2, <2>3
<1>5. QED BY <1>1, <1>3, <1>4

\* Running a job inside server2_jobs_run counts it once.
LEMMA InvRunInline ==
  ASSUME Inv, RunInline PROVE Inv'
<1>1. PICK k \in DOMAIN jobs, w \in Workers :
        /\ jobs[k].status = "JOB_WAIT" /\ thread[w] = "null"
        /\ jobs' \in Seq(Job) /\ DOMAIN jobs' = DOMAIN jobs
        /\ \A l \in DOMAIN jobs :
             /\ jobs'[l].id = jobs[l].id /\ jobs'[l].batch_id = jobs[l].batch_id
             /\ jobs'[l].w = IF l = k THEN w ELSE jobs[l].w
             /\ jobs'[l].status = IF l = k THEN "JOB_FINISHED" ELSE jobs[l].status
        /\ working' = [working EXCEPT ![w] = FALSE]
        /\ ran' = [ran EXCEPT ![jobs[k].id] = @ + 1]
  BY RunInlineSlots
<1>2. pc = "run" /\ UNCHANGED <<batch_id, threadVars, mainVars, submitted, returned>>
  BY DEF RunInline
<1>3. /\ k \in DOMAIN jobs /\ k \in 1 .. Len(jobs) /\ jobs[k].status = "JOB_WAIT"
      /\ w \in Workers /\ thread[w] = "null" /\ jobs[k] \in Job
  BY <1>1, SlotType DEF Inv
<1>4. /\ jobs' \in Seq(Job) /\ DOMAIN jobs' = DOMAIN jobs
      /\ \A l \in DOMAIN jobs :
           /\ jobs'[l].id = jobs[l].id /\ jobs'[l].batch_id = jobs[l].batch_id
           /\ jobs'[l].w = IF l = k THEN w ELSE jobs[l].w
           /\ jobs'[l].status = IF l = k THEN "JOB_FINISHED" ELSE jobs[l].status
  BY <1>1
<1>5. /\ jobs[k].id \in submitted /\ jobs[k].id \in JobIds /\ ran[jobs[k].id] = 0
      /\ \A l \in DOMAIN jobs \ {k} : jobs[l].status # "JOB_NONE" =>
           jobs[l].id # jobs[k].id /\ jobs[l].id \in JobIds
  BY <1>3 DEF Inv, SlotsHoldJobs, UnfinishedAreCurrent, Unfinished, TypeOK
<1>6. /\ ran' \in [JobIds -> Nat]
      /\ \A x \in JobIds : ran'[x] = IF x = jobs[k].id THEN 1 ELSE ran[x]
  BY <1>1, <1>5 DEF Inv, TypeOK
<1> USE DEF Inv, threadVars, mainVars
<1>7. TypeOK'
  BY <1>1, <1>2, <1>3, <1>4, <1>6 DEF TypeOK
<1>8. BatchComplete'
  BY <1>2, <1>5, <1>6 DEF BatchComplete, TypeOK
<1>9. SlotsHoldJobs'
  BY <1>2, <1>3, <1>4 DEF SlotsHoldJobs
<1>10. UnfinishedAreCurrent'
  BY <1>2, <1>3, <1>4, <1>5, <1>6 DEF UnfinishedAreCurrent, Unfinished
<1>11. NotRunIsListed'
  <2>1. \A x \in JobIds \ submitted' : ran'[x] = 0
    BY <1>2, <1>5, <1>6 DEF NotRunIsListed
  <2>2. ASSUME NEW x \in submitted', ran'[x] # 1
        PROVE  ran'[x] = 0 /\ \E l \in DOMAIN jobs' :
                 jobs'[l].id = x /\ jobs'[l].status \in Unfinished
    <3>1. x \in submitted /\ x \in JobIds /\ x # jobs[k].id /\ ran'[x] = ran[x]
      BY <1>2, <1>6, <2>2 DEF TypeOK
    <3>2. PICK l \in DOMAIN jobs : jobs[l].id = x /\ jobs[l].status \in Unfinished
      BY <2>2, <3>1 DEF NotRunIsListed
    <3>3. QED BY <1>4, <2>2, <3>1, <3>2 DEF NotRunIsListed
  <2>3. QED BY <2>1, <2>2 DEF NotRunIsListed
<1>12. IdsAreNew'
  BY <1>2 DEF IdsAreNew
<1>13. LiveOwnsSlot'
  <2>1. ASSUME NEW v \in Workers, Live(v)
        PROVE  /\ slot[v] \in DOMAIN jobs /\ slot[v] # k
               /\ jobs[slot[v]].status = "JOB_RUNNING" /\ jobs[slot[v]].w = v
               /\ thread[v] = "compute" => ptr[v] = v
    BY <1>3, <2>1 DEF LiveOwnsSlot
  <2>2. QED BY <1>2, <1>4, <2>1 DEF LiveOwnsSlot, Live
<1>14. QED BY <1>7, <1>8, <1>9, <1>10, <1>11, <1>12, <1>13

-----------------------------------------------------------------------------
(* The theorems.                                                            *)

\* The agreement of main and threads about the list of jobs is inductive.
THEOREM InvNext == Inv /\ [Next]_vars => Inv'
<1> SUFFICES ASSUME Inv, [Next]_vars PROVE Inv'
  OBVIOUS
<1>1. ASSUME Main PROVE Inv'
  BY <1>1, InvGetNextBatchId, InvAddJob, InvRunUntilDone, InvCleanWorker,
     InvCheckJobsLeft, InvStartJob, InvRunInline, InvJobsRunReturns,
     InvFreeFinishedJobs, InvFree DEF Main
<1>2. ASSUME NEW w \in Workers, Thread(w) PROVE Inv'
  BY <1>2, InvThreadStart, InvThreadStoreStatus, InvThreadStoreWorking DEF Thread
<1>3. ASSUME UNCHANGED vars PROVE Inv'
  BY <1>3 DEF vars, poolVars, threadVars, mainVars, histVars, Inv, TypeOK, BatchComplete,
     SlotsHoldJobs, UnfinishedAreCurrent, NotRunIsListed, IdsAreNew, LiveOwnsSlot, Live
<1>4. QED BY <1>1, <1>2, <1>3 DEF Next

\* server2.c keeps this agreement in every state of every run.
THEOREM InvHolds == Spec => []Inv
BY InvInit, InvNext, PTL DEF Spec

\* Every variable keeps its type.
THEOREM TypeCorrect == Spec => []TypeOK
<1>1. Inv => TypeOK
  BY DEF Inv
<1>2. QED BY <1>1, InvHolds, PTL

\* When server2_run_until_done returns, every job of the batch has run exactly
\* once, for any number of workers, batches and jobs.
THEOREM BatchCompleteHolds == Spec => []BatchComplete
<1>1. Inv => BatchComplete
  BY DEF Inv
<1>2. QED BY <1>1, InvHolds, PTL

\* No two computing threads share a worker number, so the scratch memory that
\* circuit_spm_thread and thread_light_solve index with it has one user.
THEOREM ScratchExclusiveHolds == Spec => []ScratchExclusive
<1>1. Inv => ScratchExclusive
  BY DEF Inv, LiveOwnsSlot, Live, ScratchExclusive
<1>2. QED BY <1>1, InvHolds, PTL

\* The list entry of a job that still computes is not given to another job.
THEOREM SlotHeldHolds == Spec => []SlotHeldWhileLive
<1>1. Inv => SlotHeldWhileLive
  BY DEF Inv, LiveOwnsSlot, Live, SlotHeldWhileLive
<1>2. QED BY <1>1, InvHolds, PTL

-----------------------------------------------------------------------------
(* Who owns a running job, and the pointers of the first batch.             *)

\* The list starts with one unused slot and no thread.
LEMMA OwnInit == Init => RunningIsOwned /\ FirstBatchKeepsSlots
<1> SUFFICES ASSUME Init PROVE RunningIsOwned /\ FirstBatchKeepsSlots
  OBVIOUS
<1>1. DOMAIN jobs = {1} /\ jobs[1].status = "JOB_NONE"
  BY DEF Init, JobInit
<1>2. QED BY <1>1 DEF Init, RunningIsOwned, FirstBatchKeepsSlots, Leaked

\* Steps of main that neither start, finish nor free a job.
LEMMA OwnMainQuiet ==
  ASSUME Inv, RunningIsOwned, FirstBatchKeepsSlots,
         GetNextBatchId \/ RunUntilDone \/ CheckJobsLeft \/ JobsRunReturns
  PROVE  RunningIsOwned' /\ FirstBatchKeepsSlots'
<1>1. /\ UNCHANGED <<jobs, working, threadVars>>
      /\ \/ batch_id' = batch_id /\ pc' \notin {"add", "exit", "crashed"}
            /\ pc \notin {"exit", "crashed"}
         \/ batch_id' = batch_id + 1 /\ pc = "idle" /\ pc' = "add"
  BY DEF GetNextBatchId, RunUntilDone, CheckJobsLeft, JobsRunReturns, poolVars
<1>2. RunningIsOwned'
  BY <1>1 DEF RunningIsOwned, Live, threadVars
<1>3. FirstBatchKeepsSlots'
  BY <1>1 DEF FirstBatchKeepsSlots, Leaked, threadVars, Inv, TypeOK
<1>4. QED BY <1>2, <1>3

\* A new job disturbs no slot a thread knows: in the first batch there is none.
LEMMA OwnAddJob ==
  ASSUME Inv, RunningIsOwned, FirstBatchKeepsSlots, AddJob
  PROVE  RunningIsOwned' /\ FirstBatchKeepsSlots'
<1>1. PICK n \in DOMAIN jobs' :
        /\ DOMAIN jobs' = DOMAIN jobs \cup {n}
        /\ n \in DOMAIN jobs => jobs[n].status = "JOB_NONE"
        /\ jobs'[n].status = "JOB_WAIT"
        /\ \A k \in DOMAIN jobs \ {n} : jobs'[k] = jobs[k]
  BY AddJobSlots
<1>2. pc = "add" /\ UNCHANGED <<batch_id, working, threadVars, pc>>
  BY DEF AddJob
<1>3. RunningIsOwned'
  BY <1>1, <1>2 DEF RunningIsOwned, Live, threadVars
<1>4. FirstBatchKeepsSlots'
  BY <1>2 DEF FirstBatchKeepsSlots, Leaked, threadVars
<1>5. QED BY <1>3, <1>4

\* Only a thread that has exited is joined.
LEMMA OwnCleanWorker ==
  ASSUME Inv, RunningIsOwned, FirstBatchKeepsSlots, CleanWorker
  PROVE  RunningIsOwned' /\ FirstBatchKeepsSlots'
<1>1. /\ UNCHANGED <<poolVars, slot, ptr, pc>> /\ pc = "clean"
      /\ \A w \in Workers :
           thread'[w] = thread[w] \/ (thread[w] = "exited" /\ thread'[w] = "null")
  <2>1. nw \in Workers
    BY WorkersExist DEF CleanWorker, Inv, TypeOK, Workers
  <2>2. QED BY <2>1 DEF CleanWorker, Inv, TypeOK
<1>2. RunningIsOwned'
  BY <1>1 DEF RunningIsOwned, Live, poolVars
<1>3. FirstBatchKeepsSlots'
  BY <1>1 DEF FirstBatchKeepsSlots, Leaked, poolVars
<1>4. QED BY <1>2, <1>3

\* The job that starts is owned by the thread that starts with it.
LEMMA OwnStartJob ==
  ASSUME Inv, RunningIsOwned, FirstBatchKeepsSlots, StartJob
  PROVE  RunningIsOwned' /\ FirstBatchKeepsSlots'
<1>1. PICK k \in DOMAIN jobs, w \in Workers :
        /\ jobs[k].status = "JOB_WAIT" /\ thread[w] = "null"
        /\ jobs' \in Seq(Job) /\ DOMAIN jobs' = DOMAIN jobs
        /\ \A l \in DOMAIN jobs :
             /\ jobs'[l].id = jobs[l].id /\ jobs'[l].batch_id = jobs[l].batch_id
             /\ jobs'[l].w = IF l = k THEN w ELSE jobs[l].w
             /\ jobs'[l].status = IF l = k THEN "JOB_RUNNING" ELSE jobs[l].status
        /\ working' = [working EXCEPT ![w] = TRUE]
        /\ thread' = [thread EXCEPT ![w] = "start"]
        /\ slot' = [slot EXCEPT ![w] = k]
        /\ ptr' = [ptr EXCEPT ![w] = Unread]
  BY StartJobSlots
<1>2. pc = "run" /\ MaxThreads > 0 /\ UNCHANGED <<batch_id, pc>>
  BY DEF StartJob, mainVars
<1>3. /\ thread'[w] = "start" /\ slot'[w] = k
      /\ \A v \in Workers \ {w} : /\ thread'[v] = thread[v] /\ slot'[v] = slot[v]
                                  /\ ptr'[v] = ptr[v] /\ working'[v] = working[v]
  BY <1>1 DEF Inv, TypeOK
<1>4. RunningIsOwned'
  <2>1. ASSUME NEW l \in DOMAIN jobs', jobs'[l].status = "JOB_RUNNING"
        PROVE  /\ jobs'[l].w \in Workers /\ slot'[jobs'[l].w] = l
               /\ thread'[jobs'[l].w] \in {"start", "compute"}
    <3>1. CASE l = k
      BY <1>1, <1>3, <3>1 DEF Live
    <3>2. CASE l # k
      <4>1. l \in DOMAIN jobs /\ jobs[l].status = "JOB_RUNNING" /\ jobs'[l].w = jobs[l].w
        BY <1>1, <2>1, <3>2
      <4>2. jobs[l].w \in Workers /\ Live(jobs[l].w) /\ slot[jobs[l].w] = l
        BY <4>1 DEF RunningIsOwned
      <4>3. jobs[l].w # w
        BY <1>1, <4>2 DEF Live
      <4>4. QED BY <1>3, <4>1, <4>2, <4>3 DEF Live
    <3>3. QED BY <3>1, <3>2
  <2>2. QED BY <1>2, <2>1 DEF RunningIsOwned, Live
<1>5. FirstBatchKeepsSlots'
  <2>1. SUFFICES ASSUME batch_id <= 1
        PROVE  /\ \A v \in Workers : thread'[v] \in {"start", "compute", "finishing"} =>
                    /\ slot'[v] \in DOMAIN jobs' /\ jobs'[slot'[v]].w = v
                    /\ thread'[v] = "finishing" =>
                         jobs'[slot'[v]].status # "JOB_WAIT" /\ ptr'[v] \in {v, Unread}
               /\ \A v \in Workers : ~Leaked(v)'
    BY <1>2 DEF FirstBatchKeepsSlots, Inv, IdsAreNew
  <2>2. ASSUME NEW v \in Workers \ {w}, thread'[v] \in {"start", "compute", "finishing"}
        PROVE  /\ slot[v] \in DOMAIN jobs /\ jobs[slot[v]].w = v /\ slot[v] # k
               /\ thread[v] = "finishing" =>
                    jobs[slot[v]].status # "JOB_WAIT" /\ ptr[v] \in {v, Unread}
    BY <1>1, <1>2, <1>3, <2>1, <2>2 DEF FirstBatchKeepsSlots, Inv, LiveOwnsSlot, Live
  <2>3. \A v \in Workers : ~Leaked(v)'
    BY <1>2, <1>3, <2>1 DEF FirstBatchKeepsSlots, Leaked
  <2>4. QED BY <1>1, <1>3, <2>2, <2>3
<1>6. QED BY <1>4, <1>5

\* A job run by main is never seen running.
LEMMA OwnRunInline ==
  ASSUME Inv, RunningIsOwned, FirstBatchKeepsSlots, RunInline
  PROVE  RunningIsOwned' /\ FirstBatchKeepsSlots'
<1>1. /\ MaxThreads = 0 /\ pc = "run" /\ \A w \in Workers : thread[w] = "null"
      /\ UNCHANGED <<batch_id, threadVars, pc>>
  BY DEF RunInline, RunningIsOwned, mainVars
<1>2. PICK k \in DOMAIN jobs :
        /\ DOMAIN jobs' = DOMAIN jobs
        /\ \A l \in DOMAIN jobs :
             jobs'[l].status = IF l = k THEN "JOB_FINISHED" ELSE jobs[l].status
  BY RunInlineSlots
<1>3. \A l \in DOMAIN jobs' : jobs'[l].status # "JOB_RUNNING"
  BY <1>1, <1>2 DEF RunningIsOwned, Live
<1>4. RunningIsOwned'
  BY <1>1, <1>3 DEF RunningIsOwned, threadVars
<1>5. FirstBatchKeepsSlots'
  BY <1>1 DEF FirstBatchKeepsSlots, Leaked, threadVars, Inv, IdsAreNew
<1>6. QED BY <1>4, <1>5

\* Freeing a job leaves w as it is, so the thread that finished it finds itself.
LEMMA OwnFreeFinishedJobs ==
  ASSUME Inv, RunningIsOwned, FirstBatchKeepsSlots, FreeFinishedJobs
  PROVE  RunningIsOwned' /\ FirstBatchKeepsSlots'
<1>1. /\ pc = "free" /\ pc' = "idle" /\ UNCHANGED <<batch_id, working, threadVars>>
      /\ DOMAIN jobs' = DOMAIN jobs
      /\ \A k \in DOMAIN jobs :
           /\ jobs'[k].w = jobs[k].w
           /\ jobs'[k].status \in {jobs[k].status, "JOB_NONE"}
  BY DEF FreeFinishedJobs, JobInit
<1>2. RunningIsOwned'
  BY <1>1 DEF RunningIsOwned, Live, threadVars
<1>3. FirstBatchKeepsSlots'
  BY <1>1 DEF FirstBatchKeepsSlots, Leaked, threadVars
<1>4. QED BY <1>2, <1>3

\* server2_free drops a list in which nothing runs.
LEMMA OwnFree ==
  ASSUME Inv, RunningIsOwned, FirstBatchKeepsSlots, Free
  PROVE  RunningIsOwned' /\ FirstBatchKeepsSlots'
BY DEF Free, RunningIsOwned, FirstBatchKeepsSlots, threadVars

\* A thread that starts reads its own worker number.
LEMMA OwnThreadStart ==
  ASSUME Inv, RunningIsOwned, FirstBatchKeepsSlots, NEW w \in Workers, ThreadStart(w)
  PROVE  RunningIsOwned' /\ FirstBatchKeepsSlots'
<1>1. /\ thread[w] = "start" /\ thread'[w] = "compute"
      /\ \A v \in Workers \ {w} : thread'[v] = thread[v] /\ ptr'[v] = ptr[v]
      /\ UNCHANGED <<jobs, batch_id, working, slot, pc>>
  BY DEF ThreadStart, Inv, TypeOK, poolVars, mainVars
<1>2. RunningIsOwned'
  BY <1>1 DEF RunningIsOwned, Live
<1>3. FirstBatchKeepsSlots'
  BY <1>1 DEF FirstBatchKeepsSlots, Leaked
<1>4. QED BY <1>2, <1>3

\* The job that finishes is the thread's own, and other running jobs have others.
LEMMA OwnThreadStoreStatus ==
  ASSUME Inv, RunningIsOwned, FirstBatchKeepsSlots, NEW w \in Workers, ThreadStoreStatus(w)
  PROVE  RunningIsOwned' /\ FirstBatchKeepsSlots'
<1>1. /\ slot[w] \in DOMAIN jobs /\ jobs[slot[w]].w = w
      /\ DOMAIN jobs' = DOMAIN jobs
      /\ \A l \in DOMAIN jobs :
           /\ jobs'[l].w = jobs[l].w
           /\ jobs'[l].status = IF l = slot[w] THEN "JOB_FINISHED" ELSE jobs[l].status
  BY ThreadStoreStatusSlots
<1>2. /\ thread[w] = "compute" /\ thread'[w] = "finishing" /\ ptr'[w] \in {w, Unread}
      /\ \A v \in Workers \ {w} : thread'[v] = thread[v] /\ ptr'[v] = ptr[v]
      /\ UNCHANGED <<batch_id, working, slot, pc>>
  BY <1>1 DEF ThreadStoreStatus, Inv, TypeOK, mainVars
<1>3. RunningIsOwned'
  BY <1>1, <1>2 DEF RunningIsOwned, Live
<1>4. FirstBatchKeepsSlots'
  BY <1>1, <1>2 DEF FirstBatchKeepsSlots, Leaked
<1>5. QED BY <1>3, <1>4

\* In the first batch the last store of a thread clears its own working.
LEMMA OwnThreadStoreWorking ==
  ASSUME Inv, RunningIsOwned, FirstBatchKeepsSlots, NEW w \in Workers, ThreadStoreWorking(w)
  PROVE  RunningIsOwned' /\ FirstBatchKeepsSlots'
<1>1. /\ thread[w] = "finishing" /\ thread'[w] = "exited"
      /\ \A v \in Workers \ {w} : thread'[v] = thread[v]
      /\ UNCHANGED <<jobs, batch_id, slot, ptr>>
      /\ pc' \in {pc, "crashed"} /\ pc # "crashed"
  BY DEF ThreadStoreWorking, Inv, TypeOK, histVars
<1>2. RunningIsOwned'
  BY <1>1 DEF RunningIsOwned, Live
<1>3. FirstBatchKeepsSlots'
  <2> SUFFICES ASSUME batch_id <= 1, pc' \notin {"exit", "crashed"}
               PROVE  FirstBatchKeepsSlots'
    BY <1>1 DEF FirstBatchKeepsSlots
  <2>1. pc' = pc /\ pc \notin {"exit", "crashed"} /\ LoadedW(w) = w
    BY <1>1 DEF FirstBatchKeepsSlots, LoadedW
  <2>2. ~working'[w] /\ \A v \in Workers \ {w} : working'[v] = working[v]
    BY <2>1 DEF ThreadStoreWorking, Inv, TypeOK
  <2>3. QED BY <1>1, <2>1, <2>2 DEF FirstBatchKeepsSlots, Leaked
<1>4. QED BY <1>2, <1>3

\* Every step keeps both.
LEMMA OwnNext ==
  Inv /\ RunningIsOwned /\ FirstBatchKeepsSlots /\ [Next]_vars
    => RunningIsOwned' /\ FirstBatchKeepsSlots'
<1> SUFFICES ASSUME Inv, RunningIsOwned, FirstBatchKeepsSlots, [Next]_vars
             PROVE  RunningIsOwned' /\ FirstBatchKeepsSlots'
  OBVIOUS
<1>1. ASSUME Main PROVE RunningIsOwned' /\ FirstBatchKeepsSlots'
  BY <1>1, OwnMainQuiet, OwnAddJob, OwnCleanWorker, OwnStartJob, OwnRunInline,
     OwnFreeFinishedJobs, OwnFree DEF Main
<1>2. ASSUME NEW w \in Workers, Thread(w) PROVE RunningIsOwned' /\ FirstBatchKeepsSlots'
  BY <1>2, OwnThreadStart, OwnThreadStoreStatus, OwnThreadStoreWorking DEF Thread
<1>3. ASSUME UNCHANGED vars PROVE RunningIsOwned' /\ FirstBatchKeepsSlots'
  BY <1>3 DEF vars, poolVars, threadVars, mainVars, RunningIsOwned, FirstBatchKeepsSlots,
     Live, Leaked
<1>4. QED BY <1>1, <1>2, <1>3 DEF Next

\* Every running job has one live thread, the one its slot names; in the first
\* batch every thread's slot names its worker until the thread has exited.
THEOREM OwnHolds == Spec => [](RunningIsOwned /\ FirstBatchKeepsSlots)
BY OwnInit, OwnNext, InvHolds, PTL DEF Spec

\* The unordered stores of server2_job_finished cost no worker before a slot has
\* been used twice: in the first batch every thread clears its own working.
THEOREM FirstBatchLosesNoWorkerHolds == Spec => []FirstBatchLosesNoWorker
<1>1. FirstBatchKeepsSlots => FirstBatchLosesNoWorker
  BY DEF FirstBatchKeepsSlots, FirstBatchLosesNoWorker
<1>2. QED BY <1>1, OwnHolds, PTL

-----------------------------------------------------------------------------
(* The pool implements BatchPool: each step of main or a thread is a step   *)
(* of BatchPool, or changes nothing BatchPool sees.                         *)

PoolStep == [Pool!Next]_(Pool!poolState)

\* BatchPool sees which job waits and which runs, and no slot number.
LEMMA PoolUnchanged ==
  ASSUME UNCHANGED histVars,
         \A s \in Unfinished : JobsIn(s)' = JobsIn(s)
  PROVE  PoolStep
<1>1. JobsRun' = JobsRun
  BY DEF JobsRun, histVars
<1>2. QED BY <1>1 DEF PoolStep, Pool!poolState, Unfinished, histVars

\* Whatever rewrites the list keeps the jobs that wait and run, if it keeps the
\* slots they are in and fills no other.
LEMMA SameJobs ==
  ASSUME submitted' = submitted, NEW s,
         \A k \in DOMAIN jobs : jobs[k].status = s =>
           k \in DOMAIN jobs' /\ jobs'[k].id = jobs[k].id /\ jobs'[k].status = s,
         \A k \in DOMAIN jobs' : jobs'[k].status = s =>
           k \in DOMAIN jobs /\ jobs'[k].id = jobs[k].id /\ jobs[k].status = s
  PROVE  JobsIn(s)' = JobsIn(s)
BY DEF JobsIn

\* Steps that leave the list and the history alone.
LEMMA PoolQuiet ==
  ASSUME UNCHANGED <<jobs, histVars>> PROVE PoolStep
<1>1. \A s \in Unfinished : JobsIn(s)' = JobsIn(s)
  BY DEF JobsIn, histVars
<1>2. QED BY <1>1, PoolUnchanged

\* Freeing finished jobs is not seen.
LEMMA PoolFreeFinishedJobs ==
  ASSUME Inv, FreeFinishedJobs PROVE PoolStep
<1>1. /\ DOMAIN jobs' = DOMAIN jobs /\ UNCHANGED histVars
      /\ \A k \in DOMAIN jobs :
           \/ jobs'[k] = jobs[k]
           \/ jobs'[k].status = "JOB_NONE" /\ jobs[k].status = "JOB_FINISHED"
  BY DEF FreeFinishedJobs, Freeable, JobInit
<1>2. \A s \in Unfinished : JobsIn(s)' = JobsIn(s)
  BY <1>1, SameJobs DEF Unfinished, histVars
<1>3. QED BY <1>1, <1>2, PoolUnchanged

\* When the pool is freed nothing waits or runs.
LEMMA PoolFree ==
  ASSUME Inv, Free PROVE PoolStep
<1>1. UNCHANGED histVars /\ DOMAIN jobs' = {}
  BY DEF Free
<1>2. \A s \in Unfinished, k \in DOMAIN jobs : jobs[k].status # s
  BY DEF Free, Inv, UnfinishedAreCurrent
<1>3. \A s \in Unfinished : JobsIn(s)' = JobsIn(s)
  BY <1>1, <1>2, SameJobs DEF histVars
<1>4. QED BY <1>1, <1>3, PoolUnchanged

\* Adding a job submits it: it is new, and its batch is open.
LEMMA PoolAddJob ==
  ASSUME Inv, AddJob PROVE PoolStep
<1> DEFINE i == <<batch_id, todo>>
<1>1. i \in JobIds /\ i \notin submitted /\ i[1] = batch_id
  BY AddJobSlots
<1>2. PICK n \in DOMAIN jobs' :
        /\ DOMAIN jobs' = DOMAIN jobs \cup {n}
        /\ n \in DOMAIN jobs => jobs[n].status = "JOB_NONE"
        /\ jobs'[n].status = "JOB_WAIT"
        /\ jobs'[n].id = i
        /\ \A k \in DOMAIN jobs \ {n} : jobs'[k] = jobs[k]
  BY AddJobSlots
<1>3. /\ pc = "add" /\ submitted' = submitted \cup {i} /\ UNCHANGED <<ran, returned>>
  BY DEF AddJob
<1>4. \A k \in DOMAIN jobs : jobs[k].status # "JOB_NONE" => jobs[k].id # i
  BY <1>1 DEF Inv, SlotsHoldJobs
<1>5. i \notin Pool!Known /\ i[1] \notin returned
  BY <1>1, <1>3 DEF Pool!Known, JobsIn, JobsRun, Inv, IdsAreNew
<1>6. JobsIn("JOB_WAIT")' = JobsIn("JOB_WAIT") \cup {i}
  BY <1>1, <1>2, <1>3 DEF JobsIn
<1>7. JobsIn("JOB_RUNNING")' = JobsIn("JOB_RUNNING")
  BY <1>1, <1>2, <1>3, <1>4 DEF JobsIn
<1>8. JobsRun' = JobsRun
  <2>1. ran[i] = 0
    BY <1>1 DEF Inv, NotRunIsListed
  <2>2. QED BY <1>3, <2>1 DEF JobsRun
<1>9. Pool!Submit(i)
  BY <1>3, <1>5, <1>6, <1>7, <1>8 DEF Pool!Submit
<1>10. QED BY <1>1, <1>9 DEF PoolStep, Pool!Next

\* server2_run_until_done returns: the batch is closed, and nothing of it is left.
LEMMA PoolCheckJobsLeft ==
  ASSUME Inv, CheckJobsLeft PROVE PoolStep
<1>1. CASE JobsLeft # {}
  BY <1>1, PoolQuiet DEF CheckJobsLeft, poolVars, histVars
<1>2. CASE JobsLeft = {}
  <2>1. /\ pc = "clean" /\ returned' = returned \cup {batch_id}
        /\ UNCHANGED <<jobs, submitted, ran>>
    BY <1>2 DEF CheckJobsLeft, poolVars
  <2>2. batch_id \in 1 .. MaxBatch
    BY <2>1 DEF Inv, IdsAreNew, TypeOK
  <2>3. \A k \in DOMAIN jobs : jobs[k].status \notin Unfinished
    BY <1>2 DEF JobsLeft, Inv, UnfinishedAreCurrent, Unfinished
  <2>4. JobsIn("JOB_WAIT") = {} /\ JobsIn("JOB_RUNNING") = {}
    BY <2>3 DEF JobsIn, Unfinished
  <2>5. /\ JobsIn("JOB_WAIT")' = JobsIn("JOB_WAIT") /\ JobsRun' = JobsRun
        /\ JobsIn("JOB_RUNNING")' = JobsIn("JOB_RUNNING")
    BY <2>1 DEF JobsIn, JobsRun
  <2>6. Pool!Close(batch_id)
    BY <2>1, <2>4, <2>5 DEF Pool!Close
  <2>7. QED BY <2>2, <2>6 DEF PoolStep, Pool!Next
<1>3. QED BY <1>1, <1>2

\* A free worker, and no two jobs on one, leave room for another job: the jobs
\* that run are mapped one to one into the other workers.
LEMMA RoomForAnother ==
  ASSUME Inv, RunningIsOwned, NEW w \in Workers, thread[w] = "null"
  PROVE  Cardinality(JobsIn("JOB_RUNNING")) < WorkerMax
<1> DEFINE R == JobsIn("JOB_RUNNING")
           SlotOf(i) == CHOOSE k \in DOMAIN jobs :
                          jobs[k].id = i /\ jobs[k].status = "JOB_RUNNING"
           owner == [i \in R |-> jobs[SlotOf(i)].w]
<1>1. IsFiniteSet(Workers) /\ Cardinality(Workers) = WorkerMax
  BY WorkersExist, FS_Interval DEF Workers
<1>2. IsFiniteSet(Workers \ {w}) /\ Cardinality(Workers \ {w}) = WorkerMax - 1
  BY <1>1, FS_RemoveElement
<1>3. \A i \in R : /\ SlotOf(i) \in DOMAIN jobs
                   /\ jobs[SlotOf(i)].id = i /\ jobs[SlotOf(i)].status = "JOB_RUNNING"
  BY DEF JobsIn
<1>4. \A i \in R : owner[i] \in Workers \ {w} /\ slot[owner[i]] = SlotOf(i)
  BY <1>3 DEF RunningIsOwned, Live
<1>a. owner \in [R -> Workers \ {w}]
  BY <1>4
<1>5. \A i, j \in R : owner[i] = owner[j] => i = j
  <2> HIDE DEF R, SlotOf, owner
  <2>1. \A i, j \in R : owner[i] = owner[j] => SlotOf(i) = SlotOf(j)
    BY <1>4
  <2>2. \A i, j \in R : SlotOf(i) = SlotOf(j) => i = j
    BY <1>3
  <2>3. QED BY <2>1, <2>2
<1>6. owner \in Injection(R, Workers \ {w})
  <2> HIDE DEF R, owner
  <2>1. QED BY <1>a, <1>5 DEF Injection, IsInjective
<1>7. IsFiniteSet(R) /\ Cardinality(R) <= WorkerMax - 1
  BY <1>2, <1>6, FS_Injection
<1>8. Cardinality(R) \in Nat /\ WorkerMax \in Nat
  BY <1>7, FS_CardinalityType, WorkersExist
<1>9. QED BY <1>7, <1>8

\* Starting a job begins it.
LEMMA PoolStartJob ==
  ASSUME Inv, RunningIsOwned, StartJob PROVE PoolStep
<1>1. PICK k \in DOMAIN jobs, w \in Workers :
        /\ jobs[k].status = "JOB_WAIT" /\ thread[w] = "null"
        /\ DOMAIN jobs' = DOMAIN jobs
        /\ \A l \in DOMAIN jobs :
             /\ jobs'[l].id = jobs[l].id
             /\ jobs'[l].status = IF l = k THEN "JOB_RUNNING" ELSE jobs[l].status
  BY StartJobSlots
<1> DEFINE i == jobs[k].id
<1>2. UNCHANGED histVars
  BY DEF StartJob
<1>3. /\ i \in submitted /\ i \in JobIds
      /\ \A l \in DOMAIN jobs \ {k} : jobs[l].status # "JOB_NONE" => jobs[l].id # i
  BY <1>1 DEF Inv, SlotsHoldJobs, TypeOK
<1>4. i \in JobsIn("JOB_WAIT")
  BY <1>1, <1>3 DEF JobsIn
<1>5. JobsIn("JOB_WAIT")' = JobsIn("JOB_WAIT") \ {i}
  BY <1>1, <1>2, <1>3 DEF JobsIn, histVars
<1>6. JobsIn("JOB_RUNNING")' = JobsIn("JOB_RUNNING") \cup {i}
  BY <1>1, <1>2, <1>3 DEF JobsIn, histVars
<1>7. JobsRun' = JobsRun /\ returned' = returned
  BY <1>2 DEF JobsRun, histVars
<1>a. Cardinality(JobsIn("JOB_RUNNING")) < WorkerMax
  BY <1>1, RoomForAnother
<1>b. Pool!Cardinality(JobsIn("JOB_RUNNING")) = Cardinality(JobsIn("JOB_RUNNING"))
  BY DEF Pool!Cardinality, Cardinality
<1>8. Pool!Begin(i)
  BY <1>4, <1>5, <1>6, <1>7, <1>a, <1>b DEF Pool!Begin
<1>9. QED BY <1>3, <1>8 DEF PoolStep, Pool!Next

\* With max_threads = 0 main executes the job itself, and none runs.
LEMMA PoolRunInline ==
  ASSUME Inv, RunningIsOwned, RunInline PROVE PoolStep
<1>1. PICK k \in DOMAIN jobs :
        /\ jobs[k].status = "JOB_WAIT"
        /\ DOMAIN jobs' = DOMAIN jobs
        /\ \A l \in DOMAIN jobs :
             /\ jobs'[l].id = jobs[l].id
             /\ jobs'[l].status = IF l = k THEN "JOB_FINISHED" ELSE jobs[l].status
        /\ ran' = [ran EXCEPT ![jobs[k].id] = @ + 1]
  BY RunInlineSlots
<1> DEFINE i == jobs[k].id
<1>2. MaxThreads = 0 /\ UNCHANGED <<submitted, returned>>
  BY DEF RunInline
<1>3. /\ i \in submitted /\ i \in JobIds /\ ran[i] = 0
      /\ \A l \in DOMAIN jobs \ {k} : jobs[l].status # "JOB_NONE" => jobs[l].id # i
  BY <1>1 DEF Inv, SlotsHoldJobs, UnfinishedAreCurrent, Unfinished, TypeOK
<1>4. \A l \in DOMAIN jobs : jobs[l].status # "JOB_RUNNING"
  BY <1>2 DEF RunningIsOwned, Live
<1>5. i \in JobsIn("JOB_WAIT") /\ JobsIn("JOB_RUNNING") = {}
  BY <1>1, <1>3, <1>4 DEF JobsIn
<1>6. JobsIn("JOB_WAIT")' = JobsIn("JOB_WAIT") \ {i} /\ JobsIn("JOB_RUNNING")' = {}
  BY <1>1, <1>2, <1>3, <1>4 DEF JobsIn
<1>7. JobsRun' = JobsRun \cup {i}
  <2>1. \A x \in JobIds : ran'[x] = IF x = i THEN 1 ELSE ran[x]
    BY <1>1, <1>3 DEF Inv, TypeOK
  <2>2. QED BY <1>2, <1>3, <2>1 DEF JobsRun, Inv, TypeOK
<1>8. Pool!Execute(i)
  BY <1>2, <1>5, <1>6, <1>7 DEF Pool!Execute
<1>9. QED BY <1>3, <1>8 DEF PoolStep, Pool!Next

\* JOB_FINISHED ends the job in the thread's slot.
LEMMA PoolThreadStoreStatus ==
  ASSUME Inv, NEW w \in Workers, ThreadStoreStatus(w) PROVE PoolStep
<1> DEFINE k == slot[w]
           i == jobs[k].id
<1>1. /\ k \in DOMAIN jobs /\ jobs[k].status = "JOB_RUNNING"
      /\ i \in submitted /\ i \in JobIds /\ ran[i] = 0
      /\ DOMAIN jobs' = DOMAIN jobs
      /\ \A l \in DOMAIN jobs :
           /\ jobs'[l].id = jobs[l].id
           /\ jobs'[l].status = IF l = k THEN "JOB_FINISHED" ELSE jobs[l].status
  BY ThreadStoreStatusSlots
<1>2. ran' = [ran EXCEPT ![i] = @ + 1] /\ UNCHANGED <<submitted, returned>>
  BY DEF ThreadStoreStatus
<1>3. \A l \in DOMAIN jobs \ {k} : jobs[l].status # "JOB_NONE" => jobs[l].id # i
  BY <1>1 DEF Inv, SlotsHoldJobs
<1>4. i \in JobsIn("JOB_RUNNING")
  BY <1>1 DEF JobsIn
<1> HIDE DEF k, i
<1>5. JobsIn("JOB_RUNNING")' = JobsIn("JOB_RUNNING") \ {i}
  BY <1>1, <1>2, <1>3 DEF JobsIn, i
<1>6. JobsIn("JOB_WAIT")' = JobsIn("JOB_WAIT")
  BY <1>1, <1>2, SameJobs
<1>7. JobsRun' = JobsRun \cup {i}
  <2>1. \A x \in JobIds : ran'[x] = IF x = i THEN 1 ELSE ran[x]
    BY <1>1, <1>2 DEF Inv, TypeOK
  <2>2. QED BY <1>1, <1>2, <2>1 DEF JobsRun, Inv, TypeOK
<1>8. Pool!End(i)
  BY <1>2, <1>4, <1>5, <1>6, <1>7 DEF Pool!End
<1>9. QED BY <1>1, <1>8 DEF PoolStep, Pool!Next

\* Every step of the pool is one of BatchPool, or is not seen.
LEMMA PoolNext == Inv /\ RunningIsOwned /\ [Next]_vars => PoolStep
<1> SUFFICES ASSUME Inv, RunningIsOwned, [Next]_vars PROVE PoolStep
  OBVIOUS
<1>1. ASSUME GetNextBatchId \/ RunUntilDone \/ CleanWorker \/ JobsRunReturns PROVE PoolStep
  BY <1>1, PoolQuiet DEF GetNextBatchId, RunUntilDone, CleanWorker, JobsRunReturns, poolVars
<1>2. ASSUME Main PROVE PoolStep
  BY <1>1, <1>2, PoolAddJob, PoolCheckJobsLeft, PoolStartJob, PoolRunInline,
     PoolFreeFinishedJobs, PoolFree DEF Main
<1>3. ASSUME NEW w \in Workers, ThreadStart(w) \/ ThreadStoreWorking(w) PROVE PoolStep
  BY <1>3, PoolQuiet DEF ThreadStart, ThreadStoreWorking, poolVars
<1>4. ASSUME NEW w \in Workers, Thread(w) PROVE PoolStep
  BY <1>3, <1>4, PoolThreadStoreStatus DEF Thread
<1>5. ASSUME UNCHANGED vars PROVE PoolStep
  BY <1>5, PoolQuiet DEF vars, poolVars
<1>6. QED BY <1>2, <1>4, <1>5 DEF Next

\* An empty pool has nothing waiting, running, done or closed.
LEMMA PoolInit == Init => Pool!Init
BY DEF Init, Pool!Init, JobsIn, JobsRun

\* server2.c implements the pool its callers rely on: a job runs once, at most
\* as many at a time as there are workers, and a batch is closed when it is done.
THEOREM PoolSpecHolds == Spec => PoolSpec
BY PoolInit, PoolNext, InvHolds, OwnHolds, PTL DEF Spec, PoolSpec, Pool!Spec, PoolStep
=============================================================================
