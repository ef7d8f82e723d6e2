--------------------------------- MODULE Json ---------------------------------
(***************************************************************************)
(* Configurations as text: the window writes a tree of named values for    *)
(* the program (gen_json), json_load reads it, and json_save writes what   *)
(* json_load shall read again, in two styles.                              *)
(*                                                                         *)
(* A text is a sequence of symbols: punctuation, white space, and names    *)
(* and words as a symbol each.  Numbers are written without quotes.  No    *)
(* value contains a quote.  A tree is the sequence of its members, an      *)
(* object between its beginning and its end.  json->path, which nothing    *)
(* reads, is left out, and so is the return at level -1: the level of the  *)
(* root is never lower than 0 before its closing brace.                    *)
(*                                                                         *)
(* A definition X_Other just before X is X with a mistake in it, used to   *)
(* see that the properties notice it; nothing else refers to it.           *)
(***************************************************************************)
EXTENDS Integers, Sequences, FiniteSets, SequencesExt

CONSTANTS
  Saved,        \* the configurations saved: sequences of members
  Numbers,      \* the words that are numbers
  MaxMembers    \* members json_decode reads of an object, 100 in the code

VARIABLES
  config,       \* the configuration saved
  text, pos,    \* raw_data, and the position of the symbol to read
  level,
  token,        \* the name read
  objs,         \* the objects being decoded, innermost last
  act           \* the step of json_decode

vars == <<config, text, pos, level, token, objs, act>>

Member(name, data) == <<[kind |-> "value", name |-> name, data |-> data]>>
Begin(name) == [kind |-> "object", name |-> name, data |-> <<>>]
End == [kind |-> "end", name |-> <<>>, data |-> <<>>]
Node(name, members) == <<Begin(name)>> \o members \o <<End>>

Quote == "\""
Comma == ","
Colon == ":"
LBrace == "{"
RBrace == "}"
Blank == " "
NewLine == "\n"
Tab == "\t"
White == {Blank, NewLine, Tab}

-----------------------------------------------------------------------------

\* a compact text loses the line end of what is appended, if that is not all of it
Cat(buf, s, compact) ==
  IF compact /\ Len(s) > 2 /\ Last(s) = NewLine THEN buf \o Front(s) ELSE buf \o s
Tabs(level_, compact) == IF compact THEN <<>> ELSE [k \in 1 .. level_ |-> Tab]

\* cut before the last comma
RemoveComma(buf) ==
  IF \A k \in 2 .. Len(buf) : buf[k] # Comma THEN buf
  ELSE SubSeq(buf, 1, (CHOOSE k \in 1 .. Len(buf) - 1 :
                         buf[k + 1] = Comma /\ \A j \in k + 2 .. Len(buf) : buf[j] # Comma))

IsNumber(data) == Len(data) = 1 /\ data[1] \in Numbers
Quoted(data) == IF IsNumber(data) THEN data ELSE <<Quote>> \o data \o <<Quote>>
Key(e) == <<Quote>> \o e.name \o <<Quote, Colon>>

\* how many members the objects that are open behind the first k have, innermost last
Counts(c) ==
  LET N[k \in 0 .. Len(c)] ==
        IF k = 0 THEN <<0>>
        ELSE LET n == N[k - 1]
                 more == Append(Front(n), Last(n) + 1)
             IN CASE c[k].kind = "value" -> more
                  [] c[k].kind = "object" -> Append(more, 0)
                  [] c[k].kind = "end" -> Front(n)
  IN N

\* json_dump, with depth tabs
Dump(buf, e, depth, compact) ==
  CASE e.kind = "value" -> Cat(buf \o Tabs(depth, compact), Key(e) \o Quoted(e.data) \o <<Comma, NewLine>>, compact)
    [] e.kind = "object" -> Cat(buf \o Tabs(depth, compact), Key(e) \o <<Blank, LBrace, NewLine>>, compact)
    [] e.kind = "end" -> IF compact THEN RemoveComma(buf) \o <<RBrace, Comma>>
                         ELSE RemoveComma(buf) \o <<NewLine>> \o Tabs(depth, compact) \o <<RBrace, Comma, NewLine>>

\* the window's text, its tabs removed
GenJson(buf, e) ==
  IF e.kind = "end" THEN buf \o <<NewLine, RBrace>>
  ELSE (IF Last(buf) = LBrace THEN buf ELSE buf \o <<Comma>>) \o <<NewLine>>
         \o Key(e) \o (IF e.kind = "object" THEN <<Blank, LBrace>> ELSE Quoted(e.data))

Styles == {"window", "compact", "lines"}

\* the text behind the first k
Written(c, style) ==
  LET W[k \in 0 .. Len(c)] ==
        IF k = 0 THEN IF style = "window" THEN <<Blank, LBrace>> ELSE <<LBrace, NewLine>>
        ELSE IF style = "window" THEN GenJson(W[k - 1], c[k])
        ELSE Dump(W[k - 1], c[k], Len(Counts(c)[k - 1]), style = "compact")
  IN W

\* DumpToString, and the closing line of the window
Text(c, style) ==
  LET buf == Written(c, style)[Len(c)] IN
  IF style = "window" THEN GenJson(buf, End)
  ELSE Cat(RemoveComma(buf), <<NewLine, RBrace, NewLine>>, style = "compact")

-----------------------------------------------------------------------------

At(p) == IF p <= Len(text) THEN text[p] ELSE "end"

\* the first position from p on that passes, or the one behind the end
First(p, Test(_)) ==
  CHOOSE k \in p .. Len(text) + 1 :
    /\ k = Len(text) + 1 \/ Test(k)
    /\ \A j \in p .. k - 1 : ~Test(j)

NextQuote(p) == First(p, LAMBDA j : text[j] = Quote)

\* at the end of the text gobble steps back onto its last symbol
Gobble(p) ==
  LET k == First(p, LAMBDA j : text[j] \notin White) IN
  IF k > Len(text) THEN Len(text) ELSE k

\* a name in quotes and the colon after it; without one the program exits
GetName(p) ==
  LET start == IF At(p) = Quote THEN p + 1 ELSE p
      close == NextQuote(start)
      colon == Gobble(close + 1)
  IN IF close > Len(text)
     THEN [name |-> SubSeq(text, start, Len(text)), pos |-> close, ok |-> TRUE]
     ELSE [name |-> SubSeq(text, start, close - 1), pos |-> colon + 1, ok |-> At(colon) = Colon]

\* a value ends at a comma or brace outside its first pair of quotes
Inside(p, k) == Cardinality({j \in p .. k : text[j] = Quote}) = 1
ValueEnd_Anywhere(p) == First(p, LAMBDA k : text[k] \in {Comma, RBrace})
ValueEnd(p) == First(p, LAMBDA k : text[k] \in {Comma, RBrace} /\ ~Inside(p, k))

\* white space after it, but not its first symbol
RemoveSpaceAfter(s) ==
  IF s = <<>> THEN s
  ELSE SubSeq(s, 1, CHOOSE k \in DOMAIN s :
                      /\ k = 1 \/ s[k] \notin White
                      /\ \A j \in k + 1 .. Len(s) : s[j] \in White)
WithoutOpening(p, end) ==
  IF NextQuote(p) >= end THEN SubSeq(text, p, end - 1)
  ELSE SubSeq(text, p, NextQuote(p) - 1) \o SubSeq(text, NextQuote(p) + 1, end - 1)
GetValue(p) ==
  LET end == ValueEnd(p)
      s == RemoveSpaceAfter(WithoutOpening(p, end))
  IN [data |-> IF end > Len(text) THEN WithoutOpening(p, end)
               ELSE IF s # <<>> /\ Last(s) = Quote THEN Front(s) ELSE s,
      pos |-> end]

-----------------------------------------------------------------------------

Empty(name) == [name |-> name, members |-> <<>>, i |-> 0]
\* json_decode begins; the caller has read the brace of an inner object
Begins(p) == IF At(Gobble(p)) = LBrace THEN [pos |-> Gobble(p) + 1, level |-> level]
             ELSE [pos |-> Gobble(p), level |-> level + 1]

Init ==
  /\ config \in Saved
  /\ \E style \in Styles : text = Text(config, style)
  /\ pos = 1 /\ level = 0 /\ objs = <<>> /\ token = <<>> /\ act = "load"

Load ==
  /\ act = "load"
  /\ objs' = <<Empty(<<>>)>>
  /\ pos' = Begins(pos).pos /\ level' = Begins(pos).level
  /\ act' = "member"
  /\ UNCHANGED <<config, text, token>>

Top == Last(objs)
AddTo(o, members) == [o EXCEPT !.members = @ \o members]

ReadName ==
  /\ act = "member" /\ Top.i < MaxMembers
  /\ LET n == GetName(Gobble(pos)) IN
     /\ token' = n.name /\ pos' = Gobble(n.pos)
     /\ act' = IF n.ok THEN "value" ELSE "exit"
  /\ UNCHANGED <<config, text, level, objs>>

ReadValue ==
  /\ act = "value" /\ At(pos) # LBrace
  /\ LET v == GetValue(pos) IN
     /\ objs' = Front(objs) \o <<AddTo(Top, Member(token, v.data))>>
     /\ pos' = v.pos
  /\ act' = "next"
  /\ UNCHANGED <<config, text, level, token>>

Open ==
  /\ act = "value" /\ At(pos) = LBrace
  /\ objs' = Append(objs, Empty(token))
  /\ pos' = Begins(pos + 1).pos /\ level' = Begins(pos + 1).level
  /\ act' = "member"
  /\ UNCHANGED <<config, text, token>>

\* json_decode returns to the one that called it, or to json_load
Return ==
  IF Len(objs) = 1 THEN act' = "loaded" /\ UNCHANGED objs
  ELSE LET outer == Front(objs) IN
       /\ objs' = Front(outer) \o <<AddTo(Last(outer), Node(Top.name, Top.members))>>
       /\ act' = "next"

\* the closing brace takes the comma after it along
Close ==
  /\ act = "next"
  /\ LET g == Gobble(pos)
         c == IF At(g) = Comma THEN g + 1 ELSE g
     IN /\ At(c) = RBrace
        /\ pos' = IF At(c + 1) = Comma THEN c + 2 ELSE c + 1
  /\ level' = level - 1
  /\ Return
  /\ UNCHANGED <<config, text, token>>

Separator ==
  /\ act = "next"
  /\ LET g == Gobble(pos)
         c == IF At(g) = Comma THEN g + 1 ELSE g
     IN At(c) # RBrace /\ pos' = c
  /\ objs' = [objs EXCEPT ![Len(objs)].i = @ + 1]
  /\ act' = "member"
  /\ UNCHANGED <<config, text, level, token>>

\* the loop over members runs out, inside the object
TooMany ==
  /\ act = "member" /\ Top.i = MaxMembers
  /\ Return
  /\ UNCHANGED <<config, text, pos, level, token>>

Next == Load \/ ReadName \/ ReadValue \/ Open \/ Close \/ Separator \/ TooMany

Spec == Init /\ [][Next]_vars

-----------------------------------------------------------------------------

\* names and words have no quotes
Item == [kind : {"value", "object", "end"}, name : Seq(STRING \ {Quote}), data : Seq(STRING \ {Quote})]

\* objects end where they have begun
IsTree(c) ==
  /\ c \in Seq(Item)
  /\ \A k \in DOMAIN c : c[k].kind = "object" => c[k] = Begin(c[k].name)
  /\ \A k \in DOMAIN c : c[k].kind = "end" => c[k] = End /\ Len(Counts(c)[k - 1]) > 1
  /\ Len(Counts(c)[Len(c)]) = 1

JsonAssumption ==
  /\ \A c \in Saved : IsTree(c)
  /\ Numbers \cap (White \cup {Quote, Comma, LBrace, RBrace}) = {}
  /\ MaxMembers \in Nat

\* every object has a member, and none has more than json_decode reads
Fits(c) ==
  \A k \in 0 .. Len(c) :
    /\ \A j \in DOMAIN Counts(c)[k] : Counts(c)[k][j] <= MaxMembers
    /\ (k = Len(c) \/ c[k + 1].kind = "end") => Last(Counts(c)[k]) > 0

\* What the window or the program wrote is what json_load reads, whatever commas, braces
\* and spaces the values contain and however deep the tree, when every object has a member
\* and none has more than json_decode reads.
SavedIsLoaded ==
  act \in {"loaded", "exit"} /\ Fits(config) => act = "loaded" /\ Top.members = config
=============================================================================
