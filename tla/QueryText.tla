------------------------------- MODULE QueryText -------------------------------
(***************************************************************************)
(* The search box: what words and phrases a query asks for and which it    *)
(* excludes (packages/ranking/src/query/query-parser.ts), how far a word   *)
(* is from another one it may be a typo of (typo-corrector.ts), and the    *)
(* parser of arithmetic answers (packages/ranking/src/answers/             *)
(* math-evaluator.ts).                                                     *)
(*                                                                         *)
(* Abstractions: what an expression is worth is kept as the operations in  *)
(* the order of their evaluation (postfix), so that two readings of it are *)
(* compared and not two numbers; "n" is a number or a constant, "f" the    *)
(* name of a function, "+" also stands for "-", "*" for "/" and "%".       *)
(* Division by zero and results that are not finite are left out.  A text  *)
(* is a sequence of letters, the letters of the word "not", which is one   *)
(* item, spaces, hyphens and quotes, single and double quotes being        *)
(* treated alike; it is normalized already.  Operators such as site:,      *)
(* limits of length, stop words, accents and synonyms are left out.  A     *)
(* space at the end makes no difference.                                   *)
(***************************************************************************)
EXTENDS Integers, Sequences, FiniteSetsExt, SequencesExt

CONSTANTS
  Letters,
  MaxText,     \* bound on the length of a query
  Letter,      \* letters of the words that are compared
  MaxWord      \* bound on the length of such a word

ASSUME QueryAssumption == MaxText \in Nat /\ MaxWord \in Nat

VARIABLES
  typed,
  editSource, editTarget,
  cells         \* the cells filled so far: <<i, j>> -> distance of the prefixes

queryVars == <<typed>>
editVars  == <<editSource, editTarget, cells>>

NotWord   == "not"
WordItem  == Letters \cup {NotWord}
Items     == WordItem \cup {" ", "-", "'"}

QueryInit == typed = <<>>
TypesItem ==
  /\ Len(typed) < MaxText
  /\ \E x \in Items : /\ x = " " => typed # <<>> /\ Last(typed) # " "
                     /\ typed' = Append(typed, x)
QueryNext == TypesItem
QuerySpec == QueryInit /\ [][QueryNext]_queryVars

(***************************************************************************)
(* Words and phrases                                                       *)
(***************************************************************************)
Stands(s, i, x)  == i \in DOMAIN s /\ s[i] = x
IsWord(s, i) == i \in DOMAIN s /\ s[i] \in WordItem
EndOfWord(s, i) == Min({j \in i..Len(s) : ~IsWord(s, j + 1)})
WordAt(s, i)    == SubSeq(s, i, EndOfWord(s, i))

\* tokenize: every run of letters
Runs(s)  == {i \in DOMAIN s : IsWord(s, i) /\ ~IsWord(s, i - 1)}
Tokens(s) == {WordAt(s, i) : i \in Runs(s)}

\* the quoted phrases, from left to right: a quote, something without quotes, a quote
NextQuote(s, i) == LET qs == {j \in i..Len(s) : s[j] = "'"} IN IF qs = {} THEN 0 ELSE Min(qs)
RECURSIVE Pairs(_, _)
Pairs(s, i) ==
  LET p == NextQuote(s, i)
      q == NextQuote(s, p + 1)
  IN  IF p = 0 \/ q = 0 THEN {}
      ELSE IF q = p + 1 THEN Pairs(s, q)
      ELSE {<<p, q>>} \cup Pairs(s, q + 1)
Phrases(s) == {SubSeq(s, p[1] + 1, p[2] - 1) : p \in Pairs(s, 1)}

\* a phrase leaves a space
Remaining(s) ==
  LET ps == Pairs(s, 1)
      at == SetToSortSeq({i \in DOMAIN s : \A p \in ps : i <= p[1] \/ i > p[2]}, <)
  IN  [k \in DOMAIN at |-> IF \E p \in ps : p[1] = at[k] THEN " " ELSE s[at[k]]]

(***************************************************************************)
(* Terms and exclusions                                                    *)
(***************************************************************************)
\* what the pattern matches behind a separator: "not " or "-" or nothing, and a word
AfterSpaces(s, i) == LET js == {j \in i..Len(s) : s[j] # " "} IN IF js = {} THEN 0 ELSE Min(js)
NoMatch == [at |-> 0, excluded |-> FALSE]
MatchAt(s, i) ==
  IF Stands(s, i, NotWord) /\ Stands(s, i + 1, " ") /\ IsWord(s, AfterSpaces(s, i + 1))
  THEN [at |-> AfterSpaces(s, i + 1), excluded |-> TRUE]
  ELSE IF Stands(s, i, "-") /\ IsWord(s, i + 1) THEN [at |-> i + 1, excluded |-> TRUE]
  ELSE IF IsWord(s, i) THEN [at |-> i, excluded |-> FALSE]
  ELSE NoMatch

\* a separator is the beginning, or what is neither a letter nor a hyphen
Separates(s, i) == IF i = 0 THEN TRUE ELSE s[i] \in {" ", "'"}

\* the matches from the i-th item on, each beginning where the one before ended
RECURSIVE MatchesFrom(_, _)
MatchesFrom(s, i) ==
  LET starts == {j \in i..Len(s) : Separates(s, j) /\ MatchAt(s, j + 1).at # 0} IN
  IF starts = {} THEN {}
  ELSE LET m == MatchAt(s, Min(starts) + 1)
       IN  {[word |-> WordAt(s, m.at), excluded |-> m.excluded]} \cup MatchesFrom(s, EndOfWord(s, m.at) + 1)

Found(s)        == MatchesFrom(Remaining(s), 0)
PhraseTerms(s)  == UNION {Tokens(p) : p \in Phrases(s)}
Terms(s)        == {m.word : m \in {x \in Found(s) : ~x.excluded}} \cup PhraseTerms(s)
NegatedTerms(s) == {m.word : m \in {x \in Found(s) : x.excluded}}

(***************************************************************************)
(* damerauLevenshteinDistance: the matrix is filled cell by cell, row by   *)
(* row.                                                                    *)
(***************************************************************************)
Word == SeqOf(Letter, MaxWord)

EditTypeOK ==
  /\ editSource \in Word /\ editTarget \in Word
  /\ DOMAIN cells \subseteq (0..MaxWord) \X (0..MaxWord)
  /\ \A c \in DOMAIN cells : cells[c] \in 0..Max({c[1], c[2]})

\* the first row and the first column
EditInit ==
  /\ editSource \in Word /\ editTarget \in Word
  /\ cells = [c \in {<<i, 0>> : i \in 0..Len(editSource)} \cup {<<0, j>> : j \in 0..Len(editTarget)}
                |-> c[1] + c[2]]

EditCost(i, j) == IF editSource[i] = editTarget[j] THEN 0 ELSE 1
Transposed(i, j) == i > 1 /\ j > 1 /\ editSource[i] = editTarget[j - 1] /\ editSource[i - 1] = editTarget[j]

Cell(i, j) ==
  Min({cells[<<i - 1, j>>] + 1, cells[<<i, j - 1>>] + 1, cells[<<i - 1, j - 1>>] + EditCost(i, j)}
        \cup (IF Transposed(i, j) THEN {cells[<<i - 2, j - 2>>] + 1} ELSE {}))

EmptyCell(c) == c \notin DOMAIN cells
FillsCell ==
  \E i \in 1..Len(editSource), j \in 1..Len(editTarget) :
    /\ EmptyCell(<<i, j>>)
    /\ \A k \in 1..i, l \in 1..Len(editTarget) : k < i \/ l < j => ~EmptyCell(<<k, l>>)
    /\ cells' = [c \in DOMAIN cells \cup {<<i, j>>} |-> IF c = <<i, j>> THEN Cell(i, j) ELSE cells[c]]
    /\ UNCHANGED <<editSource, editTarget>>

EditNext == FillsCell
EditSpec == EditInit /\ [][EditNext]_editVars

(***************************************************************************)
(* Properties                                                              *)
(***************************************************************************)
QueryTypeOK ==
  typed \in Seq(Items) /\ \A w \in Terms(typed) \cup NegatedTerms(typed) : w \in Tokens(typed)

\* A word that stands behind a space or a quote, or at the beginning, is looked for or
\* excluded, also next to phrases and to quotes that are left open; only "not" may be
\* taken as a mark.
WordsCount ==
  LET counted == Terms(typed) \cup NegatedTerms(typed) \cup {<<NotWord>>}
  IN  \A i \in Runs(typed) : ~Stands(typed, i - 1, "-") => WordAt(typed, i) \in counted

\* Only what is marked is excluded: what is behind a hyphen, or behind "not" with nothing
\* but phrases between them.
ExcludedAreMarked ==
  LET quoted == PhraseTerms(typed)
  IN  \A w \in NegatedTerms(typed) :
        \E i \in Runs(typed) :
          /\ WordAt(typed, i) = w
          /\ \/ Stands(typed, i - 1, "-")
             \/ \E j \in 1..i - 1 : typed[j] = NotWord /\ Tokens(SubSeq(typed, j + 1, i - 1)) \subseteq quoted

\* Divergence: a document's words are its runs of letters, but of a query's, those behind
\* a hyphen inside a word are neither looked for nor excluded.
EveryRunCounts == Tokens(typed) \subseteq Terms(typed) \cup NegatedTerms(typed) \cup {<<NotWord>>}

FilledIn     == <<Len(editSource), Len(editTarget)>> \in DOMAIN cells
Distance == cells[<<Len(editSource), Len(editTarget)>>]

\* what one edit makes of a word
Edits(w) ==
  {RemoveAt(w, i) : i \in DOMAIN w}
    \cup {InsertAt(w, p[1], p[2]) : p \in (1..Len(w) + 1) \X Letter}
    \cup {[w EXCEPT ![p[1]] = p[2]] : p \in (DOMAIN w) \X Letter}
    \cup {[w EXCEPT ![i] = w[i + 1], ![i + 1] = w[i]] : i \in 1..Len(w) - 1}

\* The distance is 0 for the word itself, and 1 exactly for what one deletion,
\* insertion, substitution or transposition of neighbours makes of it.
OneEditIsDistanceOne ==
  FilledIn => /\ Distance = 0 <=> editSource = editTarget
          /\ Distance <= 1 <=> editTarget = editSource \/ editTarget \in Edits(editSource)

\* A word at distance 2, which is still offered as a correction, is two edits away.
DistanceTwoIsTwoEdits ==
  FilledIn /\ Distance = 2 => \E w \in Edits(editSource) : editTarget \in Edits(w)

\* "Length differential guard": findBestCorrection leaves out words by their length
\* alone, and leaves out none that are near enough.
LengthGuardIsSafe ==
  FilledIn => Distance >= Len(editSource) - Len(editTarget) /\ Distance >= Len(editTarget) - Len(editSource)

(***************************************************************************)
(* Arithmetic                                                              *)
(***************************************************************************)
CONSTANT MaxTokens   \* bound on the length of an expression

ASSUME MathAssumption == MaxTokens \in Nat

VARIABLE tokens
mathVars == <<tokens>>

Symbol == {"n", "f", "+", "*", "^", "(", ")"}

MathInit == tokens = <<>>
Types    == Len(tokens) < MaxTokens /\ \E s \in Symbol : tokens' = Append(tokens, s)
MathNext == Types
MathSpec == MathInit /\ [][MathNext]_mathVars

(***************************************************************************)
(* The descent: a parser that stands at token i returns where it ends, 0   *)
(* when it throws, and the operations it has read                          *)
(***************************************************************************)
Throws       == [at |-> 0, code |-> <<>>]
Ends(i, c)   == [at |-> i, code |-> c]
Is(i, s)     == i \in DOMAIN tokens /\ tokens[i] = s
Then(p, op)  == IF p.at = 0 THEN Throws ELSE Ends(p.at, Append(p.code, op))
Joined(l, r, op) == IF r.at = 0 THEN Throws ELSE Ends(r.at, l.code \o r.code \o <<op>>)

\* a bracket that is open is closed
Closed(p) == IF p.at # 0 /\ Is(p.at, ")") THEN Ends(p.at + 1, p.code) ELSE Throws

RECURSIVE ParseExpression(_), ParseTerm(_), ParseFactor(_), ParseUnary(_), ParsePrimary(_),
          MoreTerms(_), MoreFactors(_)

ParseExpression(i) == MoreTerms(ParseTerm(i))
MoreTerms(left) ==
  IF left.at = 0 \/ ~Is(left.at, "+") THEN left
  ELSE MoreTerms(Joined(left, ParseTerm(left.at + 1), "+"))

ParseTerm(i) == MoreFactors(ParseFactor(i))
MoreFactors(left) ==
  IF left.at = 0 \/ ~Is(left.at, "*") THEN left
  ELSE MoreFactors(Joined(left, ParseFactor(left.at + 1), "*"))

\* right-associative
ParseFactor(i) ==
  LET base == ParseUnary(i) IN
  IF base.at = 0 \/ ~Is(base.at, "^") THEN base
  ELSE Joined(base, ParseFactor(base.at + 1), "^")

ParseUnary(i) == IF Is(i, "+") THEN Then(ParsePrimary(i + 1), "sign") ELSE ParsePrimary(i)

ParsePrimary(i) ==
  CASE Is(i, "n") -> Ends(i + 1, <<"n">>)
    [] Is(i, "(") -> Closed(ParseExpression(i + 1))
    [] Is(i, "f") -> Then(IF Is(i + 1, "(") THEN Closed(ParseExpression(i + 2))
                                            ELSE ParseUnary(i + 1), "f")
    [] OTHER      -> Throws

\* parse: nothing may be left over
Parse == LET p == ParseExpression(1) IN IF p.at = Len(tokens) + 1 THEN p ELSE Throws

\* evaluate: what has no operator and no function is an ordinary query
Evaluated == IF \A i \in DOMAIN tokens : tokens[i] = "n" THEN <<>> ELSE Parse.code

(***************************************************************************)
(* Properties of arithmetic                                                *)
(***************************************************************************)
MathTypeOK == tokens \in Seq(Symbol) /\ ParseExpression(1).at \in 0..Len(tokens) + 1

\* The reading of tokens l..r by the usual rules, without a parser: it is cut at the last
\* sum outside brackets, else at the last product, else at the first power.
Open(l, i)      == Cardinality({j \in l..i - 1 : tokens[j] = "("}) - Cardinality({j \in l..i - 1 : tokens[j] = ")"})
Binary(l, i)    == i > l /\ (tokens[i] = "+" => tokens[i - 1] \in {"n", ")"})
Cuts(l, r, s)   == {i \in l..r : tokens[i] = s /\ Open(l, i) = 0 /\ Binary(l, i)}
Enclosed(l, r)  == r > l /\ tokens[l] = "(" /\ tokens[r] = ")" /\ \A i \in l + 1..r : Open(l, i) > 0

RECURSIVE Reading(_, _)
Both(l, i, r) == LET a == Reading(l, i - 1)
                     b == Reading(i + 1, r)
                 IN  IF a = <<>> \/ b = <<>> THEN <<>> ELSE a \o b \o <<tokens[i]>>
Of(code, op) == IF code = <<>> THEN <<>> ELSE Append(code, op)
Reading(l, r) ==
  CASE l > r                   -> <<>>
    [] Cuts(l, r, "+") # {}    -> Both(l, Max(Cuts(l, r, "+")), r)
    [] Cuts(l, r, "*") # {}    -> Both(l, Max(Cuts(l, r, "*")), r)
    [] Cuts(l, r, "^") # {}    -> Both(l, Min(Cuts(l, r, "^")), r)
    [] tokens[l] = "+" /\ l < r /\ tokens[l + 1] # "+" -> Of(Reading(l + 1, r), "sign")
    [] tokens[l] = "f"         -> Of(Reading(l + 1, r), "f")
    [] Enclosed(l, r)          -> Reading(l + 1, r - 1)
    [] l = r /\ tokens[l] = "n" -> <<"n">>
    [] OTHER                   -> <<>>

\* Every expression is evaluated as it reads, whatever its brackets, signs and functions,
\* and nothing else is taken for an expression.
EvaluatedAsItReads ==
  Evaluated = IF \A i \in DOMAIN tokens : tokens[i] = "n" THEN <<>> ELSE Reading(1, Len(tokens))
===============================================================================
