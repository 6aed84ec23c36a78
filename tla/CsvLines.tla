------------------------------ MODULE CsvLines ------------------------------
(***************************************************************************)
(* The lines of a shard file.  A file is a sequence of lines, a line a     *)
(* sequence of the characters that matter: comma, "v" (a number), " "      *)
(* (white space) and the newline at its end.  The value of a number is its *)
(* position in the line.                                                   *)
(***************************************************************************)
EXTENDS Integers, Sequences, FiniteSetsExt

Blank(line) == \A p \in DOMAIN line : line[p] \in {" ", "\n"}

Commas(line) == Cardinality({p \in DOMAIN line : line[p] = ","})

\* Where strtok_r starts its tokens: no token is empty.
Tokens(line) == {p \in DOMAIN line : line[p] # "," /\ (p > 1 => line[p - 1] = ",")}

\* Where its token number c starts, counting from 0.
Token(line, c) ==
  CHOOSE p \in Tokens(line) : Cardinality({q \in Tokens(line) : q < p}) = c

\* strtof from position p: the first number before the next comma, or 0.
Number(line, p) ==
  LET found == {q \in p .. Len(line) :
                  line[q] = "v" /\ \A r \in p .. q : line[r] # ","}
  IN  IF found = {} THEN 0 ELSE Min(found)

-----------------------------------------------------------------------------
(* What a CSV file means, without reference to how it is read.             *)

\* Which lines of f hold a sample, and how many of them the first n lines have.
SampleLines(f) == {p \in DOMAIN f : ~ Blank(f[p])}
SamplesIn(f, n) == Cardinality({p \in SampleLines(f) : p <= n})

\* Where field c of a line starts, counting from 0: every comma separates.
FieldStart(line, c) ==
  1 + Max({0} \cup {p \in DOMAIN line :
             line[p] = "," /\ Cardinality({q \in 1 .. p : line[q] = ","}) <= c})

\* Every row has the same number of columns, at least two.
Accepts(f) ==
  /\ SampleLines(f) # {}
  /\ \A p, q \in SampleLines(f) : Commas(f[p]) >= 1 /\ Commas(f[p]) = Commas(f[q])

HasEmptyField(line) == Cardinality(Tokens(line)) # Commas(line) + 1
=============================================================================
