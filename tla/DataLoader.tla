----------------------------- MODULE DataLoader -----------------------------
(***************************************************************************)
(* load_data (data.c): two passes over a CSV file, the first to count      *)
(* samples and features, the second to fill the two arrays.  The file does *)
(* not change in between.                                                  *)
(***************************************************************************)
EXTENDS CsvLines

CONSTANT Uninitialised

ASSUME UninitialisedAssumption == Uninitialised \notin Nat

VARIABLES
  file,               \* what `filename` names
  pc,
  pos,                \* lines getline has returned in this pass
  samples, features,
  X, y, row,
  held,               \* what has been acquired and not released
  fault               \* did fopen or malloc fail?

loadVars == <<file, pc, pos, samples, features, X, y, row, held, fault>>

LoadInit ==
  /\ file = <<>>
  /\ pc = "idle"
  /\ pos = 0
  /\ samples = 0
  /\ features = -1
  /\ X = <<>> /\ y = <<>> /\ row = 0
  /\ held = {}
  /\ fault = FALSE

\* load_data is called with the name of one of these files.
Call(files) ==
  /\ pc = "idle"
  /\ pc' = "open"
  /\ file' \in files
  /\ UNCHANGED <<pos, samples, features, X, y, row, held, fault>>

OpenFile ==
  /\ pc = "open"
  /\ \/ pc' = "count" /\ held' = {"file"} /\ UNCHANGED fault
     \/ pc' = "failed" /\ fault' = TRUE /\ UNCHANGED held
  /\ UNCHANGED <<file, pos, samples, features, X, y, row>>

\* getline returns the next line; its buffer is the function's to free.
GetLine ==
  /\ pos < Len(file)
  /\ pos' = pos + 1
  /\ held' = held \cup {"line"}

Line == file[pos + 1]

\* Both passes skip such a line.
SkipBlank ==
  /\ pc \in {"count", "parse"}
  /\ GetLine
  /\ Blank(Line)
  /\ UNCHANGED <<file, pc, samples, features, X, y, row, fault>>

\* The first line with a sample decides; or every line that has two columns
\* will do.
Mutant_ColumnsOK(line) == Commas(line) >= 1
ColumnsOK(line) == IF features = -1 THEN Commas(line) >= 1 ELSE Commas(line) = features

CountLine ==
  /\ pc = "count"
  /\ GetLine
  /\ ~ Blank(Line)
  /\ ColumnsOK(Line)
  /\ features' = Commas(Line)
  /\ samples' = samples + 1
  /\ UNCHANGED <<file, pc, X, y, row, fault>>

\* An error return: what was acquired, but for what its own calls of free and
\* fclose release.
Fail(acquired, released) == pc' = "failed" /\ held' = acquired \ released

\* The first sample has no label besides its features.
TooFewColumns ==
  /\ pc = "count"
  /\ pos < Len(file)
  /\ ~ Blank(Line)
  /\ features = -1 /\ ~ ColumnsOK(Line)
  /\ Fail(held \cup {"line"}, {"line", "file"})
  /\ UNCHANGED <<file, pos, samples, features, X, y, row, fault>>

InconsistentColumns ==
  /\ pc = "count"
  /\ pos < Len(file)
  /\ ~ Blank(Line)
  /\ features # -1 /\ ~ ColumnsOK(Line)
  /\ Fail(held \cup {"line"}, {"line", "file"})
  /\ UNCHANGED <<file, pos, samples, features, X, y, row, fault>>

\* The getline that finds the end of the file has a buffer as well.
NoSamples ==
  /\ pc = "count"
  /\ pos = Len(file)
  /\ samples = 0
  /\ Fail(held \cup {"line"}, {"line", "file"})
  /\ UNCHANGED <<file, pos, samples, features, X, y, row, fault>>

\* Two calls of malloc, then rewind.
Allocate ==
  /\ pc = "count"
  /\ pos = Len(file)
  /\ samples > 0
  /\ X' = [i \in 0 .. samples * features - 1 |-> Uninitialised]
  /\ y' = [i \in 0 .. samples - 1 |-> Uninitialised]
  /\ pc' = "parse"
  /\ pos' = 0
  /\ held' = held \cup {"X", "y"}
  /\ UNCHANGED <<file, samples, features, row, fault>>

\* One of them fails, or both; the labels, which may be there, are not freed.
Mutant_AllocationFails ==
  /\ pc = "count"
  /\ pos = Len(file)
  /\ samples > 0
  /\ \E got \in SUBSET {"X", "y"} :
       /\ got # {"X", "y"}
       /\ Fail(held \cup got, {"line", "file", "X"})
  /\ fault' = TRUE
  /\ UNCHANGED <<file, pos, samples, features, X, y, row>>

AllocationFails ==
  /\ pc = "count"
  /\ pos = Len(file)
  /\ samples > 0
  /\ \E got \in SUBSET {"X", "y"} :
       /\ got # {"X", "y"}
       /\ Fail(held \cup got, {"line", "file", "X", "y"})
  /\ fault' = TRUE
  /\ UNCHANGED <<file, pos, samples, features, X, y, row>>

\* Where in X the token in column col goes; or the stride is the other count.
Mutant_Cell(col) == row * samples + col
Cell(col) == row * features + col

\* Tokens go to the row of X in order, those beyond the features to y.
ParseLine ==
  /\ pc = "parse"
  /\ GetLine
  /\ ~ Blank(Line)
  /\ LET tokens == Cardinality(Tokens(Line))
         cells == {c \in 0 .. features - 1 : c < tokens}
         value(c) == Number(Line, Token(Line, c))
     IN /\ X' = [i \in DOMAIN X |->
             IF \E c \in cells : i = Cell(c)
             THEN value(CHOOSE c \in cells : i = Cell(c)) ELSE X[i]]
        /\ y' = [y EXCEPT ![row] = IF tokens > features THEN value(tokens - 1) ELSE @]
  /\ row' = row + 1
  /\ UNCHANGED <<file, pc, samples, features, fault>>

Return ==
  /\ pc = "parse"
  /\ pos = Len(file)
  /\ pc' = "ok"
  /\ held' = held \ {"file", "line"}
  /\ UNCHANGED <<file, pos, samples, features, X, y, row, fault>>

LoadNext ==
  \/ OpenFile \/ SkipBlank \/ CountLine
  \/ TooFewColumns \/ InconsistentColumns \/ NoSamples
  \/ Allocate \/ AllocationFails \/ ParseLine \/ Return

-----------------------------------------------------------------------------

\* Whatever fails, and in whichever line, the calls of free and fclose of that
\* return name all that was acquired by then: "On error returns -1 and ensures no
\* memory is leaked"; on success the caller owns the two arrays and nothing else.
NothingLeaked ==
  /\ pc = "failed" => held = {}
  /\ pc = "ok" => held = {"X", "y"}

\* load_data returns 0 for exactly the files that are a table, unless fopen or
\* malloc fails, and then every row and column of the arrays is a legal index:
\* no line of the second pass goes beyond what the first one counted.
LoadsExactlyTables ==
  /\ pc \in {"parse", "ok"} => Accepts(file)
  /\ pc = "failed" => fault \/ ~ Accepts(file)
  /\ pc = "parse" /\ pos < Len(file) /\ ~ Blank(Line) =>
       /\ row < samples
       /\ Cardinality(Tokens(Line)) <= features + 1
       /\ \A c \in 0 .. features - 1 : Cell(c) \in DOMAIN X
  /\ pc = "ok" => row = samples

\* Each row without an empty field is loaded as written: feature c of sample r
\* is in X[r * num_features + c] and the last column in y[r].
RowsLoadedAsWritten ==
  pc = "ok" =>
    \A p \in SampleLines(file) :
      LET line == file[p]
          r == SamplesIn(file, p - 1)
      IN ~ HasEmptyField(line) =>
          /\ \A c \in 0 .. features - 1 :
               X[r * features + c] = Number(line, FieldStart(line, c))
          /\ y[r] = Number(line, FieldStart(line, features))

\* "Allocates and fills *X ... and *y": no cell is left as malloc returned it.
FilledOnSuccess ==
  pc = "ok" =>
    /\ \A i \in DOMAIN X : X[i] # Uninitialised
    /\ \A r \in DOMAIN y : y[r] # Uninitialised
=============================================================================
