--------------------------------- MODULE Ls ---------------------------------
(***************************************************************************)
(* ls: the selected entries of a directory are read at once, in their      *)
(* order; after that each is looked up by its name and printed, while      *)
(* others may remove it.  A link is looked up as what it leads to.         *)
(***************************************************************************)
EXTENDS Integers, SequencesExt, FiniteSetsExt

CONSTANTS Names,         \* all names, in the order of alphasort
          Width,         \* the length of each
          Files,         \* what an entry may be: [link, letter, x, known]
          Columns        \* what ws.ws_col may be

Directory == [link |-> FALSE, letter |-> "d", x |-> TRUE, known |-> TRUE]

LsAssumption ==
  /\ Width \in [Range(Names) -> Nat \ {0}] /\ Columns \subseteq Nat
  /\ \A f \in Files : f.letter \in {"-", "d", "p", "?", "none"}
  /\ Directory \in Files

VARIABLES dir,           \* the directory: its names, and what they are
          selector, flag_1, flag_l, flag_G, ws_col,
          dentries, i,   \* what scandir returned, and the index in it
          out,           \* what was printed: colours, names with "\n" or "pad", "\n"
          pc             \* "start", "list", "done", "failed" or "trap"

opts == <<selector, flag_1, flag_l, flag_G, ws_col>>
vars == <<dir, opts, dentries, i, out, pc>>

Dots == {".", ".."}
Hidden == {".", "..", ".h"}  \* d_name[0] == '.'

\* ws is read although ioctl may have left it as it was: any width.
Init ==
  /\ \E there \in SUBSET Range(Names) : Dots \subseteq there /\ dir \in [there -> Files]
  /\ \A n \in Dots : dir[n] = Directory
  /\ selector \in {"all", "almost_all", "non_hidden"}
  /\ flag_1 \in BOOLEAN /\ flag_l \in BOOLEAN /\ flag_G \in BOOLEAN
  /\ ws_col \in Columns
  /\ dentries = <<>> /\ i = 0 /\ out = <<>> /\ pc = "start"

Selects(n) ==
  CASE selector = "all" -> TRUE
    [] selector = "almost_all" -> n \notin Dots
    [] selector = "non_hidden" -> n \notin Hidden

\* The directory is not there, or not to be read.
NoList ==
  /\ pc = "start" /\ pc' = "failed"
  /\ UNCHANGED <<dir, opts, dentries, i, out>>

Scandir ==
  /\ pc = "start" /\ pc' = "list"
  /\ dentries' = SelectSeq(Names, LAMBDA n : n \in DOMAIN dir /\ Selects(n))
  /\ UNCHANGED <<dir, opts, i, out>>

maxdentrylen == Max({1} \cup {Width[dentries[k]] : k \in DOMAIN dentries})

\* Mutant: no room for the blank between two names.
PerRowTight == ws_col \div maxdentrylen

dentries_per_row == ws_col \div (maxdentrylen + 1)

Colour(f) ==
  CASE f.letter = "d" -> "blue" [] f.letter = "p" -> "yellow" [] f.letter = "?" -> "red"
    [] f.letter = "l" -> "cyan"
    [] f.letter = "-" -> IF f.x THEN "green" ELSE "white"

Reset(ends) == IF flag_G THEN <<"reset">> ELSE <<>>

RowEnds == (i % dentries_per_row) = dentries_per_row - 1 \/ i + 1 = Len(dentries)

\* One entry printed, on a line of its own or in a row of names.
Entry(n) ==
  LET columns == ~flag_1 /\ ~flag_l
      ends == ~columns \/ RowEnds
  IN  (IF flag_G THEN <<Colour(dir[n])>> ELSE <<>>) \o <<n>>
        \o (IF ends THEN <<"\n">> ELSE <<>>) \o Reset(ends)

\* stat follows a link: it fails when that leads nowhere ("none").
Stats(n) == n \in DOMAIN dir /\ dir[n].letter # "none"

\* stat, getpwuid and getgrgid: the first that fails ends the program.
Lost ==
  /\ pc = "list" /\ i < Len(dentries)
  /\ Stats(dentries[i + 1]) => ~dir[dentries[i + 1]].known
  /\ pc' = "failed" /\ UNCHANGED <<dir, opts, dentries, i, out>>

\* i % dentries_per_row where no name fits into a row.
Trap ==
  /\ pc = "list" /\ i < Len(dentries)
  /\ Stats(dentries[i + 1]) /\ dir[dentries[i + 1]].known
  /\ ~flag_1 /\ ~flag_l /\ dentries_per_row = 0
  /\ pc' = "trap"
  /\ out' = out \o (IF flag_G THEN <<Colour(dir[dentries[i + 1]])>> ELSE <<>>) \o <<dentries[i + 1]>>
  /\ UNCHANGED <<dir, opts, dentries, i>>

Shows ==
  /\ pc = "list" /\ i < Len(dentries)
  /\ Stats(dentries[i + 1]) /\ dir[dentries[i + 1]].known
  /\ flag_1 \/ flag_l \/ dentries_per_row # 0
  /\ out' = out \o Entry(dentries[i + 1]) /\ i' = i + 1
  /\ UNCHANGED <<dir, opts, dentries, pc>>

Ends ==
  /\ pc = "list" /\ i = Len(dentries) /\ pc' = "done"
  /\ UNCHANGED <<dir, opts, dentries, i, out>>

\* Someone else removes a file.
Unlink ==
  /\ pc \in {"start", "list"}
  /\ \E n \in DOMAIN dir \ Dots : dir' = [m \in DOMAIN dir \ {n} |-> dir[m]]
  /\ UNCHANGED <<opts, dentries, i, out, pc>>

Done == pc \in {"done", "failed", "trap"} /\ UNCHANGED vars

Next == NoList \/ Scandir \/ Lost \/ Trap \/ Shows \/ Ends \/ Unlink \/ Done
Spec == Init /\ [][Next]_vars

-----------------------------------------------------------------------------
Listed == SelectSeq(out, LAMBDA t : t \in Range(Names))

TypeOK ==
  /\ DOMAIN dir \subseteq Range(Names) /\ Range(dentries) \subseteq Range(Names)
  /\ i \in 0..Len(dentries) /\ pc \in {"start", "list", "done", "failed", "trap"}
  /\ Len(Listed) = i + (IF pc = "trap" THEN 1 ELSE 0)

\* A listing that is complete has every entry that is still there and is asked
\* for, each once and in order: by default those without a dot, with -A all
\* but the directory itself and its parent, with -a all.
ListsDirectory ==
  pc = "done" =>
    LET asked == IF selector = "all" THEN Range(Names)
                 ELSE IF selector = "almost_all" THEN Range(Names) \ Dots ELSE Range(Names) \ Hidden
    IN  /\ DOMAIN dir \cap asked \subseteq Range(Listed) /\ Range(Listed) \subseteq asked
        /\ \A j, k \in DOMAIN Listed : j < k => IndexFirstSubSeq(<<Listed[j]>>, Names)
                                                 < IndexFirstSubSeq(<<Listed[k]>>, Names)

\* A listing that has failed is the beginning of the list: what is missing
\* stands behind an entry that has gone, leads nowhere, or has no owner.
Known(n) == Stats(n) /\ dir[n].known
MissingBehindLost ==
  pc = "failed" =>
    /\ Listed = SubSeq(dentries, 1, i)
    /\ dentries # <<>> => \E k \in DOMAIN dentries : ~Known(dentries[k]) /\ dentries[k] \notin Range(Listed)
                           /\ \A j \in DOMAIN dentries : dentries[j] \notin Range(Listed) => j >= k

\* Where each row ends in what was printed.
Breaks == {0} \cup {k \in DOMAIN out : out[k] = "\n"}
InRow(b) ==  \* the names between b and the next end
  {k \in DOMAIN out : k > b /\ out[k] \in Range(Names) /\ \A e \in Breaks : e > b => k < e}

\* The names in columns, each with its blanks, stay within the terminal, no
\* row could have held another, and the last row is ended too.
RowsFit ==
  ~flag_1 /\ ~flag_l /\ pc # "trap" =>
    /\ \A b \in Breaks : Cardinality(InRow(b)) * (maxdentrylen + 1) <= ws_col
    /\ \A b \in Breaks : (\E e \in Breaks : e > b) /\ b + 1 <= Len(out)
          /\ (\E k \in DOMAIN out : k > b /\ out[k] \in Range(Names) /\ k \notin InRow(b))
            => (Cardinality(InRow(b)) + 1) * (maxdentrylen + 1) > ws_col
    /\ pc = "done" /\ Listed # <<>> => "\n" \in {out[Len(out)], out[Max({1, Len(out) - 1})]}

\* Whatever ends the listing but a trap, the terminal has its own colour back.
ColourOff ==
  pc \in {"done", "failed"} =>
    \A k \in DOMAIN out : out[k] \in {"blue", "yellow", "red", "cyan", "green", "white"} =>
      \E m \in DOMAIN out : m > k /\ out[m] = "reset"
=============================================================================
