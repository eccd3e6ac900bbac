------------------------------ MODULE CodeReads ------------------------------
(***************************************************************************)
(* What a remote code call selects: pages of a file, the files a path_glob *)
(* names, the budget of a scan, the matches of grep and the hits of        *)
(* search.  A file is its lines; a line is what decides about it: whether  *)
(* the pattern matches, or its score.                                      *)
(***************************************************************************)
EXTENDS Integers, Sequences, FiniteSets

CONSTANTS
    MaxReadLines,     \* MAX_READ_LINES
    MaxScannedFiles,  \* MAX_SCANNED_FILES
    MaxScannedBytes,  \* MAX_SCANNED_BYTES
    MaxLines,         \* bounds the lines of a file
    GlobChars,        \* characters of a pattern; "*" and "?" are wildcards
    PathChars,        \* characters of a path
    MaxGlob,          \* bounds patterns and paths
    MaxFiles,         \* bounds the files of grep and search,
    MaxRows,          \* and their lines
    Scores            \* scores of a line

ASSUME ReadConstants ==
    /\ MaxReadLines \in Nat \ {0}
    /\ {MaxScannedFiles, MaxScannedBytes, MaxLines, MaxGlob, MaxFiles, MaxRows} \subseteq Nat
    /\ Scores \subseteq Nat
    /\ {"any", "one"} \cap GlobChars = {}    \* what Like writes for wildcards is no character

VARIABLE probe    \* a client that reads a file page by page, or one selection

-----------------------------------------------------------------------------
(* Pages of a file *)

Lesser(a, b) == IF a < b THEN a ELSE b
Greater(a, b) == IF a > b THEN a ELSE b

\* line_range: end 0 is a request without end_line.
LastLine(total, start, end) ==
    IF end = 0 THEN Lesser(total, start + MaxReadLines - 1)
    ELSE Lesser(end, Lesser(total, start + MaxReadLines - 1))

RangeRefused(total, start, end) ==
    (IF end = 0 THEN Lesser(total, start + MaxReadLines - 1) ELSE end) < start

LineRange(total, start, end) == start..LastLine(total, start, end)

-----------------------------------------------------------------------------
(* Files of a path_glob *)

Texts(chars) == UNION {[1..n -> chars] : n \in 0..MaxGlob}

\* Mutant: "_" is not escaped.
LikeUnescaped(c) == IF c = "*" THEN "any" ELSE IF c \in {"?", "_"} THEN "one" ELSE c

\* The pattern as SQL LIKE sees it: "*" and "?" become its wildcards, and its own
\* wildcards are escaped.
Like(c) == IF c = "*" THEN "any" ELSE IF c = "?" THEN "one" ELSE c

\* Whether the first i elements of a pattern match the first j characters of a path.
Matches(pattern, path) ==
    LET m[at \in (0..Len(pattern)) \X (0..Len(path))] ==
            LET i == at[1]
                j == at[2]
            IN  IF i = 0 THEN j = 0
                ELSE IF pattern[i] = "any" THEN m[<<i - 1, j>>] \/ (j > 0 /\ m[<<i, j - 1>>])
                ELSE j > 0 /\ pattern[i] \in {"one", path[j]} /\ m[<<i - 1, j - 1>>]
    IN  m[<<Len(pattern), Len(path)>>]

\* The rows the query selects: an equality without wildcards, a LIKE with them.
Prefiltered(glob, path) ==
    IF \A i \in 1..Len(glob) : glob[i] \notin {"*", "?"} THEN glob = path
    ELSE Matches([i \in 1..Len(glob) |-> Like(glob[i])], path)

\* fnmatch.fnmatch, which grep applies to the rows that are left.
FnMatch(glob, path) ==
    \E cut \in [1..Len(glob) -> 0..Len(path)] :
        LET before(i) == IF i = 1 THEN 0 ELSE cut[i - 1]
        IN  /\ Len(glob) = 0 => Len(path) = 0
            /\ Len(glob) > 0 => cut[Len(glob)] = Len(path)
            /\ \A i \in 1..Len(glob) :
                IF glob[i] = "*" THEN before(i) <= cut[i]
                ELSE cut[i] = before(i) + 1 /\ glob[i] \in {"?", path[cut[i]]}

-----------------------------------------------------------------------------
(* Budget of a scan *)

\* _current_snapshot_files: the rows are fetched up to one above the limit; the
\* bytes of a row count before its own place is checked.
WithinBudget(sizes) ==
    LET fetched == Lesser(Len(sizes), MaxScannedFiles + 1)
        bytes[i \in 0..fetched] == IF i = 0 THEN 0 ELSE bytes[i - 1] + sizes[i]
    IN  \A i \in 1..fetched : i - 1 < MaxScannedFiles /\ bytes[i] <= MaxScannedBytes

-----------------------------------------------------------------------------
(* grep_code and search_code *)

\* A file is a sequence of BOOLEAN, whether each line matches.  The two loops stop
\* when the limit is reached.
GrepFile(file, f, from, max) ==
    LET g[i \in 0..Len(file)] ==
            IF i = 0 THEN from
            ELSE IF g[i - 1].truncated \/ ~file[i] THEN g[i - 1]
            ELSE [matches |-> Append(g[i - 1].matches, <<f, i>>),
                  truncated |-> Len(g[i - 1].matches) + 1 >= max]
    IN  g[Len(file)]

Grep(files, max) ==
    LET g[f \in 0..Len(files)] ==
            IF f = 0 THEN [matches |-> <<>>, truncated |-> FALSE]
            ELSE IF g[f - 1].truncated THEN g[f - 1]
            ELSE GrepFile(files[f], f, g[f - 1], max)
    IN  g[Len(files)]

\* The context of a match: line_window.
Before(total, line, context) == (Greater(0, line - 1 - context) + 1)..(line - 1)
After(total, line, context) == (line + 1)..Lesser(total, line + context)

\* A file is a sequence of scores, a number for each line.  The best line of a file
\* is the first of the greatest positive score; 0 is none.
BestLine(file) ==
    LET b[i \in 0..Len(file)] ==
            IF i = 0 THEN 0
            ELSE IF file[i] > (IF b[i - 1] = 0 THEN 0 ELSE file[b[i - 1]]) THEN i ELSE b[i - 1]
    IN  b[Len(file)]

\* Sorted by score and path, the first k.
SearchHits(files, k) ==
    LET score(f) == files[f][BestLine(files[f])]
        hits == {f \in 1..Len(files) : BestLine(files[f]) # 0}
        above(f) == {g \in hits : score(g) > score(f) \/ (score(g) = score(f) /\ g < f)}
    IN  {f \in hits : Cardinality(above(f)) < k}

-----------------------------------------------------------------------------
(* Probes *)

ReadsInit ==
    \/ \E total \in 0..MaxLines :
        probe = [kind |-> "page", total |-> total, at |-> 1, seen |-> {},
                 status |-> "reading"]
    \/ \E glob \in Texts(GlobChars), path \in Texts(PathChars) :
        probe = [kind |-> "glob", glob |-> glob, path |-> path]
    \/ \E n \in 0..(MaxScannedFiles + 2) : \E sizes \in [1..n -> 0..MaxScannedBytes] :
        probe = [kind |-> "budget", sizes |-> sizes]
    \/ \E files \in [1..MaxFiles -> UNION {[1..n -> BOOLEAN] : n \in 0..MaxRows}],
          max \in 1..MaxFiles :
        probe = [kind |-> "grep", files |-> files, max |-> max]
    \/ \E files \in [1..MaxFiles -> UNION {[1..n -> Scores] : n \in 0..MaxRows}],
          k \in 1..MaxFiles :
        probe = [kind |-> "search", files |-> files, k |-> k]

\* The client asks for the lines after those it has, with or without an end, until
\* it has total_lines of them.
ReadPage(end) ==
    /\ probe.kind = "page" /\ probe.status = "reading"
    /\ end = 0 \/ end >= probe.at
    /\ IF RangeRefused(probe.total, probe.at, end)
       THEN probe' = [probe EXCEPT !.status = "refused"]
       ELSE LET lines == LineRange(probe.total, probe.at, end)
                last == LastLine(probe.total, probe.at, end)
            IN  probe' = [probe EXCEPT !.at = last + 1, !.seen = @ \cup lines,
                                       !.status = IF last >= probe.total THEN "done" ELSE @]

ReadsNext == \E end \in 0..MaxLines : ReadPage(end)

ReadsSpec == ReadsInit /\ [][ReadsNext]_probe

-----------------------------------------------------------------------------
(* Properties *)

\* A client that asks for what follows the lines it has got reads every line of a
\* file once and no page is refused, whichever ends it asks for; only a read of an
\* empty file without an end is (line_range, total_lines, end_line).
PagesCover ==
    probe.kind = "page" =>
        /\ probe.seen = 1..(probe.at - 1)
        /\ probe.status = "done" => probe.seen = 1..probe.total
        /\ probe.status = "refused" => probe.total = 0

\* The rows selected for a path_glob are those fnmatch accepts: the LIKE of the
\* query drops nothing grep would have matched, and nothing more is read than it
\* needs.  (A pattern with a character class is outside: LIKE has none.)
GlobSelects ==
    probe.kind = "glob" => (Prefiltered(probe.glob, probe.path) <=> FnMatch(probe.glob, probe.path))

\* A scan is refused just if the files or their bytes are above the limit, the
\* limit itself included.
BudgetIsExact ==
    probe.kind = "budget" =>
        LET bytes[i \in 0..Len(probe.sizes)] ==
                IF i = 0 THEN 0 ELSE bytes[i - 1] + probe.sizes[i]
        IN  WithinBudget(probe.sizes) <=>
                /\ Len(probe.sizes) <= MaxScannedFiles
                /\ bytes[Len(probe.sizes)] <= MaxScannedBytes

\* grep_code returns the first matches by path and line, never more than asked for,
\* and says that it stopped whenever one is left out.
GrepIsPrefix ==
    probe.kind = "grep" =>
        LET grep == Grep(probe.files, probe.max)
            all == {m \in (1..MaxFiles) \X (1..MaxRows) :
                        m[2] <= Len(probe.files[m[1]]) /\ probe.files[m[1]][m[2]]}
            earlier(m) == {q \in all : q[1] < m[1] \/ (q[1] = m[1] /\ q[2] < m[2])}
        IN  /\ Len(grep.matches) = Lesser(probe.max, Cardinality(all))
            /\ \A n \in 1..Len(grep.matches) :
                grep.matches[n] \in all /\ Cardinality(earlier(grep.matches[n])) = n - 1
            /\ ~grep.truncated => Len(grep.matches) = Cardinality(all)

\* search_code returns the files with the best lines: no file that is left out has
\* a line with a better score than the best line of one that is returned.
SearchKeepsBest ==
    probe.kind = "search" =>
        LET hits == SearchHits(probe.files, probe.k)
            best(f) == LET s == {probe.files[f][i] : i \in 1..Len(probe.files[f])} \cup {0}
                       IN  CHOOSE x \in s : \A y \in s : y <= x
        IN  /\ Cardinality(hits) <= probe.k
            /\ \A f \in hits : best(f) > 0
            /\ \A g \in (1..Len(probe.files)) \ hits :
                best(g) > 0 => Cardinality(hits) = probe.k /\ \A f \in hits : best(f) >= best(g)

\* The reading tools of remote_code.py return what they promise at every limit.
ReadsAreExact == PagesCover /\ GlobSelects /\ BudgetIsExact /\ GrepIsPrefix /\ SearchKeepsBest

=============================================================================
