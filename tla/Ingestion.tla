------------------------------ MODULE Ingestion ------------------------------
(***************************************************************************)
(* What one run of ingest_resource takes from a source: how a page is      *)
(* fetched, which files of a clone are read, how a text is cut, what the   *)
(* budgets of an index leave out, and when a refresh keeps the snapshot it *)
(* has.  A run is one transaction; the inputs are enumerated.              *)
(***************************************************************************)
EXTENDS Integers, Sequences, FiniteSets, FiniteSetsExt

CONSTANTS
    MaxText,      \* bounds the characters of a text
    MaxWindow,    \* bounds max_chars
    MaxDocs,      \* bounds the documents of a source
    MaxHops,      \* bounds the answers of a web server
    Commits,      \* what the branch of a repository may point to
    Limits        \* configurations: branch, file, chunk and symbol budgets

ASSUME IngestConstants ==
    /\ {MaxText, MaxWindow, MaxDocs, MaxHops} \subseteq Nat
    /\ Limits # {}
    /\ \A l \in Limits : l = [branch |-> l.branch, files |-> l.files, chunks |-> l.chunks,
                               symbols |-> l.symbols]

VARIABLE job      \* one text, tree, page or budget, or a repository and its snapshot

-----------------------------------------------------------------------------
(* iter_chunks *)

\* A text is a sequence of letters "x", blanks "s" and line ends "n".
Blank(c) == c # "x"

\* The last place of a separator in a window, where it begins; 0 is none.  Places
\* count from 1, so that a separator counts in the upper half of the window.
LastAt(text, start, end, sep) ==
    LET at == {i \in start..(end - Len(sep) + 1) : \A j \in 1..Len(sep) : text[i + j - 1] = sep[j]}
    IN  IF at = {} THEN 0 ELSE Max(at)

Cuts(text, start, end, max) ==
    {k \in 1..3 : LET sep == <<<<"n", "n">>, <<"n">>, <<"s">>>>[k]
                      at == LastAt(text, start, end, sep)
                  IN  at # 0 /\ at - start >= max \div 2}

\* The last character of the window that begins at start.
WindowEnd(text, start, max) ==
    LET end == Min({start + max - 1, Len(text)})
        cuts == Cuts(text, start, end, max)
        best == Min(cuts)
    IN  IF end = Len(text) \/ cuts = {} THEN end
        ELSE LastAt(text, start, end, <<<<"n", "n">>, <<"n">>, <<"s">>>>[best]) + (IF best = 1 THEN 1 ELSE 0)

\* Mutant: the next window begins as if none had been cut short.
NextStartFixed(text, start, max, overlap) ==
    Max({start + max - overlap, start + 1})

NextStart(text, start, max, overlap) ==
    Max({WindowEnd(text, start, max) + 1 - overlap, start + 1})

\* Where the windows begin, one after the other.
Starts(text, max, wanted) ==
    LET overlap == Min({wanted, max - 1})
        after[i \in 0..Len(text)] ==
            IF i = 0 THEN IF \A j \in DOMAIN text : Blank(text[j]) THEN <<>> ELSE <<1>>
            ELSE LET s == after[i - 1]
                 IN  IF s = <<>> \/ WindowEnd(text, s[Len(s)], max) = Len(text) THEN s
                     ELSE Append(s, NextStart(text, s[Len(s)], max, overlap))
    IN  after[Len(text)]

\* The chunks: the windows without the blank ones.
Chunks(text, max, overlap) ==
    LET starts == Starts(text, max, overlap)
        windows == {starts[i]..WindowEnd(text, starts[i], max) : i \in DOMAIN starts}
    IN  {w \in windows : \E i \in w : ~Blank(text[i])}

-----------------------------------------------------------------------------
(* iter_repo_files *)

\* A file is "text", "binary", or "other": a link, a skipped name, unreadable.
RepoFile == [kind : {"text", "binary", "other"}, size : 1..2]

NoneRead == [read |-> {}, bytes |-> 0, skipped |-> FALSE, truncated |-> FALSE]

\* A file too large, or that no longer fits, is passed over and noted; the first
\* name after the last file allowed ends the walk.
Visit(st, file, i, limits) ==
    IF st.truncated THEN st
    ELSE IF Cardinality(st.read) >= limits.files THEN [st EXCEPT !.truncated = TRUE]
    ELSE IF file.kind = "other" THEN st
    ELSE IF file.size > limits.file \/ st.bytes + file.size > limits.total
    THEN [st EXCEPT !.skipped = TRUE]
    ELSE IF file.kind = "text" THEN [st EXCEPT !.read = @ \cup {i}, !.bytes = @ + file.size]
    ELSE st

Walk(files, limits) ==
    LET after[i \in 0..Len(files)] ==
            IF i = 0 THEN NoneRead ELSE Visit(after[i - 1], files[i], i, limits)
    IN  after[Len(files)]

CoverageTruncated(walk) == walk.truncated \/ walk.skipped

-----------------------------------------------------------------------------
(* fetch_url_document *)

\* The answers of the addresses one after the other: whether each is public, and
\* what it returns.
Answer == [public : BOOLEAN, gives : {"document", "redirect", "refusal"}]

Attempts(redirects) == redirects + 1

\* An address is validated before it is asked; the loop ends with a document, an
\* error or its attempts.
Fetch(chain, redirects) ==
    LET after[i \in 0..MaxHops] ==
            IF i = 0 THEN [asked |-> 0, outcome |-> "redirect"]
            ELSE LET st == after[i - 1]
                 IN  IF st.outcome # "redirect" \/ i > Attempts(redirects) \/ i > Len(chain) THEN st
                     ELSE IF ~chain[i].public THEN [st EXCEPT !.outcome = "refusal"]
                     ELSE [asked |-> i, outcome |-> chain[i].gives]
    IN  after[MaxHops]

-----------------------------------------------------------------------------
(* ingest_resource: the budgets of chunks and symbols *)

\* A document is how many chunks and symbols it has; a blank one has none of either.
Document == {d \in [chunks : 0..2, symbols : 0..2] : d.chunks = 0 => d.symbols = 0}

NoneIndexed == [chunks |-> <<>>, symbols |-> <<>>, fullChunks |-> FALSE, fullSymbols |-> FALSE]

Total(s) ==
    LET sum[i \in 0..Len(s)] == IF i = 0 THEN 0 ELSE sum[i - 1] + s[i]
    IN  sum[Len(s)]

\* The symbols of a document come before its chunks; the loop over the documents
\* ends at the first chunk above the budget, that over symbols for good.
IndexDocument(st, d, maxChunks, maxSymbols) ==
    LET chunks == Min({d.chunks, maxChunks - Total(st.chunks)})
        symbols == IF st.fullSymbols THEN 0 ELSE Min({d.symbols, maxSymbols - Total(st.symbols)})
    IN  IF st.fullChunks THEN [st EXCEPT !.chunks = Append(@, 0), !.symbols = Append(@, 0)]
        ELSE [chunks |-> Append(st.chunks, chunks), symbols |-> Append(st.symbols, symbols),
              fullChunks |-> d.chunks > chunks,
              fullSymbols |-> st.fullSymbols \/ d.symbols > symbols]

IndexDocuments(docs, maxChunks, maxSymbols) ==
    LET after[i \in 0..Len(docs)] ==
            IF i = 0 THEN NoneIndexed
            ELSE IndexDocument(after[i - 1], docs[i], maxChunks, maxSymbols)
    IN  after[Len(docs)]

\* docs_for_index: the documents that get a file, a node and a manifest row.
Stored(docs, st) ==
    IF st.fullChunks THEN {i \in DOMAIN docs : st.chunks[i] > 0} ELSE DOMAIN docs

\* build_graph_index extracts the symbols again, up to as many as were indexed.
GraphSymbols(docs, st) ==
    LET read == [i \in DOMAIN docs |-> IF i \in Stored(docs, st) THEN docs[i].symbols ELSE 0]
        before(i) == Total(SubSeq(read, 1, i - 1))
        left(i) == IF Total(st.symbols) > before(i) THEN Total(st.symbols) - before(i) ELSE 0
    IN  [i \in Stored(docs, st) |->
            IF st.fullSymbols THEN Min({docs[i].symbols, left(i)}) ELSE docs[i].symbols]

BudgetWarned(st) == st.fullChunks \/ st.fullSymbols

-----------------------------------------------------------------------------
(* Refreshes of a git resource *)

\* extraction_fingerprint of _collect_git.
Fingerprint(limits) == <<limits.branch, limits.files, limits.chunks, limits.symbols>>

NoSnapshot == [commit |-> "none"]

\* The current snapshot is kept by a scheduled run that finds the same commit and
\* fingerprint.
Keeps(trigger, snapshot, commit, limits) ==
    /\ trigger = "scheduled" /\ snapshot # NoSnapshot
    /\ snapshot.commit = commit /\ Fingerprint(snapshot.limits) = Fingerprint(limits)

-----------------------------------------------------------------------------
(* Jobs *)

SeqsUpTo(S, n) == UNION {[1..k -> S] : k \in 0..n}

IngestInit ==
    \/ \E text \in SeqsUpTo({"x", "s", "n"}, MaxText), max \in 1..MaxWindow, overlap \in 0..MaxWindow :
        job = [kind |-> "text", text |-> text, max |-> max, overlap |-> overlap]
    \/ \E files \in SeqsUpTo(RepoFile, MaxDocs), file \in 1..2, count \in 1..2, total \in 1..3 :
        job = [kind |-> "tree", files |-> files,
               limits |-> [file |-> file, files |-> count, total |-> total]]
    \/ \E chain \in SeqsUpTo(Answer, MaxHops), redirects \in 1..(MaxHops - 1) :
        job = [kind |-> "page", chain |-> chain, redirects |-> redirects]
    \/ \E docs \in SeqsUpTo(Document, MaxDocs), maxChunks, maxSymbols \in 1..3 :
        job = [kind |-> "index", docs |-> docs, maxChunks |-> maxChunks, maxSymbols |-> maxSymbols]
    \/ \E commit \in Commits, limits \in Limits :
        job = [kind |-> "refresh", commit |-> commit, limits |-> limits, snapshot |-> NoSnapshot, fresh |-> FALSE]

\* A push to the branch, or another configuration of the resource.
ChangeSource ==
    /\ job.kind = "refresh"
    /\ \E commit \in Commits, limits \in Limits :
        job' = [job EXCEPT !.commit = commit, !.limits = limits, !.fresh = FALSE]

RefreshGit(trigger) ==
    /\ job.kind = "refresh"
    /\ job' = [job EXCEPT !.fresh = TRUE,
                   !.snapshot = IF Keeps(trigger, @, job.commit, job.limits) THEN @
                                ELSE [commit |-> job.commit, limits |-> job.limits]]

IngestNext == ChangeSource \/ \E trigger \in {"scheduled", "manual"} : RefreshGit(trigger)

IngestSpec == IngestInit /\ [][IngestNext]_job

-----------------------------------------------------------------------------
(* Properties *)

\* Every letter of a text is in a chunk, and no chunk is longer than allowed,
\* whatever separators its windows are cut at and however far they overlap
\* (iter_chunks).
ChunksCover ==
    job.kind = "text" =>
        LET chunks == Chunks(job.text, job.max, job.overlap)
        IN  /\ \A i \in DOMAIN job.text : ~Blank(job.text[i]) => \E c \in chunks : i \in c
            /\ \A c \in chunks : Cardinality(c) <= job.max

\* The files read of a clone are within the budgets; a text file that is left out is
\* either noted as truncated coverage or does not exist, so that a snapshot not
\* marked truncated holds every one (iter_repo_files, _collect_git).
TruncationIsNoted ==
    job.kind = "tree" =>
        LET walk == Walk(job.files, job.limits)
        IN  /\ Cardinality(walk.read) <= job.limits.files /\ walk.bytes <= job.limits.total
            /\ CoverageTruncated(walk)
                \/ walk.read = {i \in DOMAIN job.files : job.files[i].kind = "text"}

\* No address is asked that was not found public, and a document at most
\* max_redirects redirects away is fetched (fetch_url_document).
FetchFollows ==
    job.kind = "page" =>
        LET fetch == Fetch(job.chain, job.redirects)
        IN  /\ \A i \in 1..fetch.asked : job.chain[i].public
            /\ \A n \in DOMAIN job.chain :
                (n <= job.redirects + 1 /\ job.chain[n].gives = "document"
                    /\ (\A i \in 1..n : job.chain[i].public)
                    /\ \A i \in 1..(n - 1) : job.chain[i].gives = "redirect")
                => fetch = [asked |-> n, outcome |-> "document"]

\* Whatever the budgets cut off, a file is stored for every document with a chunk,
\* the graph holds the symbols indexed of the stored files and no others, and a
\* warning is left just if a chunk, a symbol or a file is missing (ingest_resource,
\* build_graph_index).
IndexAgrees ==
    job.kind = "index" =>
        LET st == IndexDocuments(job.docs, job.maxChunks, job.maxSymbols)
            stored == Stored(job.docs, st)
            graph == GraphSymbols(job.docs, st)
        IN  /\ Total(st.chunks) <= job.maxChunks /\ Total(st.symbols) <= job.maxSymbols
            /\ \A i \in DOMAIN job.docs : st.chunks[i] > 0 => i \in stored
            /\ \A i \in stored : graph[i] = st.symbols[i]
            /\ BudgetWarned(st) <=>
                \E i \in DOMAIN job.docs :
                    \/ st.chunks[i] < job.docs[i].chunks \/ st.symbols[i] < job.docs[i].symbols
                    \/ i \notin stored

\* After a refresh the current snapshot is of the commit and the configuration the
\* refresh found, whether it was made anew or kept (ingest_resource).
SnapshotIsCurrent ==
    job.kind = "refresh" /\ job.fresh =>
        job.snapshot = [commit |-> job.commit, limits |-> job.limits]

\* What is indexed is what the source holds, but for what the budgets cut off and the
\* snapshot says so.  (ingestion.py)
IndexIsFaithful ==
    ChunksCover /\ TruncationIsNoted /\ FetchFollows /\ IndexAgrees /\ SnapshotIsCurrent

=============================================================================
