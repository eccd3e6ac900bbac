------------------------------- MODULE Bundles -------------------------------
(***************************************************************************)
(* Folder bundles as archives and manifests: which zips are accepted and   *)
(* where their entries land, how a text is split into sections, how two    *)
(* manifests differ and how a client pages through the difference.         *)
(***************************************************************************)
EXTENDS Naturals, Sequences, FiniteSets, FiniteSetsExt

CONSTANTS
    MaxEntries,     \* bounds the entries of an archive
    MaxFileCount,   \* max_file_count
    MaxTotalBytes,  \* max_total_bytes
    MaxFileBytes,   \* HARD_MAX_SINGLE_FILE_BYTES
    MaxDepth,       \* MAX_ARCHIVE_DEPTH
    MaxTextLines,   \* bounds the lines of a text
    Window,         \* SECTION_WINDOW_LINES
    MaxPaths        \* bounds the paths of a manifest

ASSUME BundleConstants ==
    /\ {MaxEntries, MaxFileCount, MaxTotalBytes, MaxFileBytes, MaxDepth, MaxTextLines, MaxPaths} \subseteq Nat
    /\ Window \in Nat \ {0}

VARIABLE bundle    \* an archive, a text, or a client that reads a difference

-----------------------------------------------------------------------------
(* normalize_path, validate_archive_entry *)

\* A name is the sequence of what stands between its slashes: "up" is "..", "here"
\* is ".", "none" is nothing, so that a name that begins with "none" is absolute and
\* one that ends with it names a directory.
Component == {"a", "b", "up", "here", "none"}

Name == UNION {[1..n -> Component] : n \in 1..3}

\* The name without some of its components.
Without(name, dropped) ==
    LET kept[i \in 0..Len(name)] ==
            IF i = 0 THEN <<>>
            ELSE IF name[i] \in dropped THEN kept[i - 1] ELSE Append(kept[i - 1], name[i])
    IN  kept[Len(name)]

Normalized(name) == Without(name, {"here", "none"})

PathRefused(name) ==
    \/ name[1] = "none"
    \/ \E i \in DOMAIN name : name[i] = "up"
    \/ Normalized(name) = <<>>

Depth(name) == Len(Without(name, {"none"})) - 1

\* An entry that ends with a slash is a directory, whatever its mode says.
EntryType(entry) == IF entry.name[Len(entry.name)] = "none" THEN "dir" ELSE entry.type

EntryRefused(entry) ==
    EntryType(entry) \notin {"file", "dir"} \/ PathRefused(entry.name) \/ Depth(entry.name) > MaxDepth

-----------------------------------------------------------------------------
(* validate_zip_before_extract, extract_zip_to_sandbox *)

Inside(p, q) == Len(q) < Len(p) /\ SubSeq(p, 1, Len(q)) = q

Conflict(p, q) == p = q \/ Inside(p, q) \/ Inside(q, p)

FileEntries(zip) == {i \in DOMAIN zip : EntryType(zip[i]) = "file"}

\* What each entry unpacks to.
FileSizes(zip) == [i \in DOMAIN zip |-> IF EntryType(zip[i]) = "file" THEN zip[i].size ELSE 0]

Bytes(sizes) ==
    LET sum[i \in 0..Len(sizes)] == IF i = 0 THEN 0 ELSE sum[i - 1] + sizes[i]
    IN  sum[Len(sizes)]

\* Bytes are compared with the quota; the ratio of a zip bomb is left out.
ZipAccepted(zip) ==
    LET files == FileEntries(zip)
    IN  /\ \A i \in DOMAIN zip : ~EntryRefused(zip[i])
        /\ \A i, j \in files : j < i => ~Conflict(Normalized(zip[i].name), Normalized(zip[j].name))
        /\ Cardinality(files) <= MaxFileCount
        /\ Bytes(FileSizes(zip)) <= MaxTotalBytes

NothingExtracted == [rows |-> <<>>, disk |-> {}, count |-> 0, bytes |-> 0]

Row(entry, status) == [path |-> Normalized(entry.name), status |-> status]

\* A directory entry leaves no row.  An archive within the archive is not opened; a
\* file too large or above the quota is passed over; the others are written, and
\* those that are text are to be indexed.
Extract(st, entry) ==
    IF EntryType(entry) = "dir" THEN st
    ELSE IF entry.content = "archive" THEN [st EXCEPT !.rows = Append(@, Row(entry, "unsupported"))]
    ELSE IF \/ entry.size > MaxFileBytes \/ st.count >= MaxFileCount
            \/ st.bytes + entry.size > MaxTotalBytes
    THEN [st EXCEPT !.rows = Append(@, Row(entry, "skipped"))]
    ELSE [rows |-> Append(st.rows, Row(entry, IF entry.content = "text" THEN "pending" ELSE "unsupported")),
          disk |-> st.disk \cup {Normalized(entry.name)},
          count |-> st.count + 1, bytes |-> st.bytes + entry.size]

Extracted(zip) ==
    LET after[i \in 0..Len(zip)] == IF i = 0 THEN NothingExtracted ELSE Extract(after[i - 1], zip[i])
    IN  after[Len(zip)]

-----------------------------------------------------------------------------
(* extract_sections *)

\* A line is a heading, some text, or blank.
Line == {"heading", "text", "blank"}

\* The text without the blank lines before and after it.
Stripped(lines) ==
    LET filled == {i \in DOMAIN lines : lines[i] # "blank"}
    IN  IF filled = {} THEN <<>> ELSE SubSeq(lines, Min(filled), Max(filled))

\* Sections begin at the headings, and at the first line for what precedes them.
SectionStarts(lines) ==
    LET headings == {i \in DOMAIN lines : lines[i] = "heading"}
    IN  IF headings = {} THEN {} ELSE headings \cup {1}

WindowStarts(lines) == {i \in DOMAIN lines : (i - 1) % Window = 0}

\* The sections, as their first and last lines; a text without headings is cut in windows.
SectionsOf(lines, markdown) ==
    LET starts == IF markdown /\ SectionStarts(lines) # {} THEN SectionStarts(lines) ELSE WindowStarts(lines)
        last(s) == IF \E t \in starts : t > s THEN Min({t \in starts : t > s}) - 1 ELSE Len(lines)
    IN  {r \in {<<s, last(s)>> : s \in starts} : \E i \in r[1]..r[2] : lines[i] # "blank"}

-----------------------------------------------------------------------------
(* build_manifest_diff, page_diff_rows *)

\* A manifest gives a path a file, with its hash and status, or none.
FileStates == {"none", "old", "new", "skipped"}

Change(base, head) ==
    IF base = "none" THEN "added" ELSE IF head = "none" THEN "deleted"
    ELSE IF base = head THEN "unchanged" ELSE "changed"

Rank(change) == CASE change = "deleted" -> 0 [] change = "changed" -> 1 [] change = "added" -> 2 [] OTHER -> 3

\* A row is its path, and its place the rank of its change before the path.
RowsOfDiff(base, head) == {p \in DOMAIN base : base[p] # "none" \/ head[p] # "none"}

\* Mutant: the cursor compares paths.
FollowsByPath(base, head, p, q) == p > q

Follows(base, head, p, q) ==
    LET rp == Rank(Change(base[p], head[p]))
        rq == Rank(Change(base[q], head[q]))
    IN  rp > rq \/ (rp = rq /\ p > q)

\* The rows of a page, and the cursor of the next one; 0 is none.
Page(base, head, types, limit, cursor) ==
    LET rows == {p \in RowsOfDiff(base, head) :
                    /\ Change(base[p], head[p]) \in types
                    /\ cursor # 0 => Follows(base, head, p, cursor)}
        page == {p \in rows : Cardinality({q \in rows : q # p /\ ~Follows(base, head, q, p)}) < limit}
        end(p) == \A q \in page : q = p \/ Follows(base, head, p, q)
    IN  [rows |-> page,
         next |-> IF Cardinality(rows) > limit THEN CHOOSE p \in page : end(p) ELSE 0]

-----------------------------------------------------------------------------
(* Runs *)

Entry == [name : Name, type : {"file", "link"}, size : {0, 1, 2}, content : {"text"}]

\* Entries whose names cannot be refused vary in what they hold, the others in name.
PlainEntry == [name : {<<"a">>, <<"a", "b">>, <<"b", "here">>, <<"b", "none">>}, type : {"file"},
               size : {1, 2}, content : {"text", "binary", "archive"}]

UpTo(S, n) == UNION {[1..k -> S] : k \in 0..n}

Manifest == [1..MaxPaths -> FileStates]

BundleInit ==
    \/ \E zip \in UpTo(PlainEntry, MaxEntries) : bundle = [kind |-> "zip", zip |-> zip]
    \/ \E e1, e2 \in {e \in Entry : e.size = 1} : bundle = [kind |-> "zip", zip |-> <<e1, e2>>]
    \/ \E lines \in UpTo(Line, MaxTextLines), markdown \in BOOLEAN :
        bundle = [kind |-> "text", lines |-> lines, markdown |-> markdown]
    \/ \E base, head \in Manifest, limit \in 1..MaxPaths,
          types \in {{"added", "deleted"}, {"added", "changed", "deleted", "unchanged"}} :
        bundle = [kind |-> "diff", base |-> base, head |-> head, limit |-> limit, types |-> types,
                  cursor |-> 0, seen |-> <<>>, status |-> "reading"]

\* A client asks for the next page until it gets no cursor.
ReadDiff ==
    /\ bundle.kind = "diff" /\ bundle.status = "reading"
    /\ LET page == Page(bundle.base, bundle.head, bundle.types, bundle.limit, bundle.cursor)
       IN  bundle' = [bundle EXCEPT !.seen = Append(@, page.rows), !.cursor = page.next,
                                    !.status = IF page.next = 0 THEN "done" ELSE @]

BundleNext == ReadDiff

BundleSpec == BundleInit /\ [][BundleNext]_bundle

-----------------------------------------------------------------------------
(* Properties *)

\* An accepted archive can be written: its files land below the sandbox at places
\* of their own, none where another needs a directory; every file gets one row, and
\* none that is not itself too large is passed over (the quota was checked before).
ArchiveLands ==
    bundle.kind = "zip" /\ ZipAccepted(bundle.zip) =>
        LET st == Extracted(bundle.zip)
        IN  /\ \A p, q \in st.disk : ~Inside(p, q)
            /\ \A p \in st.disk : p # <<>> /\ \A i \in DOMAIN p : p[i] \notin {"up", "none"}
            /\ Cardinality({st.rows[i].path : i \in DOMAIN st.rows}) = Cardinality(FileEntries(bundle.zip))
            /\ Cardinality(st.disk) = st.count
            /\ \A i \in FileEntries(bundle.zip) :
                bundle.zip[i].size <= MaxFileBytes /\ bundle.zip[i].content # "archive" =>
                    Normalized(bundle.zip[i].name) \in st.disk

\* Every line that is not blank is in just one section of its file, whether the
\* file is split at headings or in windows, so that no two sections of a file have
\* the same lines and so the same key (occurrence_key).
SectionsPartition ==
    bundle.kind = "text" =>
        LET lines == Stripped(bundle.lines)
            sections == SectionsOf(lines, bundle.markdown)
        IN  /\ \A i \in DOMAIN lines : lines[i] # "blank" =>
                Cardinality({r \in sections : i \in r[1]..r[2]}) = 1
            /\ \A r, s \in sections : r # s => r[2] < s[1] \/ s[2] < r[1]

\* A client that follows the cursors gets every row of the wanted changes once, the
\* deleted ones first, in pages of the length it asked for (page_diff_rows).
PagesHoldTheDiff ==
    bundle.kind = "diff" =>
        LET change(p) == Change(bundle.base[p], bundle.head[p])
            seen == UNION {bundle.seen[i] : i \in DOMAIN bundle.seen}
        IN  /\ \A i, j \in DOMAIN bundle.seen : i # j => bundle.seen[i] \cap bundle.seen[j] = {}
            /\ \A i \in DOMAIN bundle.seen : Cardinality(bundle.seen[i]) <= bundle.limit
            /\ \A i, j \in DOMAIN bundle.seen : i < j =>
                \A p \in bundle.seen[i], q \in bundle.seen[j] : Rank(change(p)) <= Rank(change(q))
            /\ bundle.status = "done" =>
                seen = {p \in RowsOfDiff(bundle.base, bundle.head) : change(p) \in bundle.types}

\* A folder bundle is unpacked, cut into sections and compared without loss.
\* (bundle_ingest.py, sections.py, resource_versions.py)
BundlesAreFaithful == ArchiveLands /\ SectionsPartition /\ PagesHoldTheDiff

=============================================================================
