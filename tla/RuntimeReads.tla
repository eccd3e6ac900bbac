---------------------------- MODULE RuntimeReads ----------------------------
(***************************************************************************)
(* The reading tools of the MCP endpoint: search, read_section, ask, the   *)
(* graph inventory and the choice of a graph, called between refreshes,    *)
(* archives, purges and publications.  A snapshot of a source is its       *)
(* number and holds one file; a pack version and a merge are of the one    *)
(* pack key and the one merge key.  A tool answers with a set: {} when it  *)
(* refuses.                                                                *)
(***************************************************************************)
EXTENDS Integers, Sequences, FiniteSets

CONSTANTS
    Sources,
    Filed,         \* the sources whose files the worker keeps: git and folder bundles
    FileText,      \* FileText[n]: the chunks, in order, of the file of a snapshot n
    MaxPacks,      \* bounds the pack versions
    MaxGraphs,     \* bounds the published versions of a graph
    NoHit

ASSUME ReadsConstants ==
    /\ Filed \subseteq Sources
    /\ FileText \in Seq(Seq(Nat) \ {<<>>})
    /\ {MaxPacks, MaxGraphs} \subseteq Nat

VARIABLES
    stored,   \* of a source: its life, and its current snapshot (0: none)
    cover,    \* the pack versions: what they cover, and whether they are invalidated
    graph,    \* of a source: the version its graph points at, and its snapshot
    merge,    \* the version the merge points at, and its inputs
    held      \* the hit of a search a caller still has, and the caller's token

readVars == <<stored, cover, graph, merge, held>>

Tokens == SUBSET Sources      \* the resources a token is limited to
PackRefs == 0..Len(cover)     \* 0: a call without a pack

RuntimeTypeOK ==
    /\ stored \in [Sources -> [life : {"live", "archived", "deleted", "gone"},
                               current : 0..Len(FileText)]]
    /\ graph \in [Sources -> [version : 0..MaxGraphs, snapshot : 0..Len(FileText),
                              published : BOOLEAN]]
    /\ Len(cover) <= MaxPacks
    /\ merge.version \in 0..MaxGraphs

NoGraph == [version |-> 0, snapshot |-> 0, published |-> FALSE]

ServerInit ==
    /\ stored = [r \in Sources |-> [life |-> "live", current |-> 0]]
    /\ cover = <<>>
    /\ graph = [r \in Sources |-> NoGraph]
    /\ merge = [version |-> 0, inputs |-> {}, published |-> FALSE]
    /\ held = NoHit

-----------------------------------------------------------------------------
(* What the tools read *)

Snapshots(r) == IF stored[r].life = "gone" THEN {} ELSE 1..stored[r].current

\* The snapshots whose files are kept, hence their sections.
Files(r) == IF r \in Filed THEN Snapshots(r) ELSE {}

\* runtime_resource_freshness
Freshness(r, n) ==
    IF stored[r].life \in {"deleted", "archived"} THEN stored[r].life
    ELSE IF n = stored[r].current THEN "current" ELSE "stale"

\* runtime_resolve_pack of a numbered version, which may have any status.
PackOf(token, v) == {cover[w] : w \in {w \in {v} \ {0} : DOMAIN cover[w].of \subseteq token}}

\* The resources and snapshots a search is limited to: those of the pack, else
\* those asked for, else those of the token.  A resource outside the token is refused.
Scope(token, asked, v) ==
    LET wanted(rs) == IF asked = {} THEN rs ELSE rs \cap asked
        pinned == UNION {{<<r, p.of[r]>> : r \in wanted(DOMAIN p.of)} : p \in PackOf(token, v)}
        named == IF asked = {} THEN token ELSE IF asked \subseteq token THEN asked ELSE {}
    IN  IF v # 0 THEN pinned ELSE UNION {{r} \X Snapshots(r) : r \in named}

\* Mutant: the snapshots of the pack are not put into the query.
HitsOfAnySnapshot(token, asked, v) ==
    {h \in [source : Sources, snapshot : DOMAIN FileText, pack : {v}] :
        /\ h.source \in {s[1] : s \in Scope(token, asked, v)}
        /\ h.snapshot \in Snapshots(h.source)
        /\ stored[h.source].life = "live"}

\* search: the hits that can be found, every chunk of a snapshot of a live resource.
Hits(token, asked, v) ==
    {[source |-> s[1], snapshot |-> s[2], pack |-> v] :
        s \in {s \in Scope(token, asked, v) : stored[s[1]].life = "live"}}

\* The exact locators of read_section, in the order it tries them.
Located(r, call) ==
    Files(r) \cap
        (IF call.citation # 0 THEN {call.citation}
         ELSE IF call.section # 0 /\ call.snapshot # 0 THEN {call.section} \cap {call.snapshot}
         ELSE IF call.snapshot # 0 /\ call.hash # <<>>
              THEN {n \in {call.snapshot} : FileText[n] = call.hash}
         ELSE IF call.fallback THEN {stored[r].current} ELSE {})

\* read_section, with require_pack_covers_locator
ReadSection(token, r, call) ==
    {[source |-> r, snapshot |-> n, freshness |-> Freshness(r, n)] :
        n \in {n \in Located(r, call) :
                  /\ r \in token
                  /\ call.pack # 0 =>
                        \E p \in PackOf(token, call.pack) : r \in DOMAIN p.of /\ p.of[r] = n}}

Plainly == [citation |-> 0, section |-> 0, snapshot |-> 0, hash |-> <<>>,
            fallback |-> FALSE, pack |-> 0]

\* The call that reads the section a hit names.
SectionOf(h) == [Plainly EXCEPT !.section = h.snapshot, !.snapshot = h.snapshot, !.pack = h.pack]

\* The read_section call that ask suggests: the first citation is a chunk of the current
\* snapshot, and the hash is the chunk's.
Suggestions(token) ==
    LET chunks(r) == IF stored[r].life = "live" /\ stored[r].current # 0
                     THEN FileText[stored[r].current] ELSE <<>>
        call(r, i) == [Plainly EXCEPT !.snapshot = stored[r].current, !.hash = <<chunks(r)[i]>>]
    IN  UNION {{[source |-> r, call |-> call(r, i)] : i \in (DOMAIN chunks(r)) \cap (1..2)} :
               r \in token}

-----------------------------------------------------------------------------
(* Graphs *)

\* stale_merge_inputs
StaleInput(in) ==
    \/ stored[in.of].life # "live"
    \/ graph[in.of].version # in.version
    \/ stored[in.of].current # in.snapshot
    \/ ~graph[in.of].published

MergeIsStale == ~merge.published \/ \E in \in merge.inputs : StaleInput(in)

InputsOf == {in.of : in \in merge.inputs}

ByFreshness(stale) == IF stale THEN "stale" ELSE "current"

\* get_graph_inventory: what it lists, and what it says of it.
ListedGraphs(token) ==
    {[of |-> r, version |-> graph[r].version,
      freshness |-> ByFreshness(graph[r].snapshot # stored[r].current)] :
        r \in {r \in token : stored[r].life = "live" /\ graph[r].published}}

ListedMerges(token) ==
    {[version |-> merge.version, freshness |-> ByFreshness(MergeIsStale)] :
        x \in {x \in {merge} : merge.version # 0 /\ InputsOf \subseteq token}}

\* resolve_graph_target, of the graph of a source: pin 0 asks for the current version.
TargetGraph(token, r, pin) ==
    {graph[s].version : s \in {s \in {r} \cap token :
        /\ graph[s].published /\ pin \in {0, graph[s].version}
        /\ pin = 0 => graph[s].snapshot = stored[s].current}}

\* resolve_graph_target, of the merge.
TargetMerge(token, pin) ==
    {m.version : m \in {m \in {merge} :
        /\ m.version # 0 /\ InputsOf \subseteq token
        /\ IF pin = 0 THEN ~MergeIsStale ELSE m.published /\ pin = m.version}}

\* graph_overview: the merges are those whose inputs are all among the resources shown.
ShownMerges(shown) == {m.version : m \in {m \in {merge} :
    m.version # 0 /\ m.inputs # {} /\ InputsOf \subseteq shown}}

-----------------------------------------------------------------------------
(* What changes between two calls *)

SetLife(r, from, to) ==
    /\ stored[r].life \in from
    /\ stored' = [stored EXCEPT ![r].life = to]
    /\ UNCHANGED <<cover, graph, merge, held>>

IndexSource(r) ==
    /\ stored[r].life = "live" /\ stored[r].current < Len(FileText)
    /\ stored' = [stored EXCEPT ![r].current = @ + 1]
    /\ UNCHANGED <<cover, graph, merge, held>>

ArchiveSource(r) == SetLife(r, {"live"}, "archived")
DeleteSource(r) == SetLife(r, {"live", "archived"}, "deleted")
RestoreSource(r) == SetLife(r, {"archived", "deleted"}, "live")

\* What stops a purge: valid pack versions, retained graphs and merges.
HeldBack(r) ==
    \/ \E v \in DOMAIN cover : cover[v].valid /\ r \in DOMAIN cover[v].of
    \/ graph[r].version # 0 \/ r \in InputsOf

PurgeStored(r) ==
    /\ stored[r].life = "deleted" /\ ~HeldBack(r)
    /\ stored' = [stored EXCEPT ![r] = [life |-> "gone", current |-> 0]]
    /\ cover' = [v \in DOMAIN cover |->
           [cover[v] EXCEPT !.of = [s \in DOMAIN @ \ {r} |-> @[s]]]]
    /\ UNCHANGED <<graph, merge, held>>

CoverSources(rs) ==
    /\ Len(cover) < MaxPacks
    /\ \A r \in rs : stored[r].life = "live" /\ stored[r].current # 0
    /\ cover' = Append(cover, [of |-> [r \in rs |-> stored[r].current], valid |-> TRUE])
    /\ UNCHANGED <<stored, graph, merge, held>>

InvalidateCover(v) ==
    /\ cover[v].valid
    /\ cover' = [cover EXCEPT ![v].valid = FALSE]
    /\ UNCHANGED <<stored, graph, merge, held>>

DrawGraph(r) ==
    /\ stored[r].life = "live" /\ stored[r].current # 0 /\ graph[r].version < MaxGraphs
    /\ graph' = [graph EXCEPT ![r] = [version |-> @.version + 1, snapshot |-> stored[r].current,
                                      published |-> TRUE]]
    /\ UNCHANGED <<stored, cover, merge, held>>

DropGraph(r) ==
    /\ graph[r].published
    /\ graph' = [graph EXCEPT ![r].published = FALSE]
    /\ UNCHANGED <<stored, cover, merge, held>>

DrawMerge(rs) ==
    /\ merge.version < MaxGraphs
    /\ \A r \in rs : stored[r].life = "live" /\ graph[r].published
                     /\ graph[r].snapshot = stored[r].current
    /\ merge' = [version |-> merge.version + 1, published |-> TRUE,
                 inputs |-> {[of |-> r, version |-> graph[r].version,
                              snapshot |-> graph[r].snapshot] : r \in rs}]
    /\ UNCHANGED <<stored, cover, graph, held>>

DropMerge ==
    /\ merge.published
    /\ merge' = [merge EXCEPT !.published = FALSE]
    /\ UNCHANGED <<stored, cover, graph, held>>

\* A caller searches and keeps one hit.
TakeHit(token, asked, v) ==
    /\ held = NoHit
    /\ \E h \in Hits(token, asked, v) :
          held' = [source |-> h.source, snapshot |-> h.snapshot, pack |-> h.pack, token |-> token]
    /\ UNCHANGED <<stored, cover, graph, merge>>

ServerNext ==
    \/ \E r \in Sources :
          \/ IndexSource(r) \/ ArchiveSource(r) \/ DeleteSource(r) \/ RestoreSource(r)
          \/ PurgeStored(r) \/ DrawGraph(r) \/ DropGraph(r)
    \/ \E rs \in (SUBSET Sources) \ {{}} : CoverSources(rs) \/ (Cardinality(rs) > 1 /\ DrawMerge(rs))
    \/ \E v \in DOMAIN cover : InvalidateCover(v)
    \/ DropMerge
    \/ \E token \in Tokens, asked \in Tokens, v \in PackRefs : TakeHit(token, asked, v)

ServerSpec == ServerInit /\ [][ServerNext]_readVars

-----------------------------------------------------------------------------
(* Properties *)

\* A hit stays readable as it was found: read_section answers its section from its own
\* snapshot, and says whether that is still the current one, until the source is purged.
\* A hit found through a pack version that is still valid is never lost to a purge.
EvidenceStays ==
    held # NoHit /\ held.source \in Filed =>
        LET answer == ReadSection(held.token, held.source, SectionOf(held))
        IN  /\ \A a \in answer :
                  /\ a.snapshot = held.snapshot
                  /\ a.freshness = "current" => held.snapshot = stored[held.source].current
            /\ stored[held.source].life # "gone" => answer # {}
            /\ held.pack # 0 /\ cover[held.pack].valid => answer # {}

\* A hit found through a pack is of a snapshot the pack version covers.
PacksPin ==
    \A token \in Tokens, asked \in Tokens, v \in PackRefs \ {0} :
        \A h \in Hits(token, asked, v) :
            h.source \in DOMAIN cover[v].of /\ h.snapshot = cover[v].of[h.source]

\* The tools agree about graphs: what the inventory lists as current is what a query without
\* a version is answered from, what it lists as stale is refused to such a query, and a
\* merge is shown in the overview only with sources the token may read.
ListedIsServed ==
    \A token \in Tokens :
        /\ \A g \in ListedGraphs(token) :
              TargetGraph(token, g.of, 0) = (IF g.freshness = "current" THEN {g.version} ELSE {})
        /\ \A m \in ListedMerges(token) :
              TargetMerge(token, 0) = (IF m.freshness = "current" THEN {m.version} ELSE {})
        /\ \A m \in ShownMerges(token) : m \in {x.version : x \in ListedMerges(token)}

\* "Read the first cited section exactly from the cited snapshot": the call that ask
\* suggests is answered.
SuggestedReadAnswers ==
    \A token \in Tokens : \A s \in Suggestions(token) :
        s.source \in Filed => ReadSection(token, s.source, s.call) # {}

\* Evidence holds: what was found can be read, packs pin, and the tools agree about graphs.
\* (runtime_query.py, runtime_graphs.py)
EvidenceHolds == RuntimeTypeOK /\ EvidenceStays /\ PacksPin /\ ListedIsServed

=============================================================================
