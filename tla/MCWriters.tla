----------------------------- MODULE MCWriters ------------------------------
(***************************************************************************)
(* TLC instances of what is written in steps that others may overtake or   *)
(* that may be cut short: the configuration files and skills of the CLI,   *)
(* the files of the self-improvement loop and the sections of bundle       *)
(* versions.  They share no state, so one run checks them side by side:    *)
(* part says which of them moves.                                          *)
(***************************************************************************)
EXTENDS RuntimeApply, SkillInstall, ReviewLoop, Sections, TLC

CONSTANTS p1, p2, s1, s2, h1, h2, k1, k2, x1, x2, y, a1, a2, f, g

VARIABLE part

writersVars == <<part, applyVars, skillVars, loopVars, sectionVars>>

\* Each plan writes the entry of a server of its own.
MCServerOf == (p1 :> s1) @@ (p2 :> s2)

\* Shells are alike, agents are, and plans are with the server each has of its own.
MCSymmetry ==
    Permutations({h1, h2}) \cup Permutations({a1, a2})
      \cup {(p1 :> p2) @@ (p2 :> p1) @@ (s1 :> s2) @@ (s2 :> s1)}

\* After an edit of the user two calls that run at once are rollbacks.
ApplyBound ==
    LET running == {h \in Shells : shells[h].step # "idle"}
    IN  edits = 0 \/ Cardinality(running) <= 1 \/ \A h \in running : shells[h].plan = NoPlan

\* Texts are edited that speak of a mismatch, the one finding of their report.
LoopBound ==
    \/ rewritten = {}
    \/ /\ \A n \in Reviews : Cardinality(reports[n].findings) <= 1
       /\ \A k \in rewritten : k.type = "citation_mismatch"

\* The first package has two files, and the second has one of another content.
MCContentOf == (k1 :> <<x1, y>>) @@ (k2 :> <<x2, Nothing>>)

MCTexts == {<<1, 1>>, <<2, 1, 1>>, <<1>>, <<3>>}

\* A section that occurs twice, one put before them and a file deleted, one of them gone.
MCBundles == {(f :> <<1, 1>>) @@ (g :> <<3>>),
              (f :> <<2, 1, 1>>) @@ (g :> Missing),
              (f :> <<1>>) @@ (g :> <<3>>)}

\* The user begins without a file, and may write one.
WritersInit ==
    /\ part \in {"apply", "skill", "loop", "sections"}
    /\ ApplyInit /\ SkillInit /\ LoopInit /\ SectionInit
    /\ config = NoFile

WritersNext ==
    \/ /\ part = "apply" /\ ApplyNext
       /\ UNCHANGED <<part, skillVars, loopVars, sectionVars>>
    \/ /\ part = "skill" /\ SkillNext
       /\ UNCHANGED <<part, applyVars, loopVars, sectionVars>>
    \/ /\ part = "loop" /\ LoopNext
       /\ UNCHANGED <<part, applyVars, skillVars, sectionVars>>
    \/ /\ part = "sections" /\ SectionNext
       /\ UNCHANGED <<part, applyVars, skillVars, loopVars>>

WritersSpec == WritersInit /\ [][WritersNext]_writersVars

=============================================================================
