------------------------------ MODULE GateEvidence ------------------------------
(***************************************************************************)
(* A Gate A campaign and the validators that judge it afterwards.  People  *)
(* and machines approve the manifest, compile the AI pack several times,   *)
(* author the human pack, freeze the packs, release the protected tasks    *)
(* and run the lanes; each step leaves a receipt stamped with the day.     *)
(* The campaign may go wrong MaxSlips times: a step out of its order, a    *)
(* pack picked or rebuilt.  The validators see the receipts, never the     *)
(* steps.                                                                  *)
(***************************************************************************)
EXTENDS Integers, FiniteSets

CONSTANTS
    Repetitions,      \* compile_repetitions (three in the code)
    Timelines,        \* the timelines a manifest may declare
    FirstDay, LastDay,\* bound the days of a campaign
    D0Budget,         \* working days from phase 0 to D0 (ten)
    CycleBudget,      \* working days from D0 to the end of each cycle (ten, twenty)
    AbsoluteBudget,   \* working days of the whole campaign (thirty)
    MaxSlips          \* bounds the steps out of order

ASSUME EvidenceConstants ==
    /\ Repetitions \in Nat \ {0} /\ {D0Budget, AbsoluteBudget, MaxSlips} \subseteq Nat
    /\ {FirstDay, LastDay} \subseteq Nat \ {0}
    /\ CycleBudget \in [1..2 -> Nat]
    /\ Timelines \subseteq [phase0 : Nat, d0 : Nat, cycle : [1..2 -> Nat], absolute : Nat]

Arms == {"ai_compiled", "human_authored"}

Compilations == 1..Repetitions

VARIABLES
    day,        \* the clock
    plan,       \* manifest.timeline
    stamp,      \* the days of the approval, the review, the release and the run; 0 is never
    compiles,   \* the compile receipts
    freezes,    \* the freeze receipts
    current,    \* the pack each arm holds, by the order in which packs were built
    mounted,    \* the pack each arm's sandbox was run with
    built,      \* how many packs were built
    slips,      \* how often the campaign went wrong
    ghost,      \* what happened, unknown to the validators
    judged      \* what the two validators said

evidenceVars == <<day, plan, stamp, compiles, freezes, current, mounted, built, slips, ghost, judged>>

Never == 0

EvidenceInit ==
    /\ day = FirstDay
    /\ plan \in Timelines
    /\ stamp = [approved |-> Never, expires |-> Never, review |-> Never, reviewed |-> Never,
                released |-> Never, started |-> Never, finished |-> Never, cycle |-> 1]
    /\ compiles = [n \in Compilations |-> [begun |-> Never, ended |-> Never, pack |-> 0]]
    /\ freezes = [arm \in Arms |-> [at |-> Never, pack |-> 0]]
    /\ current = [arm \in Arms |-> 0] /\ mounted = [arm \in Arms |-> 0]
    /\ built = 0 /\ slips = 0
    /\ ghost = [late |-> FALSE, overlapped |-> FALSE, builtAtRelease |-> 0, builtAtStart |-> 0]
    /\ judged = [gate |-> "open", internal |-> "open"]

-----------------------------------------------------------------------------
(* The campaign *)

\* The careful campaign approves, compiles (the human pack is written during the last
\* attempt), freezes, releases and runs, one step after the other; any other step is a slip.
Orderly(proper) ==
    /\ proper \/ slips < MaxSlips
    /\ slips' = IF proper THEN slips ELSE slips + 1

\* Work on a pack after the protected tasks were released
Touch == ghost' = [ghost EXCEPT !.late = @ \/ stamp.released # Never]

Running(n) == compiles[n].begun # Never /\ compiles[n].ended = Never

Compiled == \A n \in Compilations : compiles[n].ended # Never

DayPasses ==
    /\ day < LastDay /\ stamp.finished = Never
    /\ day' = day + 1
    /\ ghost' = [ghost EXCEPT !.overlapped = @ \/ \E m, n \in Compilations : m # n /\ Running(m) /\ Running(n)]
    /\ UNCHANGED <<plan, stamp, compiles, freezes, current, mounted, built, slips, judged>>

Approve(expires) ==
    /\ stamp.approved = Never
    /\ Orderly(day = plan.d0 /\ expires = plan.absolute)
    /\ stamp' = [stamp EXCEPT !.approved = day, !.expires = expires]
    /\ UNCHANGED <<day, plan, compiles, freezes, current, mounted, built, ghost, judged>>

BeginCompile(n) ==
    /\ compiles[n].begun = Never
    /\ Orderly(stamp.approved # Never /\ (n > 1 => compiles[n - 1].ended # Never))
    /\ compiles' = [compiles EXCEPT ![n].begun = day]
    /\ Touch
    /\ UNCHANGED <<day, plan, stamp, freezes, current, mounted, built, judged>>

\* The pack of the first attempt becomes the AI arm's, or that of a later one does.
EndCompile(n, pick) ==
    /\ Running(n)
    /\ Orderly(pick = (n = 1))
    /\ built' = built + 1
    /\ compiles' = [compiles EXCEPT ![n].ended = day, ![n].pack = built + 1]
    /\ current' = IF pick THEN [current EXCEPT !["ai_compiled"] = built + 1] ELSE current
    /\ Touch
    /\ UNCHANGED <<day, plan, stamp, freezes, mounted, judged>>

BeginReview ==
    /\ stamp.review = Never
    /\ Orderly(Running(Repetitions))
    /\ stamp' = [stamp EXCEPT !.review = day]
    /\ Touch
    /\ UNCHANGED <<day, plan, compiles, freezes, current, mounted, built, judged>>

EndReview ==
    /\ stamp.review # Never /\ stamp.reviewed = Never
    /\ Orderly(Compiled)
    /\ stamp' = [stamp EXCEPT !.reviewed = day]
    /\ built' = built + 1
    /\ current' = [current EXCEPT !["human_authored"] = built + 1]
    /\ Touch
    /\ UNCHANGED <<day, plan, compiles, freezes, mounted, judged>>

Freeze(arm) ==
    /\ current[arm] # 0 /\ freezes[arm].at = Never
    /\ Orderly(/\ Compiled /\ stamp.reviewed # Never
               /\ arm = "human_authored" => freezes["ai_compiled"].at # Never)
    /\ freezes' = [freezes EXCEPT ![arm] = [at |-> day, pack |-> current[arm]]]
    /\ Touch
    /\ UNCHANGED <<day, plan, stamp, compiles, current, mounted, built, judged>>

\* Somebody builds an arm's pack anew.
Rebuild(arm) ==
    /\ current[arm] # 0
    /\ Orderly(FALSE)
    /\ built' = built + 1
    /\ current' = [current EXCEPT ![arm] = built + 1]
    /\ UNCHANGED <<day, plan, stamp, compiles, freezes, mounted, ghost, judged>>

Release ==
    /\ stamp.released = Never
    /\ Orderly(Compiled /\ stamp.reviewed # Never /\ \A arm \in Arms : freezes[arm].at # Never)
    /\ stamp' = [stamp EXCEPT !.released = day]
    /\ ghost' = [ghost EXCEPT !.builtAtRelease = built]
    /\ UNCHANGED <<day, plan, compiles, freezes, current, mounted, built, judged>>

\* Each sandbox mounts the pack its arm holds now.
Start ==
    /\ stamp.started = Never
    /\ Orderly(stamp.released # Never)
    /\ stamp' = [stamp EXCEPT !.started = day]
    /\ mounted' = current
    /\ ghost' = [ghost EXCEPT !.builtAtStart = built]
    /\ UNCHANGED <<day, plan, compiles, freezes, current, built, judged>>

Finish(cycle) ==
    /\ stamp.started # Never /\ stamp.finished = Never
    /\ stamp' = [stamp EXCEPT !.finished = day, !.cycle = cycle]
    /\ UNCHANGED <<day, plan, compiles, freezes, current, mounted, built, slips, ghost, judged>>

-----------------------------------------------------------------------------
(* The validators *)

WorkingDays(from, to) == Cardinality({d \in from..to : d % 7 < 5})

TimelineHolds ==
    /\ WorkingDays(plan.phase0, plan.d0) <= D0Budget
    /\ plan.phase0 <= plan.d0 /\ plan.d0 <= plan.cycle[1]
    /\ plan.cycle[1] <= plan.cycle[2] /\ plan.cycle[2] <= plan.absolute
    /\ \A c \in 1..2 : WorkingDays(plan.d0, plan.cycle[c]) <= CycleBudget[c]
    /\ WorkingDays(plan.phase0, plan.absolute) <= AbsoluteBudget

ApprovalHolds ==
    /\ stamp.approved = plan.d0
    /\ plan.d0 < stamp.expires /\ stamp.expires <= plan.absolute

RunInWindow ==
    /\ stamp.released # Never /\ stamp.finished # Never
    /\ stamp.approved <= stamp.released /\ stamp.released <= stamp.started
    /\ stamp.started <= stamp.finished
    /\ stamp.finished <= plan.cycle[stamp.cycle] /\ stamp.finished <= plan.absolute
    /\ stamp.finished <= stamp.expires

CompilesHold ==
    /\ \A n \in Compilations :
        /\ compiles[n].ended # Never
        /\ stamp.approved <= compiles[n].begun /\ compiles[n].begun < compiles[n].ended
        /\ compiles[n].ended < stamp.released
    /\ \A n \in Compilations \ {1} : compiles[n - 1].ended <= compiles[n].begun

ReviewHolds ==
    /\ stamp.reviewed # Never
    /\ stamp.approved <= stamp.review /\ stamp.review < stamp.reviewed
    /\ stamp.reviewed < stamp.released

\* Mutant: a pack may be frozen on the day of the release.
FreezesHoldAt ==
    \A arm \in Arms : freezes[arm].at # Never /\ freezes[arm].at <= stamp.released

FreezesHold ==
    \A arm \in Arms : freezes[arm].at # Never /\ freezes[arm].at < stamp.released

\* The bundle's pack of each arm is the frozen and the mounted one; the AI arm's is that
\* of the first attempt.
PacksHold ==
    /\ \A arm \in Arms : mounted[arm] = freezes[arm].pack
    /\ compiles[1].pack = freezes["ai_compiled"].pack

GateAccepts ==
    /\ TimelineHolds /\ ApprovalHolds /\ RunInWindow
    /\ CompilesHold /\ ReviewHolds /\ FreezesHold /\ PacksHold

\* The founder's validator knows no release and no freeze receipts: the experiment is
\* frozen when it is approved.
InternalAccepts ==
    /\ stamp.approved # Never /\ stamp.finished # Never
    /\ stamp.approved < stamp.started /\ stamp.started <= stamp.finished
    /\ \A n \in Compilations :
        /\ stamp.approved <= compiles[n].begun /\ compiles[n].begun <= compiles[n].ended
        /\ compiles[n].ended # Never /\ compiles[n].ended < stamp.started
    /\ compiles[1].pack = mounted["ai_compiled"]

Judge ==
    /\ stamp.finished # Never /\ judged.gate = "open"
    /\ judged' = [gate |-> IF GateAccepts THEN "accepted" ELSE "rejected",
                  internal |-> IF InternalAccepts THEN "accepted" ELSE "rejected"]
    /\ UNCHANGED <<day, plan, stamp, compiles, freezes, current, mounted, built, slips, ghost>>

EvidenceNext ==
    \/ judged.gate = "open" /\ (\/ DayPasses
                                \/ \E e \in {plan.d0 + 1, plan.absolute} : Approve(e)
                                \/ \E n \in Compilations : BeginCompile(n) \/ \E pick \in BOOLEAN : EndCompile(n, pick)
                                \/ BeginReview \/ EndReview
                                \/ \E arm \in Arms : Freeze(arm) \/ Rebuild(arm)
                                \/ Release \/ Start \/ \E c \in 1..2 : Finish(c))
    \/ Judge

EvidenceSpec == EvidenceInit /\ [][EvidenceNext]_evidenceVars

-----------------------------------------------------------------------------
(* Properties *)

Accepted == judged.gate = "accepted"

\* In an accepted campaign nobody compiled, reviewed or froze a pack once the protected
\* tasks were released, and every sandbox ran with a pack that existed before.
NothingTunedAfterRelease ==
    Accepted => ~ghost.late /\ \A arm \in Arms : mounted[arm] <= ghost.builtAtRelease

\* In an accepted campaign no two compile attempts ran at once, and the AI arm ran with
\* the pack of the first: no attempt was picked for its result.
NothingPicked ==
    Accepted => ~ghost.overlapped /\ mounted["ai_compiled"] = compiles[1].pack

\* An accepted campaign ended within the working days of the cycle it claims, and of all.
ClockIsKept ==
    Accepted => /\ WorkingDays(plan.d0, stamp.finished) <= CycleBudget[stamp.cycle]
                /\ WorkingDays(plan.phase0, stamp.finished) <= AbsoluteBudget

\* The founder's validator, too, accepts no AI pack built once the lanes were running.
InternalPackIsOld ==
    judged.internal = "accepted" => mounted["ai_compiled"] <= ghost.builtAtStart

\* A campaign the validators accept was run fairly, whatever went wrong in others.
CampaignWasFair ==
    NothingTunedAfterRelease /\ NothingPicked /\ ClockIsKept /\ InternalPackIsOld

================================================================================
