---------------------------- MODULE RefreshSlots ----------------------------
(***************************************************************************)
(* What the refresh machinery promises of each resource, without requests, *)
(* workers, schedulers, locks or a queue: one slot that at most one index  *)
(* run occupies, and a current snapshot that only the occupant may replace,*)
(* at the moment it leaves.  A run occupies a slot once in its life.       *)
(***************************************************************************)
CONSTANTS Resources, Runs, NoRun

VARIABLES
    holder,   \* the run that occupies each resource's slot, or NoRun
    current,  \* the run that wrote each resource's current snapshot, or NoRun
    used      \* the runs that have occupied a slot

slots == <<holder, current, used>>

Init ==
    /\ holder = [r \in Resources |-> NoRun]
    /\ current = [r \in Resources |-> NoRun]
    /\ used = {}

Claim(r, n) ==
    /\ holder[r] = NoRun /\ n \in Runs \ used
    /\ holder' = [holder EXCEPT ![r] = n]
    /\ used' = used \cup {n}
    /\ UNCHANGED current

\* Runs end without a new snapshot: several at once when a batch ends.
Free(S) ==
    /\ holder' = [r \in Resources |-> IF r \in S THEN NoRun ELSE holder[r]]
    /\ UNCHANGED <<current, used>>

Advance(r) ==
    /\ holder[r] # NoRun
    /\ current' = [current EXCEPT ![r] = holder[r]]
    /\ holder' = [holder EXCEPT ![r] = NoRun]
    /\ UNCHANGED used

Purge(r) ==
    /\ holder' = [holder EXCEPT ![r] = NoRun]
    /\ current' = [current EXCEPT ![r] = NoRun]
    /\ UNCHANGED used

Next ==
    \/ \E r \in Resources, n \in Runs : Claim(r, n)
    \/ \E S \in SUBSET Resources : Free(S)
    \/ \E r \in Resources : Advance(r) \/ Purge(r)

Spec == Init /\ [][Next]_slots
=============================================================================
