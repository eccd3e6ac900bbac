---------------------------- MODULE RuntimeApply ----------------------------
(***************************************************************************)
(* sourcebrief runtime apply and rollback on the configuration file of a   *)
(* local runtime, next to a user who edits the file and to calls that die. *)
(*                                                                         *)
(* Nothing is locked.  Every read and every write of a file is a step; a   *)
(* hash is equality of contents.  An apply replaces the file by a rename,  *)
(* and a rollback copies its backup onto it, which cuts the file first and *)
(* may die there.  Each apply has a receipt of its own (the default path   *)
(* is unique).                                                             *)
(***************************************************************************)
EXTENDS Naturals, FiniteSets

CONSTANTS
    Plans,         \* saved plans that read_plan accepts: unedited, recent
    Servers,       \* names of MCP servers
    ServerOf,      \* the server each plan installs
    NoPlan,        \* no entry of that name
    Shells,        \* calls of the CLI that may run at once
    MaxApplies,    \* bounds the applies, and so the receipts
    MaxEdits       \* bounds the edits of the user

ASSUME ApplyConstants ==
    /\ ServerOf \in [Plans -> Servers]
    /\ NoPlan \notin Plans
    /\ MaxApplies \in Nat /\ MaxEdits \in Nat

VARIABLES
    config,       \* the configuration file
    receipts,     \* the receipt files
    backups,      \* the backup next to each receipt
    shells,       \* the running calls
    edits,        \* edits of the user so far
    writer,       \* history: the apply that wrote the file last, 0 for anybody else
    smooth        \* history: nobody else had changed the file during that apply

applyVars == <<config, receipts, backups, shells, edits, writer, smooth>>

-----------------------------------------------------------------------------
(* Types *)

Applies == 1..MaxApplies

\* A file: its server entries, all its other keys (0 for none), and its text: as
\* safe_dump writes it, by hand (with comments), not a mapping, the beginning of a copy
\* that parses or that does not, or no file.
File == [entries : [Servers -> Plans \cup {NoPlan}], other : 0..MaxEdits,
         text : {"dumped", "hand", "broken", "emptied", "cut", "missing"}]

NoFile == [entries |-> [s \in Servers |-> NoPlan], other |-> 0, text |-> "missing"]

\* What a copy leaves that has not ended: of the beginnings that parse, the empty one.
Torn == {[NoFile EXCEPT !.text = "emptied"], [NoFile EXCEPT !.text = "cut"]}

Parses(file) == file.text \notin {"broken", "cut"}

Receipt == [status : {"none", "pending", "applied"}, server : Servers \cup {NoPlan},
            created : BOOLEAN, pre : File, post : File]

NoReceipt == [status |-> "none", server |-> NoPlan, created |-> FALSE,
              pre |-> NoFile, post |-> NoFile]

\* calm: nobody else changed the file since the call first read it, or since it began to
\* copy its backup.
Shell == [step : {"idle", "loaded", "probed", "hashed", "saved", "pending", "written",
                  "checked", "restore", "copying"},
          plan : Plans \cup {NoPlan}, number : 0..MaxApplies, base : File,
          exists : BOOLEAN, pre : File, force : BOOLEAN, calm : BOOLEAN]

NoShell == [step |-> "idle", plan |-> NoPlan, number |-> 0, base |-> NoFile,
            exists |-> FALSE, pre |-> NoFile, force |-> FALSE, calm |-> TRUE]

ApplyTypeOK ==
    /\ config \in File
    /\ receipts \in [Applies -> Receipt]
    /\ backups \in [Applies -> File]
    /\ shells \in [Shells -> Shell]
    /\ edits \in 0..MaxEdits
    /\ writer \in 0..MaxApplies
    /\ smooth \in BOOLEAN

\* A user who has no file yet, or one with keys of their own.
ApplyInit ==
    /\ config \in {NoFile, [NoFile EXCEPT !.text = "hand"]}
    /\ receipts = [n \in Applies |-> NoReceipt]
    /\ backups = [n \in Applies |-> NoFile]
    /\ shells = [h \in Shells |-> NoShell]
    /\ edits = 0
    /\ writer = 0
    /\ smooth = FALSE

-----------------------------------------------------------------------------
(* The user *)

Disturbed(but) ==
    [h \in Shells |-> IF h \in but \/ shells[h].step = "idle" THEN shells[h]
                      ELSE [shells[h] EXCEPT !.calm = FALSE]]

EditConfig ==
    /\ edits < MaxEdits
    /\ edits' = edits + 1
    /\ config' \in {NoFile, [config EXCEPT !.text = "broken", !.other = edits + 1],
                    [config EXCEPT !.text = "hand", !.other = edits + 1]}
    /\ writer' = 0 /\ smooth' = FALSE
    /\ shells' = Disturbed({})
    /\ UNCHANGED <<receipts, backups>>

\* The process dies between two steps; the files stay as they are.
Die(h) ==
    /\ shells[h].step # "idle"
    /\ shells' = [shells EXCEPT ![h] = NoShell]
    /\ UNCHANGED <<config, receipts, backups, edits, writer, smooth>>

-----------------------------------------------------------------------------
(* apply *)

Go(h, step) == shells' = [shells EXCEPT ![h].step = step]
Stop(h) == shells' = [shells EXCEPT ![h] = NoShell]

Unused(n) == receipts[n].status = "none" /\ \A h \in Shells : shells[h].number # n

LoadConfig(h, p, n) ==
    /\ shells[h].step = "idle"
    /\ Unused(n) /\ \A k \in 1..(n - 1) : ~Unused(k)
    /\ Parses(config)
    /\ shells' = [shells EXCEPT ![h] =
                    [NoShell EXCEPT !.step = "loaded", !.plan = p, !.number = n,
                                    !.base = config]]
    /\ UNCHANGED <<config, receipts, backups, edits, writer, smooth>>

\* Whether there is a file, and then its hash: two reads after the one that loaded it.
ProbeConfig(h) ==
    /\ shells[h].step = "loaded"
    /\ shells' = [shells EXCEPT ![h].step = "probed", ![h].exists = config.text # "missing"]
    /\ UNCHANGED <<config, receipts, backups, edits, writer, smooth>>

HashConfig(h) ==
    /\ shells[h].step = "probed"
    /\ shells' = [shells EXCEPT ![h].step = "hashed", ![h].pre = config]
    /\ UNCHANGED <<config, receipts, backups, edits, writer, smooth>>

\* copy2 raises when the file is gone by now; there is nothing to copy when there
\* was none.
SaveBackup(h) ==
    LET call == shells[h]
    IN  /\ call.step = "hashed"
        /\ \/ /\ call.exists /\ config.text = "missing"
              /\ Stop(h)
              /\ UNCHANGED backups
           \/ /\ ~call.exists
              /\ Go(h, "saved")
              /\ UNCHANGED backups
           \/ /\ call.exists /\ config.text # "missing"
              /\ Go(h, "saved")
              /\ backups' = [backups EXCEPT ![call.number] = config]
        /\ UNCHANGED <<config, receipts, edits, writer, smooth>>

\* The planned file: the entry is put into what was loaded, and the whole is dumped.
Rendered(call) ==
    [call.base EXCEPT !.entries[ServerOf[call.plan]] = call.plan, !.text = "dumped"]

Pending(call) == [status |-> "pending", server |-> ServerOf[call.plan],
                  created |-> ~call.exists, pre |-> call.pre, post |-> Rendered(call)]

WritePending(h) ==
    LET call == shells[h]
    IN  /\ call.step = "saved"
        /\ receipts' = [receipts EXCEPT ![call.number] = Pending(call)]
        /\ Go(h, "pending")
        /\ UNCHANGED <<config, backups, edits, writer, smooth>>

\* A temporary file replaces the configuration, whatever it holds by now.
ReplaceConfig(h) ==
    LET call == shells[h]
    IN  /\ call.step = "pending"
        /\ config' = Rendered(call)
        /\ writer' = call.number
        /\ smooth' = call.calm
        /\ shells' = [Disturbed({h}) EXCEPT ![h].step = "written"]
        /\ UNCHANGED <<receipts, backups, edits>>

WriteApplied(h) ==
    LET call == shells[h]
    IN  /\ call.step = "written"
        /\ receipts' = [receipts EXCEPT ![call.number] = [Pending(call) EXCEPT !.status = "applied"]]
        /\ Stop(h)
        /\ UNCHANGED <<config, backups, edits, writer, smooth>>

-----------------------------------------------------------------------------
(* rollback *)

\* A created file goes only if it holds nothing but the planned server.
Owned(file, server) ==
    /\ file.text # "missing" /\ Parses(file) /\ file.other = 0
    /\ {s \in Servers : file.entries[s] # NoPlan} = {server}

\* Mutant: the backup is not compared with the hash in the receipt.
RestorableAny(receipt, backup) ==
    IF receipt.created THEN Owned(config, receipt.server) ELSE backup.text # "missing"

\* A hash of no file is none, and no backup has it.
Restorable(receipt, backup) ==
    IF receipt.created THEN Owned(config, receipt.server)
    ELSE backup.text # "missing" /\ backup = receipt.pre

Untouched(receipt) == config = receipt.post

\* The status of a receipt does not matter: one left pending can be rolled back.
CheckRollback(h, n, force) ==
    /\ shells[h].step = "idle"
    /\ receipts[n].status # "none"
    /\ Untouched(receipts[n]) \/ force
    /\ shells' = [shells EXCEPT ![h] =
                    [NoShell EXCEPT !.step = "checked", !.number = n, !.force = force]]
    /\ UNCHANGED <<config, receipts, backups, edits, writer, smooth>>

\* The file is read again, or the backup.  The call ends here when it refuses and when a
\* created file is gone already.
CheckUndo(h) ==
    LET call == shells[h]
    IN  /\ call.step = "checked"
        /\ IF Restorable(receipts[call.number], backups[call.number])
           THEN Go(h, "restore") ELSE Stop(h)
        /\ UNCHANGED <<config, receipts, backups, edits, writer, smooth>>

\* unlink raises when the file is gone by now; either way there is none.
RemoveConfig(h) ==
    /\ shells[h].step = "restore" /\ receipts[shells[h].number].created
    /\ config' = NoFile
    /\ writer' = 0 /\ smooth' = FALSE
    /\ shells' = [Disturbed({h}) EXCEPT ![h] = NoShell]
    /\ UNCHANGED <<receipts, backups, edits>>

\* copy2 opens the file itself, which cuts it.
BeginCopy(h) ==
    /\ shells[h].step = "restore" /\ ~receipts[shells[h].number].created
    /\ config' \in Torn
    /\ writer' = 0 /\ smooth' = FALSE
    /\ shells' = [Disturbed({h}) EXCEPT ![h].step = "copying", ![h].calm = TRUE]
    /\ UNCHANGED <<receipts, backups, edits>>

\* A file that others replaced keeps what they wrote, and one that they write too ends as
\* either or torn.  The receipt stays as it is, and so does the backup.
EndCopy(h) ==
    LET call == shells[h]
        backup == backups[call.number]
    IN  /\ call.step = "copying"
        /\ IF call.calm THEN config' = backup ELSE config' \in {config, backup} \cup Torn
        /\ IF config' = config THEN UNCHANGED <<writer, smooth>> ELSE writer' = 0 /\ smooth' = FALSE
        /\ shells' = [Disturbed({h}) EXCEPT ![h] = NoShell]
        /\ UNCHANGED <<receipts, backups, edits>>

-----------------------------------------------------------------------------
(* Specification *)

ApplyNext ==
    \/ EditConfig
    \/ \E h \in Shells :
        \/ Die(h)
        \/ \E p \in Plans, n \in Applies : LoadConfig(h, p, n)
        \/ ProbeConfig(h) \/ HashConfig(h) \/ SaveBackup(h) \/ WritePending(h)
        \/ ReplaceConfig(h) \/ WriteApplied(h)
        \/ \E n \in Applies, force \in BOOLEAN : CheckRollback(h, n, force)
        \/ CheckUndo(h) \/ RemoveConfig(h) \/ BeginCopy(h) \/ EndCopy(h)

ApplySpec == ApplyInit /\ [][ApplyNext]_applyVars

-----------------------------------------------------------------------------
(* Properties *)

\* Whenever a call may have died, a file that an apply wrote can be undone: its receipt is
\* there and names the bytes of the file; and unless somebody else changed the file while
\* the apply ran, a rollback passes all its checks, without force.
WriteAhead ==
    writer # 0 =>
        LET receipt == receipts[writer]
        IN  /\ receipt.status # "none" /\ receipt.post = config
            /\ smooth => Restorable(receipt, backups[writer])

\* A file that a rollback left torn, because it died in its copy or because somebody
\* wrote along, is no loss: there is a receipt whose backup a rollback with --force puts
\* back, whatever applies and rollbacks of other receipts there have been since.
TornIsMended ==
    config \in Torn =>
        \E n \in Applies : /\ receipts[n].status # "none" /\ ~receipts[n].created
                           /\ Restorable(receipts[n], backups[n])

\* A rollback that ends, forced or not, of whatever receipt and in whatever order with
\* other calls and edits, puts back byte for byte the file that the apply had hashed, or
\* none if it had found none, unless somebody writes the file while it copies.
UndoIsExact ==
    [][\A h \in Shells :
        LET call == shells[h]
            receipt == receipts[call.number]
        IN  (/\ call.step = "restore" \/ (call.step = "copying" /\ call.calm)
             /\ config' # config /\ shells'[h].step = "idle") =>
                config' = IF receipt.created THEN NoFile ELSE receipt.pre]_applyVars

\* A call that nobody disturbs loses nothing of the user's: an apply changes one
\* entry, and a rollback without force removes or cuts only what its apply wrote.
EditsSurvive ==
    [][\A h \in Shells :
        LET call == shells[h]
        IN  /\ (call.step = "pending" /\ shells'[h].step = "written" /\ call.calm) =>
                config'.other = config.other
                /\ \A s \in Servers \ {ServerOf[call.plan]} : config'.entries[s] = config.entries[s]
            /\ (call.step = "restore" /\ shells'[h].step \in {"idle", "copying"} /\ call.calm
                /\ ~call.force /\ config' # config) =>
                config = receipts[call.number].post]_applyVars

\* Applies can be undone and take nothing of the user's with them.  (runtime_apply.py)
AppliesAreUndoable ==
    [](ApplyTypeOK /\ WriteAhead /\ TornIsMended) /\ UndoIsExact /\ EditsSurvive

=============================================================================
