---------------------------- MODULE WritersProofs ---------------------------
(***************************************************************************)
(* Proofs about the writers: RuntimeApply (the runtime's configuration     *)
(* file), SkillInstall (the skill directory), Sections (the rows of bundle *)
(* versions that share a table) and ReviewLoop (reports, proposals and     *)
(* stages).  Calls of several shells or workers overlap, users edit and    *)
(* processes die; each inductive invariant says what an open call still    *)
(* finds, and what the files or rows of the others stand on.               *)
(***************************************************************************)
EXTENDS RuntimeApply, SkillInstall, Sections, ReviewLoop, NumberFacts, FiniteSetTheorems, FunctionTheorems, TLAPS

-----------------------------------------------------------------------------
(* Runtime apply *)

\* The steps of an apply between its load of the file and its last receipt, and those of
\* a rollback after its first check.
Applying == {"loaded", "probed", "hashed", "saved", "pending", "written"}

Undoing == {"checked", "restore", "copying"}

\* What an apply that nobody disturbed has read: the file is the one it loaded, which was
\* there if it says so, which it hashed, and which it saved.
ReadsAgree(call, file, saved) ==
    /\ call.step \in {"loaded", "probed", "hashed", "saved", "pending"} => file = call.base
    /\ call.step \in {"probed", "hashed", "saved", "pending"} =>
            call.exists = (call.base.text # "missing")
    /\ call.step \in {"hashed", "saved", "pending"} => call.pre = call.base
    /\ (call.step \in {"saved", "pending"} /\ call.exists) => saved[call.number] = call.pre

\* What a rollback has checked: that there is a receipt, that the file is the one it
\* names if it is to be, and that the backup is the file before it.
UndoHolds(call, file, receipt, backup) ==
    /\ call.number \in Applies /\ receipt.status # "none"
    /\ (call.step # "copying" /\ call.calm /\ ~call.force) => file = receipt.post
    /\ (call.step # "checked" /\ ~receipt.created) =>
            backup = receipt.pre /\ backup.text # "missing"
    /\ call.step = "copying" => ~receipt.created

\* What a running call relies on, given the file, the receipts and the backups: until its
\* receipt is written it alone knows its number, then the receipt is the one it planned.
CallHolds(call, file, written, saved) ==
    /\ call.step \in Applying => call.number \in Applies /\ call.plan \in Plans
    /\ call.step \in {"loaded", "probed", "hashed", "saved"} => written[call.number].status = "none"
    /\ call.step \in {"pending", "written"} => written[call.number] = Pending(call)
    /\ call.calm => ReadsAgree(call, file, saved)
    /\ call.step \in Undoing => UndoHolds(call, file, written[call.number], saved[call.number])

\* What every open apply and rollback has read and written so far.
CallsHold == \A h \in Shells : CallHolds(shells[h], config, receipts, backups)

\* No two applies write the same receipt.
OwnReceipts ==
    \A g, h \in Shells :
        (shells[g].step \in Applying /\ shells[h].step \in Applying
         /\ shells[g].number = shells[h].number) => g = h

\* There is one way to have no file.
MissingIsNothing == config.text = "missing" => config = NoFile

\* The inductive invariant of RuntimeApply: what every open call has read and written so
\* far, an undisturbed one's file included, and that no receipt has two writers.
ApplyIInv ==
    ApplyTypeOK /\ CallsHold /\ OwnReceipts /\ MissingIsNothing /\ WriteAhead /\ TornIsMended

\* The idle values are of their types.
LEMMA FileFacts ==
  /\ NoFile \in File /\ NoFile.text = "missing"
  /\ NoShell \in Shell /\ NoShell.step = "idle" /\ NoShell.number = 0
  /\ NoReceipt \in Receipt /\ NoReceipt.status = "none"
<1>1. NoFile \in File /\ NoFile.text = "missing"
  BY ApplyConstants DEF NoFile, File
<1> QED BY <1>1, ApplyConstants DEF NoShell, Shell, NoReceipt, Receipt

\* A file that a copy left torn is one, and is no other.
LEMMA TornFacts ==
  ASSUME NEW file \in Torn
  PROVE  file \in File /\ file.text \in {"emptied", "cut"}
<1>1. /\ [NoFile EXCEPT !.text = "emptied"] \in File
      /\ [NoFile EXCEPT !.text = "emptied"].text = "emptied"
      /\ [NoFile EXCEPT !.text = "cut"] \in File
      /\ [NoFile EXCEPT !.text = "cut"].text = "cut"
  BY ApplyConstants DEF NoFile, File
<1> QED BY <1>1 DEF Torn

\* A file that no apply wrote is of its type.
LEMMA OthersFile ==
  ASSUME ApplyTypeOK, config' \in File, shells' \in [Shells -> Shell],
         UNCHANGED <<receipts, backups>>, edits' \in 0..MaxEdits, writer' = 0, smooth' = FALSE
  PROVE  ApplyTypeOK'
<1>1. smooth' \in BOOLEAN
  OBVIOUS
<1>2. writer' \in 0..MaxApplies
  BY ApplyConstants
<1> QED BY <1>1, <1>2 DEF ApplyTypeOK

\* A configuration file and no apply.
LEMMA ApplyInitially == ApplyInit => ApplyIInv
<1> SUFFICES ASSUME ApplyInit
             PROVE  ApplyIInv
  OBVIOUS
<1>1. config \in File /\ config.text \in {"missing", "hand"} /\ (config.text = "missing" => config = NoFile)
  BY ApplyConstants DEF ApplyInit, NoFile, File
<1>2. ApplyTypeOK
  <2>1. smooth \in BOOLEAN
    BY DEF ApplyInit
  <2>2. edits \in 0..MaxEdits /\ writer \in 0..MaxApplies
    BY ApplyConstants DEF ApplyInit
  <2>3. /\ receipts \in [Applies -> Receipt] /\ backups \in [Applies -> File]
        /\ shells \in [Shells -> Shell]
    BY FileFacts DEF ApplyInit
  <2> QED BY <1>1, <2>1, <2>2, <2>3 DEF ApplyTypeOK
<1>3. CallsHold /\ OwnReceipts
  BY FileFacts DEF ApplyInit, CallsHold, OwnReceipts, CallHolds, Applying, Undoing, ReadsAgree
<1>4. MissingIsNothing /\ WriteAhead /\ TornIsMended
  BY <1>1, TornFacts DEF ApplyInit, MissingIsNothing, WriteAhead, TornIsMended
<1> QED BY <1>2, <1>3, <1>4 DEF ApplyIInv

\* The planned file is the loaded one with one entry put in.
LEMMA RenderedFacts ==
  ASSUME NEW call \in Shell, call.plan \in Plans
  PROVE  /\ Rendered(call) \in File /\ Rendered(call).text = "dumped"
         /\ Rendered(call).other = call.base.other
         /\ \A s \in Servers \ {ServerOf[call.plan]} : Rendered(call).entries[s] = call.base.entries[s]
<1>1. call.base \in File /\ ServerOf[call.plan] \in Servers
  BY ApplyConstants DEF Shell
<1> DEFINE base == call.base
           e == [base.entries EXCEPT ![ServerOf[call.plan]] = call.plan]
<1>2. /\ e \in [Servers -> Plans \cup {NoPlan}]
      /\ \A s \in Servers \ {ServerOf[call.plan]} : e[s] = base.entries[s]
  BY <1>1 DEF File
<1>3. Rendered(call) = [base EXCEPT !.entries = e, !.text = "dumped"]
  BY <1>1 DEF Rendered, File
<1>4. base \in File
  BY <1>1
<1> HIDE DEF e, base
<1>5. /\ [base EXCEPT !.entries = e, !.text = "dumped"] \in File
      /\ [base EXCEPT !.entries = e, !.text = "dumped"].text = "dumped"
      /\ [base EXCEPT !.entries = e, !.text = "dumped"].other = base.other
      /\ [base EXCEPT !.entries = e, !.text = "dumped"].entries = e
  BY <1>2, <1>4 DEF File
<1> QED BY <1>2, <1>3, <1>5 DEF base

\* Two receipts that differ only in their status, if that.
SamePaper(r, t) ==
    t.server = r.server /\ t.created = r.created /\ t.pre = r.pre /\ t.post = r.post

\* The pending receipt and the applied one are the same but for their status.
LEMMA PendingFacts ==
  ASSUME NEW call \in Shell, call.plan \in Plans
  PROVE  /\ Pending(call) \in Receipt /\ [Pending(call) EXCEPT !.status = "applied"] \in Receipt
         /\ Pending(call).status = "pending"
         /\ [Pending(call) EXCEPT !.status = "applied"].status = "applied"
         /\ Pending(call).pre = call.pre /\ Pending(call).post = Rendered(call)
         /\ Pending(call).created = ~call.exists /\ Pending(call).server = ServerOf[call.plan]
         /\ SamePaper(Pending(call), [Pending(call) EXCEPT !.status = "applied"])
<1>1. /\ Rendered(call) \in File /\ ServerOf[call.plan] \in Servers /\ call.pre \in File
      /\ call.exists \in BOOLEAN
  BY RenderedFacts, ApplyConstants DEF Shell
<1> QED BY <1>1 DEF Pending, Receipt, SamePaper

\* Two calls that differ only in calm.
SameCall(c, d) ==
    /\ d.step = c.step /\ d.plan = c.plan /\ d.number = c.number /\ d.base = c.base
    /\ d.exists = c.exists /\ d.pre = c.pre /\ d.force = c.force

\* Disturbing an open call changes nothing of it but its calm.
LEMMA DisturbedFacts ==
  ASSUME ApplyTypeOK, NEW but
  PROVE  /\ Disturbed(but) \in [Shells -> Shell]
         /\ \A h \in Shells : /\ SameCall(shells[h], Disturbed(but)[h])
                              /\ h \in but => Disturbed(but)[h] = shells[h]
                              /\ (shells[h].step = "idle" \/ h \in but \/ ~Disturbed(but)[h].calm)
<1>1. ASSUME NEW h \in Shells
      PROVE  /\ [shells[h] EXCEPT !.calm = FALSE] \in Shell
             /\ SameCall(shells[h], [shells[h] EXCEPT !.calm = FALSE])
             /\ ~[shells[h] EXCEPT !.calm = FALSE].calm
  <2>1. shells[h] \in Shell
    BY DEF ApplyTypeOK
  <2> QED BY <2>1 DEF Shell, SameCall
<1>2. \A h \in Shells : shells[h] \in Shell /\ SameCall(shells[h], shells[h])
  BY DEF ApplyTypeOK, SameCall
<1> QED BY <1>1, <1>2 DEF Disturbed

\* What a call relies on stays true when others act: they do not touch its receipt and its
\* backup (an apply that ends keeps what its receipt says), and whoever replaces the file
\* disturbs it.
LEMMA CallStays ==
  ASSUME NEW c, NEW d, NEW f, NEW g, NEW w, NEW x, NEW b, NEW e,
         CallHolds(c, f, w, b), SameCall(c, d),
         (c.step # "idle" /\ d.calm) => (c.calm /\ g = f),
         c.step # "idle" => e[c.number] = b[c.number],
         c.step \in Applying => x[c.number] = w[c.number],
         c.step \in Undoing => x[c.number].status # "none" /\ SamePaper(w[c.number], x[c.number])
  PROVE  CallHolds(d, g, x, e)
<1>1. Pending(d) = Pending(c)
  BY DEF SameCall, Pending, Rendered
<1>2. d.calm => ReadsAgree(d, g, e)
  BY DEF CallHolds, SameCall, ReadsAgree
<1>3. d.step \in Undoing => UndoHolds(d, g, x[d.number], e[d.number])
  BY DEF CallHolds, SameCall, UndoHolds, Undoing, SamePaper
<1> QED BY <1>1, <1>2, <1>3 DEF CallHolds, SameCall, Applying

\* What an act of the call h may do to the receipts and backups of the others.
Meddles(h) ==
    /\ \A n \in Applies : n # shells[h].number =>
            receipts'[n] = receipts[n] /\ backups'[n] = backups[n]
    /\ LET n == shells[h].number IN
       \/ receipts' = receipts /\ backups' = backups
       \/ shells[h].step \in Applying /\ receipts[n].status = "none"
       \/ /\ shells[h].step \in Applying /\ backups' = backups /\ receipts'[n].status # "none"
          /\ SamePaper(receipts[n], receipts'[n])

\* What an act of the call h may do to the other calls.
Spares(h) ==
    \A g \in Shells \ {h} :
        /\ SameCall(shells[g], shells'[g])
        /\ (shells[g].step # "idle" /\ shells'[g].calm) => (shells[g].calm /\ config' = config)

\* A step of one call keeps what the other calls rely on, when it disturbs them if it
\* changes the file, and spares their receipts and backups.
LEMMA OthersHold ==
  ASSUME ApplyIInv, NEW h \in Shells, Meddles(h), Spares(h)
  PROVE  \A g \in Shells \ {h} : CallHolds(shells'[g], config', receipts', backups')
<1> TAKE g \in Shells \ {h}
<1>1. /\ CallHolds(shells[g], config, receipts, backups) /\ SameCall(shells[g], shells'[g])
      /\ (shells[g].step # "idle" /\ shells'[g].calm) => (shells[g].calm /\ config' = config)
      /\ shells[g] \in Shell
  BY DEF ApplyIInv, CallsHold, Spares, ApplyTypeOK
<1>2. shells[g].step \in Applying \cup Undoing \cup {"idle"}
  BY <1>1 DEF Shell, Applying, Undoing
<1>3. shells[g].step # "idle" => shells[g].number \in Applies
  BY <1>1, <1>2 DEF CallHolds, UndoHolds
<1>4. (shells[g].step \in Applying /\ shells[h].step \in Applying) => shells[g].number # shells[h].number
  BY DEF ApplyIInv, OwnReceipts
<1>5. shells[g].step \in Undoing => receipts[shells[g].number].status # "none"
  BY <1>1 DEF CallHolds, UndoHolds
<1>6. shells[g].step # "idle" => backups'[shells[g].number] = backups[shells[g].number]
  BY <1>2, <1>3, <1>4, <1>5 DEF Meddles
<1>7. shells[g].step \in Applying => receipts'[shells[g].number] = receipts[shells[g].number]
  BY <1>3, <1>4 DEF Meddles, Applying
<1>8. shells[g].step \in Undoing =>
        /\ receipts'[shells[g].number].status # "none"
        /\ SamePaper(receipts[shells[g].number], receipts'[shells[g].number])
  <2>1. shells[g].step # "idle" <=> shells[g].step \in Applying \cup Undoing
    BY <1>2 DEF Applying, Undoing
  <2> QED BY <1>3, <1>5, <2>1 DEF Meddles, SamePaper
<1> QED BY <1>1, <1>6, <1>7, <1>8, CallStays

\* Two applies never write one receipt.
LEMMA OwnReceiptsStay ==
  ASSUME OwnReceipts, NEW h \in Shells, Spares(h),
         shells'[h].step \in Applying =>
            shells[h].step \in Applying /\ shells'[h].number = shells[h].number
  PROVE  OwnReceipts'
BY DEF OwnReceipts, Spares, SameCall

\* An act that does not replace the file and keeps what the receipts say leaves the last
\* apply undoable.
LEMMA WriteAheadStays ==
  ASSUME ApplyIInv, NEW h \in Shells, Meddles(h), UNCHANGED <<config, writer, smooth>>
  PROVE  WriteAhead'
<1> SUFFICES ASSUME writer # 0
             PROVE  /\ receipts'[writer].status # "none" /\ receipts'[writer].post = config
                    /\ smooth => Restorable(receipts[writer], backups[writer])'
  BY DEF WriteAhead
<1>1. /\ writer \in Applies /\ receipts[writer].status # "none" /\ receipts[writer].post = config
      /\ smooth => Restorable(receipts[writer], backups[writer])
  BY ApplyConstants DEF ApplyIInv, WriteAhead, ApplyTypeOK, Applies
<1>2. /\ receipts'[writer].status # "none" /\ backups'[writer] = backups[writer]
      /\ SamePaper(receipts[writer], receipts'[writer])
  BY <1>1 DEF Meddles, SamePaper
<1> QED BY <1>1, <1>2 DEF Restorable, SamePaper

\* The receipt n has a backup that a forced rollback puts back.
Mends(n) ==
    /\ receipts[n].status # "none" /\ ~receipts[n].created
    /\ backups[n].text # "missing" /\ backups[n] = receipts[n].pre

\* What mends a torn file goes on to, whoever acts.
LEMMA MendStays ==
  ASSUME NEW n \in Applies, Mends(n), NEW h \in Shells, Meddles(h)
  PROVE  Mends(n)'
BY DEF Mends, Meddles, SamePaper

\* A torn file has its mend.
LEMMA MendFacts == TornIsMended <=> (config \in Torn => \E n \in Applies : Mends(n))
<1>1. ASSUME NEW n \in Applies
      PROVE  Mends(n) <=> /\ receipts[n].status # "none" /\ ~receipts[n].created
                          /\ Restorable(receipts[n], backups[n])
  BY DEF Mends, Restorable
<1> QED BY <1>1 DEF TornIsMended

\* An act that tears no file leaves none that is torn for good.
LEMMA TornStays ==
  ASSUME ApplyIInv, NEW h \in Shells, Meddles(h), config' = config \/ config' \notin Torn
  PROVE  TornIsMended'
<1>1. config \in Torn => \E n \in Applies : Mends(n)
  BY MendFacts DEF ApplyIInv
<1>2. config' \in Torn => \E n \in Applies : Mends(n)'
  BY <1>1, MendStays
<1>3. ASSUME NEW n \in Applies
      PROVE  Mends(n)' => /\ receipts'[n].status # "none" /\ ~receipts'[n].created
                          /\ Restorable(receipts[n], backups[n])'
  BY DEF Mends, Restorable
<1> QED BY <1>2, <1>3 DEF TornIsMended

\* An act that leaves the file alone keeps what the invariant says of it.
LEMMA FileStays ==
  ASSUME ApplyIInv, NEW h \in Shells, Meddles(h), UNCHANGED <<config, edits, writer, smooth>>,
         shells' \in [Shells -> Shell], receipts' \in [Applies -> Receipt],
         backups' \in [Applies -> File]
  PROVE  ApplyTypeOK' /\ MissingIsNothing' /\ WriteAhead' /\ TornIsMended'
<1>1. WriteAhead' /\ TornIsMended'
  BY WriteAheadStays, TornStays
<1> QED BY <1>1 DEF ApplyIInv, ApplyTypeOK, MissingIsNothing

\* Somebody edits the file and disturbs every open call.
LEMMA EditConfigStep ==
  ASSUME ApplyIInv, EditConfig
  PROVE  ApplyIInv'
<1> USE DEF ApplyIInv
<1>1. /\ shells' = Disturbed({}) /\ writer' = 0 /\ smooth' = FALSE
      /\ edits' = edits + 1 /\ edits < MaxEdits
      /\ receipts' = receipts /\ backups' = backups
  BY DEF EditConfig
<1>2. /\ config' \in File /\ config'.text \in {"missing", "broken", "hand"}
      /\ config'.text = "missing" => config' = NoFile
  <2>1. config \in File /\ edits + 1 \in 0..MaxEdits
    BY <1>1, ApplyConstants DEF ApplyTypeOK
  <2>2. /\ [config EXCEPT !.text = "broken", !.other = edits + 1] \in File
        /\ [config EXCEPT !.text = "broken", !.other = edits + 1].text = "broken"
        /\ [config EXCEPT !.text = "hand", !.other = edits + 1] \in File
        /\ [config EXCEPT !.text = "hand", !.other = edits + 1].text = "hand"
    BY <2>1 DEF File
  <2> QED BY <2>2, FileFacts DEF EditConfig
<1>3. shells' \in [Shells -> Shell] /\ \A h \in Shells : /\ SameCall(shells[h], shells'[h])
                                                        /\ (shells[h].step = "idle" \/ ~shells'[h].calm)
  BY <1>1, DisturbedFacts
<1>4. ApplyTypeOK'
  <2>1. edits' \in 0..MaxEdits
    BY <1>1, ApplyConstants DEF ApplyTypeOK
  <2> QED BY <1>1, <1>2, <1>3, <2>1, OthersFile
<1>5. CallsHold'
  <2> SUFFICES ASSUME NEW h \in Shells
               PROVE  CallHolds(shells'[h], config', receipts', backups')
    BY DEF CallsHold
  <2>1. CallHolds(shells[h], config, receipts, backups)
    BY DEF CallsHold
  <2>2. shells[h].step \in Undoing => receipts[shells[h].number].status # "none"
    BY <2>1 DEF CallHolds, UndoHolds
  <2>3. SameCall(shells[h], shells'[h]) /\ (shells[h].step = "idle" \/ ~shells'[h].calm)
    BY <1>3
  <2> QED BY <1>1, <2>1, <2>2, <2>3, CallStays DEF SamePaper
<1>6. OwnReceipts'
  BY <1>3 DEF OwnReceipts, SameCall
<1>7. MissingIsNothing' /\ WriteAhead' /\ TornIsMended'
  BY <1>1, <1>2, TornFacts DEF MissingIsNothing, WriteAhead, TornIsMended
<1> QED BY <1>4, <1>5, <1>6, <1>7

\* A call that begins or ends without a trace.
LEMMA CallEnds ==
  ASSUME ApplyIInv, NEW h \in Shells, UNCHANGED <<config, receipts, backups, edits, writer, smooth>>,
         shells' = [shells EXCEPT ![h] = NoShell]
  PROVE  ApplyIInv'
<1> USE DEF ApplyIInv
<1>1. shells' \in [Shells -> Shell] /\ shells'[h] = NoShell
      /\ \A g \in Shells \ {h} : shells'[g] = shells[g]
  BY FileFacts DEF ApplyTypeOK
<1>2. Spares(h) /\ Meddles(h)
  BY <1>1 DEF Spares, Meddles, SameCall
<1>3. CallHolds(shells'[h], config', receipts', backups')
  BY <1>1, FileFacts DEF CallHolds, Applying, Undoing, ReadsAgree
<1>4. CallsHold'
  BY <1>2, <1>3, OthersHold DEF CallsHold
<1>5. OwnReceipts'
  BY <1>1, <1>2, FileFacts, OwnReceiptsStay DEF Applying
<1>6. ApplyTypeOK' /\ MissingIsNothing' /\ WriteAhead' /\ TornIsMended'
  BY <1>1, <1>2, FileStays DEF ApplyTypeOK
<1> QED BY <1>4, <1>5, <1>6

\* A call that goes on, or begins, without touching a file.
LEMMA CallGoes ==
  ASSUME ApplyIInv, NEW h \in Shells, NEW call \in Shell, shells' = [shells EXCEPT ![h] = call],
         UNCHANGED <<config, receipts, backups, edits, writer, smooth>>,
         CallHolds(call, config, receipts, backups),
         call.step \in Applying =>
            \/ shells[h].step \in Applying /\ shells[h].number = call.number
            \/ \A g \in Shells : shells[g].number # call.number
  PROVE  ApplyIInv'
<1> USE DEF ApplyIInv
<1>1. /\ shells' \in [Shells -> Shell] /\ shells'[h] = call
      /\ \A g \in Shells \ {h} : shells'[g] = shells[g]
  BY DEF ApplyTypeOK
<1>2. Spares(h) /\ Meddles(h)
  BY <1>1 DEF Spares, Meddles, SameCall
<1>3. CallsHold'
  BY <1>1, <1>2, OthersHold DEF CallsHold
<1>4. OwnReceipts'
  BY <1>1 DEF OwnReceipts
<1>5. ApplyTypeOK' /\ MissingIsNothing' /\ WriteAhead' /\ TornIsMended'
  BY <1>1, <1>2, FileStays DEF ApplyTypeOK
<1> QED BY <1>3, <1>4, <1>5

\* An apply loads the file under a number nobody used.
LEMMA LoadConfigStep ==
  ASSUME ApplyIInv, NEW h \in Shells, NEW p \in Plans, NEW n \in Applies, LoadConfig(h, p, n)
  PROVE  ApplyIInv'
<1> DEFINE call == [NoShell EXCEPT !.step = "loaded", !.plan = p, !.number = n, !.base = config]
<1>1. /\ shells' = [shells EXCEPT ![h] = call] /\ Unused(n)
      /\ UNCHANGED <<config, receipts, backups, edits, writer, smooth>>
  BY DEF LoadConfig
<1>2. /\ call \in Shell /\ call.step = "loaded" /\ call.plan = p /\ call.number = n
      /\ call.base = config
  <2>1. config \in File /\ n \in 0..MaxApplies
    BY DEF ApplyIInv, ApplyTypeOK, Applies
  <2> QED BY <2>1, FileFacts DEF NoShell, Shell
<1> HIDE DEF call
<1>3. CallHolds(call, config, receipts, backups)
  BY <1>1, <1>2 DEF CallHolds, ReadsAgree, Applying, Undoing, Unused
<1>4. \A g \in Shells : shells[g].number # call.number
  BY <1>1, <1>2 DEF Unused
<1> QED BY <1>1, <1>2, <1>3, <1>4, CallGoes

\* An apply asks whether there is a file, which may have come or gone since it loaded it.
LEMMA ProbeConfigStep ==
  ASSUME ApplyIInv, NEW h \in Shells, ProbeConfig(h)
  PROVE  ApplyIInv'
<1> DEFINE c == shells[h]
           call == [c EXCEPT !.step = "probed", !.exists = (config.text # "missing")]
<1>1. /\ shells' = [shells EXCEPT ![h] = call] /\ c.step = "loaded"
      /\ UNCHANGED <<config, receipts, backups, edits, writer, smooth>>
  BY DEF ProbeConfig, ApplyIInv, ApplyTypeOK
<1>2. c \in Shell /\ CallHolds(c, config, receipts, backups)
  BY DEF ApplyIInv, ApplyTypeOK, CallsHold
<1> HIDE DEF c
<1>3. /\ call \in Shell /\ call.step = "probed" /\ call.plan = c.plan /\ call.number = c.number
      /\ call.base = c.base /\ call.exists = (config.text # "missing") /\ call.calm = c.calm
  BY <1>2 DEF Shell
<1> HIDE DEF call
<1>4. CallHolds(call, config, receipts, backups)
  BY <1>1, <1>2, <1>3 DEF CallHolds, ReadsAgree, Applying, Undoing
<1>5. shells[h].step \in Applying /\ shells[h].number = call.number
  BY <1>1, <1>3 DEF Applying, c
<1> QED BY <1>1, <1>3, <1>4, <1>5, CallGoes

\* An apply hashes the file, and what it loaded may be stale by then.
LEMMA HashConfigStep ==
  ASSUME ApplyIInv, NEW h \in Shells, HashConfig(h)
  PROVE  ApplyIInv'
<1> DEFINE c == shells[h]
           call == [c EXCEPT !.step = "hashed", !.pre = config]
<1>1. /\ shells' = [shells EXCEPT ![h] = call] /\ c.step = "probed"
      /\ UNCHANGED <<config, receipts, backups, edits, writer, smooth>>
  BY DEF HashConfig, ApplyIInv, ApplyTypeOK
<1>2. c \in Shell /\ config \in File /\ CallHolds(c, config, receipts, backups)
  BY DEF ApplyIInv, ApplyTypeOK, CallsHold
<1> HIDE DEF c
<1>3. /\ call \in Shell /\ call.step = "hashed" /\ call.plan = c.plan /\ call.number = c.number
      /\ call.base = c.base /\ call.exists = c.exists /\ call.pre = config /\ call.calm = c.calm
  BY <1>2 DEF Shell
<1> HIDE DEF call
<1>4. CallHolds(call, config, receipts, backups)
  BY <1>1, <1>2, <1>3 DEF CallHolds, ReadsAgree, Applying, Undoing
<1>5. shells[h].step \in Applying /\ shells[h].number = call.number
  BY <1>1, <1>3 DEF Applying, c
<1> QED BY <1>1, <1>3, <1>4, <1>5, CallGoes

\* The backup is what is there when it is made, which need not be what was hashed; an apply
\* whose file is gone by then stops.
LEMMA SaveBackupStep ==
  ASSUME ApplyIInv, NEW h \in Shells, SaveBackup(h)
  PROVE  ApplyIInv'
<1> USE DEF ApplyIInv
<1> DEFINE c == shells[h]
           call == [c EXCEPT !.step = "saved"]
<1>1. c.step = "hashed" /\ UNCHANGED <<config, receipts, edits, writer, smooth>>
  BY DEF SaveBackup
<1>2. CASE shells' = [shells EXCEPT ![h] = NoShell] /\ backups' = backups
  BY <1>1, <1>2, CallEnds
<1>3. CASE /\ shells' = [shells EXCEPT ![h] = call]
           /\ \/ ~c.exists /\ backups' = backups
              \/ backups' = [backups EXCEPT ![c.number] = config]
  <2>1. c \in Shell /\ config \in File /\ CallHolds(c, config, receipts, backups)
    BY DEF ApplyTypeOK, CallsHold
  <2> HIDE DEF c
  <2>2. /\ call \in Shell /\ call.step = "saved" /\ call.plan = c.plan /\ call.number = c.number
        /\ call.base = c.base /\ call.exists = c.exists /\ call.pre = c.pre /\ call.calm = c.calm
    BY <2>1 DEF Shell
  <2> HIDE DEF call
  <2>3. /\ shells' \in [Shells -> Shell] /\ shells'[h] = call
        /\ \A g \in Shells \ {h} : shells'[g] = shells[g]
    BY <1>3, <2>2 DEF ApplyTypeOK
  <2>4. c.number \in Applies /\ c.plan \in Plans /\ receipts[c.number].status = "none"
    BY <1>1, <2>1 DEF CallHolds, Applying
  <2>5. /\ backups' \in [Applies -> File]
        /\ \A n \in Applies : n # c.number => backups'[n] = backups[n]
        /\ c.exists => backups'[c.number] = config
    BY <1>3, <2>1, <2>4 DEF ApplyTypeOK
  <2>6. Spares(h)
    BY <1>1, <2>3 DEF Spares, SameCall
  <2>7. Meddles(h)
    BY <1>1, <2>4, <2>5 DEF Meddles, Applying, c
  <2>8. call.calm => ReadsAgree(call, config, backups')
    BY <1>1, <2>1, <2>2, <2>5 DEF CallHolds, ReadsAgree
  <2>9. CallHolds(shells'[h], config', receipts', backups')
    BY <1>1, <2>2, <2>3, <2>4, <2>8 DEF CallHolds, Applying, Undoing
  <2>10. CallsHold'
    BY <2>6, <2>7, <2>9, OthersHold DEF CallsHold
  <2>11. OwnReceipts'
    BY <1>1, <2>2, <2>3, <2>6, OwnReceiptsStay DEF Applying, c
  <2>12. ApplyTypeOK' /\ MissingIsNothing' /\ WriteAhead' /\ TornIsMended'
    BY <1>1, <2>3, <2>5, <2>7, FileStays DEF ApplyTypeOK
  <2> QED BY <2>10, <2>11, <2>12
<1>4. \/ shells' = [shells EXCEPT ![h] = NoShell] /\ backups' = backups
      \/ /\ shells' = [shells EXCEPT ![h] = call]
         /\ \/ ~c.exists /\ backups' = backups
            \/ backups' = [backups EXCEPT ![c.number] = config]
  BY DEF SaveBackup, Stop, Go, ApplyTypeOK
<1> QED BY <1>2, <1>3, <1>4

\* The pending receipt goes down before the file is replaced.
LEMMA WritePendingStep ==
  ASSUME ApplyIInv, NEW h \in Shells, WritePending(h)
  PROVE  ApplyIInv'
<1> USE DEF ApplyIInv
<1> DEFINE c == shells[h]
           call == [c EXCEPT !.step = "pending"]
<1>1. /\ c.step = "saved" /\ UNCHANGED <<config, backups, edits, writer, smooth>>
      /\ receipts' = [receipts EXCEPT ![c.number] = Pending(c)]
      /\ shells' = [shells EXCEPT ![h] = call]
  BY DEF WritePending, Go, ApplyTypeOK
<1>2. c \in Shell /\ CallHolds(c, config, receipts, backups)
  BY DEF ApplyTypeOK, CallsHold
<1>3. c.number \in Applies /\ c.plan \in Plans /\ receipts[c.number].status = "none"
  BY <1>1, <1>2 DEF CallHolds, Applying
<1> HIDE DEF c
<1>4. /\ call \in Shell /\ call.step = "pending" /\ call.plan = c.plan /\ call.number = c.number
      /\ call.base = c.base /\ call.exists = c.exists /\ call.pre = c.pre /\ call.calm = c.calm
  BY <1>2 DEF Shell
<1> HIDE DEF call
<1>5. Pending(call) = Pending(c)
  BY <1>4 DEF Pending, Rendered
<1>6. /\ shells' \in [Shells -> Shell] /\ shells'[h] = call
      /\ \A g \in Shells \ {h} : shells'[g] = shells[g]
  BY <1>1, <1>4 DEF ApplyTypeOK
<1>7. /\ receipts' \in [Applies -> Receipt] /\ receipts'[c.number] = Pending(c)
      /\ \A n \in Applies : n # c.number => receipts'[n] = receipts[n]
  BY <1>1, <1>2, <1>3, PendingFacts DEF ApplyTypeOK
<1>8. Spares(h)
  BY <1>1, <1>6 DEF Spares, SameCall
<1>9. Meddles(h)
  BY <1>1, <1>3, <1>7 DEF Meddles, Applying, c
<1>10. call.calm => ReadsAgree(call, config, backups)
  BY <1>1, <1>2, <1>4 DEF CallHolds, ReadsAgree
<1>11. CallHolds(shells'[h], config', receipts', backups')
  BY <1>1, <1>3, <1>4, <1>5, <1>6, <1>7, <1>10 DEF CallHolds, Applying, Undoing
<1>12. CallsHold'
  BY <1>8, <1>9, <1>11, OthersHold DEF CallsHold
<1>13. OwnReceipts'
  BY <1>1, <1>4, <1>6, <1>8, OwnReceiptsStay DEF Applying, c
<1>14. ApplyTypeOK' /\ MissingIsNothing' /\ WriteAhead' /\ TornIsMended'
  BY <1>1, <1>6, <1>7, <1>9, FileStays DEF ApplyTypeOK
<1> QED BY <1>12, <1>13, <1>14

\* An act that replaces the file, disturbs the other calls and touches no receipt.
LEMMA Disturbs ==
  ASSUME ApplyIInv, NEW h \in Shells, NEW call \in Shell,
         shells' = [Disturbed({h}) EXCEPT ![h] = call],
         call.step \in Applying =>
            shells[h].step \in Applying /\ shells[h].number = call.number,
         UNCHANGED <<receipts, backups>>
  PROVE  /\ shells' \in [Shells -> Shell] /\ shells'[h] = call /\ Spares(h) /\ Meddles(h)
         /\ CallHolds(call, config', receipts, backups) => CallsHold'
         /\ OwnReceipts'
<1> USE DEF ApplyIInv
<1> DEFINE others == Disturbed({h})
<1>1. /\ others \in [Shells -> Shell]
      /\ \A g \in Shells \ {h} : /\ SameCall(shells[g], others[g])
                                  /\ (shells[g].step = "idle" \/ ~others[g].calm)
  BY DisturbedFacts
<1> HIDE DEF others
<1>2. /\ shells' \in [Shells -> Shell] /\ shells'[h] = call
      /\ \A g \in Shells \ {h} : shells'[g] = others[g]
  BY <1>1 DEF others
<1>3. Spares(h) /\ Meddles(h)
  BY <1>1, <1>2 DEF Spares, Meddles
<1>4. CallHolds(call, config', receipts, backups) => CallsHold'
  BY <1>2, <1>3, OthersHold DEF CallsHold
<1>5. OwnReceipts'
  BY <1>2, <1>3, OwnReceiptsStay
<1> QED BY <1>2, <1>3, <1>4, <1>5

\* What an apply renders from no file holds nothing but its server.
LEMMA RenderedIsOwned ==
  ASSUME NEW call \in Shell, call.plan \in Plans, call.base = NoFile
  PROVE  Owned(Rendered(call), ServerOf[call.plan])
<1>1. Rendered(call).text = "dumped" /\ Rendered(call).other = 0
  BY RenderedFacts DEF NoFile
<1>2. \A s \in Servers \ {ServerOf[call.plan]} : Rendered(call).entries[s] = NoPlan
  BY RenderedFacts DEF NoFile
<1>3. ServerOf[call.plan] \in Servers /\ Rendered(call).entries[ServerOf[call.plan]] = call.plan
  BY ApplyConstants DEF Rendered, NoFile
<1>4. {s \in Servers : Rendered(call).entries[s] # NoPlan} = {ServerOf[call.plan]}
  BY <1>2, <1>3, ApplyConstants
<1> QED BY <1>1, <1>4 DEF Owned, Parses

\* What Restorable asks, of any file.
Undoes(file, receipt, backup) ==
    IF receipt.created THEN Owned(file, receipt.server)
    ELSE backup.text # "missing" /\ backup = receipt.pre

\* An apply that replaces the file puts its one entry into what it loaded; calm, that is
\* what the file still held, and its receipt undoes it.
LEMMA ReplaceFacts ==
  ASSUME ApplyIInv, NEW h \in Shells, ReplaceConfig(h)
  PROVE  /\ shells[h] \in Shell /\ shells[h].plan \in Plans /\ shells[h].number \in Applies
         /\ config' = Rendered(shells[h]) /\ [shells[h] EXCEPT !.step = "written"] \in Shell
         /\ shells' = [Disturbed({h}) EXCEPT ![h] = [shells[h] EXCEPT !.step = "written"]]
         /\ receipts[shells[h].number] = Pending(shells[h])
         /\ shells[h].calm => config = shells[h].base
         /\ shells[h].calm => Undoes(config', receipts[shells[h].number], backups[shells[h].number])
<1> USE DEF ApplyIInv
<1> DEFINE c == shells[h]
           others == Disturbed({h})
           r == receipts[c.number]
<1>1. /\ c.step = "pending" /\ config' = Rendered(c) /\ shells' = [others EXCEPT ![h].step = "written"]
      /\ UNCHANGED <<receipts, backups>>
  BY DEF ReplaceConfig
<1>2. c \in Shell /\ CallHolds(c, config, receipts, backups) /\ config \in File
  BY DEF ApplyTypeOK, CallsHold
<1>3. others[h] = c /\ others \in [Shells -> Shell]
  BY DisturbedFacts
<1> HIDE DEF c, others
<1>4. [c EXCEPT !.step = "written"] \in Shell
  BY <1>2 DEF Shell
<1>5. shells' = [others EXCEPT ![h] = [c EXCEPT !.step = "written"]]
  BY <1>1, <1>3
<1>6. /\ c.plan \in Plans /\ c.number \in Applies /\ r = Pending(c)
      /\ c.calm => ReadsAgree(c, config, backups)
  BY <1>1, <1>2 DEF CallHolds, Applying
<1>7. c.calm => /\ config = c.base /\ c.exists = (c.base.text # "missing") /\ c.pre = c.base
                /\ c.exists => backups[c.number] = c.pre
  BY <1>1, <1>6 DEF ReadsAgree
<1>8. r.created = ~c.exists /\ r.pre = c.pre /\ r.server = ServerOf[c.plan]
  BY <1>2, <1>6, PendingFacts
<1>9. ASSUME c.calm
      PROVE  Undoes(config', r, backups[c.number])
  <2>1. CASE c.exists
    <3>1. c.pre.text # "missing"
      BY <1>7, <1>9, <2>1
    <3> QED BY <1>7, <1>8, <1>9, <2>1, <3>1 DEF Undoes
  <2>2. CASE ~c.exists
    <3>1. c.base = NoFile
      BY <1>7, <1>9, <2>2 DEF MissingIsNothing
    <3>2. Owned(config', r.server)
      BY <1>1, <1>2, <1>6, <1>8, <3>1, RenderedIsOwned
    <3> QED BY <1>8, <2>2, <3>2 DEF Undoes
  <2>3. c.exists \in BOOLEAN
    BY <1>2 DEF Shell
  <2> QED BY <2>1, <2>2, <2>3
<1> QED BY <1>1, <1>2, <1>4, <1>5, <1>6, <1>7, <1>9 DEF c, others

\* The file becomes what the plan renders from the text that was loaded, and every other
\* open call is disturbed.
LEMMA ReplaceConfigStep ==
  ASSUME ApplyIInv, NEW h \in Shells, ReplaceConfig(h)
  PROVE  ApplyIInv'
<1> USE DEF ApplyIInv
<1> DEFINE c == shells[h]
           call == [c EXCEPT !.step = "written"]
<1>1. /\ c.step = "pending" /\ UNCHANGED <<receipts, backups, edits>>
      /\ writer' = c.number /\ smooth' = c.calm /\ config' = Rendered(c)
  BY DEF ReplaceConfig
<1>2. /\ c \in Shell /\ c.plan \in Plans /\ c.number \in Applies /\ call \in Shell
      /\ shells' = [Disturbed({h}) EXCEPT ![h] = call]
      /\ receipts[c.number] = Pending(c)
      /\ c.calm => Undoes(config', receipts[c.number], backups[c.number])
  BY ReplaceFacts
<1>3. shells[h].step \in Applying /\ shells[h].number = c.number
  BY <1>1 DEF Applying
<1> HIDE DEF c
<1>4. /\ call.step = "written" /\ call.plan = c.plan /\ call.number = c.number
      /\ call.base = c.base /\ call.exists = c.exists /\ call.pre = c.pre
  BY <1>2 DEF Shell
<1> HIDE DEF call
<1>5. Pending(call) = Pending(c)
  BY <1>4 DEF Pending, Rendered
<1>6. CallHolds(call, config', receipts, backups)
  BY <1>2, <1>4, <1>5 DEF CallHolds, ReadsAgree, Applying, Undoing
<1>7. /\ shells' \in [Shells -> Shell] /\ CallsHold' /\ OwnReceipts' /\ Meddles(h)
  BY <1>1, <1>2, <1>3, <1>4, <1>6, Disturbs
<1>8. config' \in File /\ config'.text = "dumped"
  BY <1>1, <1>2, RenderedFacts
<1>9. ApplyTypeOK' /\ MissingIsNothing'
  BY <1>1, <1>2, <1>7, <1>8 DEF ApplyTypeOK, MissingIsNothing, Applies, Shell
<1>10. WriteAhead'
  <2>1. Pending(c).status = "pending" /\ Pending(c).post = Rendered(c)
    BY <1>2, PendingFacts
  <2> QED BY <1>1, <1>2, <2>1 DEF WriteAhead, Restorable, Undoes
<1>11. TornIsMended'
  BY <1>7, <1>8, TornStays, TornFacts
<1> QED BY <1>7, <1>9, <1>10, <1>11

\* The receipt becomes an applied one.
LEMMA WriteAppliedStep ==
  ASSUME ApplyIInv, NEW h \in Shells, WriteApplied(h)
  PROVE  ApplyIInv'
<1> USE DEF ApplyIInv
<1> DEFINE c == shells[h]
           r == [Pending(c) EXCEPT !.status = "applied"]
<1>1. /\ c.step = "written" /\ UNCHANGED <<config, backups, edits, writer, smooth>>
      /\ receipts' = [receipts EXCEPT ![c.number] = r]
      /\ shells' = [shells EXCEPT ![h] = NoShell]
  BY DEF WriteApplied, Stop
<1>2. c \in Shell /\ CallHolds(c, config, receipts, backups)
  BY DEF ApplyTypeOK, CallsHold
<1>3. c.number \in Applies /\ c.plan \in Plans /\ receipts[c.number] = Pending(c)
  BY <1>1, <1>2 DEF CallHolds, Applying
<1> HIDE DEF c
<1>4. r \in Receipt /\ r.status = "applied" /\ SamePaper(Pending(c), r)
  BY <1>2, <1>3, PendingFacts
<1> HIDE DEF r
<1>5. /\ shells' \in [Shells -> Shell] /\ shells'[h] = NoShell
      /\ \A g \in Shells \ {h} : shells'[g] = shells[g]
  BY <1>1, FileFacts DEF ApplyTypeOK
<1>6. /\ receipts' \in [Applies -> Receipt] /\ receipts'[c.number] = r
      /\ \A n \in Applies : n # c.number => receipts'[n] = receipts[n]
  BY <1>1, <1>3, <1>4 DEF ApplyTypeOK
<1>7. Spares(h)
  BY <1>1, <1>5 DEF Spares, SameCall
<1>8. Meddles(h)
  BY <1>1, <1>3, <1>4, <1>6 DEF Meddles, Applying, c
<1>9. CallHolds(shells'[h], config', receipts', backups')
  BY <1>5, FileFacts DEF CallHolds, ReadsAgree, Applying, Undoing
<1>10. CallsHold'
  BY <1>7, <1>8, <1>9, OthersHold DEF CallsHold
<1>11. OwnReceipts'
  BY <1>5, <1>7, FileFacts, OwnReceiptsStay DEF Applying
<1>12. ApplyTypeOK' /\ MissingIsNothing' /\ WriteAhead' /\ TornIsMended'
  BY <1>1, <1>5, <1>6, <1>8, FileStays DEF ApplyTypeOK
<1> QED BY <1>10, <1>11, <1>12

\* A rollback begins when the file has the hash in the receipt, or when it is forced.
LEMMA CheckRollbackStep ==
  ASSUME ApplyIInv, NEW h \in Shells, NEW n \in Applies, NEW force \in BOOLEAN,
         CheckRollback(h, n, force)
  PROVE  ApplyIInv'
<1> DEFINE call == [NoShell EXCEPT !.step = "checked", !.number = n, !.force = force]
<1>1. /\ shells' = [shells EXCEPT ![h] = call] /\ receipts[n].status # "none"
      /\ Untouched(receipts[n]) \/ force
      /\ UNCHANGED <<config, receipts, backups, edits, writer, smooth>>
  BY DEF CheckRollback
<1>2. call \in Shell /\ call.step = "checked" /\ call.number = n /\ call.force = force
  <2>1. n \in 0..MaxApplies
    BY DEF Applies
  <2> QED BY <2>1, FileFacts DEF NoShell, Shell
<1> HIDE DEF call
<1>3. CallHolds(call, config, receipts, backups)
  BY <1>1, <1>2 DEF CallHolds, ReadsAgree, UndoHolds, Applying, Undoing, Untouched
<1>4. call.step \notin Applying
  BY <1>2 DEF Applying
<1> QED BY <1>1, <1>2, <1>3, <1>4, CallGoes

\* It goes on when the backup has the hash in the receipt, or the created file its server
\* only.
LEMMA CheckUndoStep ==
  ASSUME ApplyIInv, NEW h \in Shells, CheckUndo(h)
  PROVE  ApplyIInv'
<1> DEFINE c == shells[h]
           call == [c EXCEPT !.step = "restore"]
<1>1. /\ c.step = "checked" /\ UNCHANGED <<config, receipts, backups, edits, writer, smooth>>
      /\ \/ shells' = [shells EXCEPT ![h] = NoShell]
         \/ /\ shells' = [shells EXCEPT ![h] = call]
            /\ Restorable(receipts[c.number], backups[c.number])
  BY DEF CheckUndo, Go, Stop, ApplyIInv, ApplyTypeOK
<1>2. c \in Shell /\ CallHolds(c, config, receipts, backups)
  BY DEF ApplyIInv, ApplyTypeOK, CallsHold
<1>3. CASE shells' = [shells EXCEPT ![h] = NoShell]
  BY <1>1, <1>3, CallEnds
<1> HIDE DEF c
<1>4. /\ call \in Shell /\ call.step = "restore" /\ call.number = c.number
      /\ call.force = c.force /\ call.calm = c.calm
  BY <1>2 DEF Shell
<1> HIDE DEF call
<1>5. CASE shells' = [shells EXCEPT ![h] = call] /\ Restorable(receipts[c.number], backups[c.number])
  <2>1. CallHolds(call, config, receipts, backups)
    BY <1>1, <1>2, <1>4, <1>5 DEF CallHolds, ReadsAgree, UndoHolds, Applying, Undoing, Restorable
  <2>2. call.step \notin Applying
    BY <1>4 DEF Applying
  <2> QED BY <1>1, <1>4, <1>5, <2>1, <2>2, CallGoes
<1> QED BY <1>1, <1>3, <1>5

\* The rollback of a created file ends with no file.
LEMMA RemoveConfigStep ==
  ASSUME ApplyIInv, NEW h \in Shells, RemoveConfig(h)
  PROVE  ApplyIInv'
<1> USE DEF ApplyIInv
<1>1. /\ config' = NoFile /\ writer' = 0 /\ smooth' = FALSE /\ UNCHANGED <<receipts, backups, edits>>
      /\ shells' = [Disturbed({h}) EXCEPT ![h] = NoShell]
  BY DEF RemoveConfig
<1>2. CallHolds(NoShell, config', receipts, backups)
  BY FileFacts DEF CallHolds, ReadsAgree, Applying, Undoing, NoShell
<1>3. shells' \in [Shells -> Shell] /\ CallsHold' /\ OwnReceipts' /\ Meddles(h)
  BY <1>1, <1>2, FileFacts, Disturbs DEF Applying
<1>4. edits' \in 0..MaxEdits
  BY <1>1 DEF ApplyTypeOK
<1>6. ApplyTypeOK'
  BY <1>1, <1>3, <1>4, FileFacts, OthersFile
<1>7. MissingIsNothing' /\ WriteAhead'
  BY <1>1 DEF MissingIsNothing, WriteAhead
<1>5. TornIsMended'
  BY <1>1, <1>3, FileFacts, TornFacts, TornStays
<1> QED BY <1>3, <1>5, <1>6, <1>7

\* What the rollback of a file that was there has checked by the time it copies.
LEMMA CopyFacts ==
  ASSUME ApplyIInv, NEW h \in Shells, shells[h].step \in {"restore", "copying"},
         ~receipts[shells[h].number].created
  PROVE  /\ shells[h].number \in Applies /\ Mends(shells[h].number)
         /\ backups[shells[h].number] = receipts[shells[h].number].pre
         /\ backups[shells[h].number] \in File
<1>1. UndoHolds(shells[h], config, receipts[shells[h].number], backups[shells[h].number])
  BY DEF ApplyIInv, CallsHold, CallHolds, Undoing
<1> QED BY <1>1 DEF UndoHolds, Mends, ApplyIInv, ApplyTypeOK

\* The copy begins: the file is torn, and the receipt that tore it mends it.
LEMMA BeginCopyStep ==
  ASSUME ApplyIInv, NEW h \in Shells, BeginCopy(h)
  PROVE  ApplyIInv'
<1> USE DEF ApplyIInv
<1> DEFINE c == shells[h]
           others == Disturbed({h})
           call == [c EXCEPT !.step = "copying", !.calm = TRUE]
<1>1. /\ c.step = "restore" /\ ~receipts[c.number].created /\ config' \in Torn
      /\ writer' = 0 /\ smooth' = FALSE /\ UNCHANGED <<receipts, backups, edits>>
      /\ shells' = [others EXCEPT ![h].step = "copying", ![h].calm = TRUE]
  BY DEF BeginCopy
<1>2. others[h] = c /\ others \in [Shells -> Shell] /\ c \in Shell
  BY DisturbedFacts DEF ApplyTypeOK
<1>3. shells' = [others EXCEPT ![h] = call]
  <2> HIDE DEF c, others
  <2>1. shells' = [others EXCEPT ![h] = [[others[h] EXCEPT !.step = "copying"] EXCEPT !.calm = TRUE]]
    BY <1>1, <1>2
  <2> QED BY <1>2, <2>1 DEF Shell
<1>4. c.number \in Applies /\ Mends(c.number)
  BY <1>1, CopyFacts
<1>5. CallHolds(c, config, receipts, backups)
  BY DEF CallsHold
<1> HIDE DEF c, others
<1>6. call \in Shell /\ call.step = "copying" /\ call.number = c.number
  BY <1>2 DEF Shell
<1> HIDE DEF call
<1>7. CallHolds(call, config', receipts, backups)
  BY <1>1, <1>4, <1>6 DEF CallHolds, ReadsAgree, UndoHolds, Applying, Undoing, Mends
<1>8. shells' \in [Shells -> Shell] /\ CallsHold' /\ OwnReceipts' /\ Meddles(h)
  BY <1>1, <1>3, <1>6, <1>7, Disturbs DEF Applying, others
<1>9. config' \in File /\ config'.text # "missing"
  BY <1>1, TornFacts
<1>10. ApplyTypeOK' /\ MissingIsNothing' /\ WriteAhead'
  <2>1. edits' \in 0..MaxEdits
    BY <1>1 DEF ApplyTypeOK
  <2>2. ApplyTypeOK'
    BY <1>1, <1>8, <1>9, <2>1, OthersFile
  <2> QED BY <1>1, <1>9, <2>2 DEF MissingIsNothing, WriteAhead
<1>11. TornIsMended'
  BY <1>1, <1>4 DEF TornIsMended, Mends, Restorable
<1> QED BY <1>8, <1>10, <1>11

\* The copy ends, with the file what it was before the apply unless others wrote along.
LEMMA EndCopyStep ==
  ASSUME ApplyIInv, NEW h \in Shells, EndCopy(h)
  PROVE  ApplyIInv'
<1> USE DEF ApplyIInv
<1> DEFINE c == shells[h]
           backup == backups[c.number]
<1>1. /\ c.step = "copying" /\ UNCHANGED <<receipts, backups, edits>>
      /\ config' \in {config, backup} \cup Torn
      /\ \/ config' = config /\ UNCHANGED <<writer, smooth>>
         \/ writer' = 0 /\ smooth' = FALSE
      /\ shells' = [Disturbed({h}) EXCEPT ![h] = NoShell]
  BY DEF EndCopy
<1>2. ~receipts[c.number].created
  BY <1>1 DEF CallsHold, CallHolds, UndoHolds, Undoing
<1>3. c.number \in Applies /\ Mends(c.number) /\ backup \in File /\ backup.text # "missing"
  BY <1>1, <1>2, CopyFacts DEF Mends
<1>4. CallHolds(NoShell, config', receipts, backups)
  BY FileFacts DEF CallHolds, ReadsAgree, Applying, Undoing, NoShell
<1>5. shells' \in [Shells -> Shell] /\ CallsHold' /\ OwnReceipts' /\ Meddles(h)
  BY <1>1, <1>4, FileFacts, Disturbs DEF Applying
<1>6. config' \in File /\ (config'.text = "missing" => config' = NoFile)
  BY <1>1, <1>3, TornFacts DEF ApplyTypeOK, MissingIsNothing
<1>7. WriteAhead'
  <2>1. CASE config' = config /\ UNCHANGED <<writer, smooth>>
    BY <1>5, <2>1, WriteAheadStays
  <2>2. CASE writer' = 0
    BY <2>2 DEF WriteAhead
  <2> QED BY <1>1, <2>1, <2>2
<1>8. ApplyTypeOK' /\ MissingIsNothing'
  <2>1. edits' \in 0..MaxEdits
    BY <1>1 DEF ApplyTypeOK
  <2>2. CASE config' = config /\ UNCHANGED <<writer, smooth>>
    BY <1>1, <1>5, <1>6, <2>2 DEF ApplyTypeOK, MissingIsNothing
  <2>3. CASE writer' = 0 /\ smooth' = FALSE
    <3>1. ApplyTypeOK'
      BY <1>1, <1>5, <1>6, <2>1, <2>3, OthersFile
    <3> QED BY <1>6, <3>1 DEF MissingIsNothing
  <2> QED BY <1>1, <2>2, <2>3
<1>9. TornIsMended'
  BY <1>1, <1>3 DEF TornIsMended, Mends, Restorable
<1> QED BY <1>5, <1>7, <1>8, <1>9

\* What one step of a call is, whatever it does.
CallStep(h) ==
    \/ Die(h)
    \/ \E p \in Plans, n \in Applies : LoadConfig(h, p, n)
    \/ ProbeConfig(h) \/ HashConfig(h) \/ SaveBackup(h) \/ WritePending(h)
    \/ ReplaceConfig(h) \/ WriteApplied(h)
    \/ \E n \in Applies, force \in BOOLEAN : CheckRollback(h, n, force)
    \/ CheckUndo(h) \/ RemoveConfig(h) \/ BeginCopy(h) \/ EndCopy(h)

\* Every step of the applies, the rollbacks and the editor keeps the inductive invariant.
LEMMA ApplyStep == ApplyIInv /\ [ApplyNext]_applyVars => ApplyIInv'
<1> SUFFICES ASSUME ApplyIInv, [ApplyNext]_applyVars
             PROVE  ApplyIInv'
  OBVIOUS
<1>1. CASE EditConfig
  BY <1>1, EditConfigStep
<1>2. ASSUME NEW h \in Shells, CallStep(h)
      PROVE  ApplyIInv'
  <2>1. CASE Die(h)
    BY <2>1, CallEnds DEF Die
  <2>2. CASE \E p \in Plans, n \in Applies : LoadConfig(h, p, n)
    BY <2>2, LoadConfigStep
  <2>3. CASE ProbeConfig(h) \/ HashConfig(h) \/ SaveBackup(h)
    BY <2>3, ProbeConfigStep, HashConfigStep, SaveBackupStep
  <2>4. CASE WritePending(h) \/ ReplaceConfig(h) \/ WriteApplied(h)
    BY <2>4, WritePendingStep, ReplaceConfigStep, WriteAppliedStep
  <2>5. CASE \E n \in Applies, force \in BOOLEAN : CheckRollback(h, n, force)
    BY <2>5, CheckRollbackStep
  <2>6. CASE CheckUndo(h) \/ RemoveConfig(h) \/ BeginCopy(h) \/ EndCopy(h)
    BY <2>6, CheckUndoStep, RemoveConfigStep, BeginCopyStep, EndCopyStep
  <2> QED BY <1>2, <2>1, <2>2, <2>3, <2>4, <2>5, <2>6 DEF CallStep
<1>3. CASE UNCHANGED applyVars
  BY <1>3 DEF applyVars, ApplyIInv, ApplyTypeOK, CallsHold, CallHolds, ReadsAgree, UndoHolds,
              OwnReceipts, MissingIsNothing, WriteAhead, TornIsMended, Restorable
<1> QED BY <1>1, <1>2, <1>3 DEF ApplyNext, CallStep

\* The inductive invariant holds in every state of the configuration file, for any shells,
\* plans and receipts.
THEOREM ApplyInvariance == ApplySpec => []ApplyIInv
BY ApplyInitially, ApplyStep, PTL DEF ApplySpec

\* A call's own step is its own: the steps of others leave it where it is.
LEMMA StepsAreOwn ==
  ASSUME ApplyIInv, NEW g \in Shells, CallStep(g), NEW h \in Shells \ {g}
  PROVE  shells'[h].step = shells[h].step
<1> USE DEF ApplyIInv
<1>1. ASSUME NEW call, shells' = [Disturbed({g}) EXCEPT ![g] = call]
      PROVE  shells'[h].step = shells[h].step
  BY <1>1, DisturbedFacts DEF SameCall
<1>2. CASE ReplaceConfig(g)
  BY <1>1, <1>2, ReplaceFacts
<1>3. CASE RemoveConfig(g) \/ EndCopy(g)
  BY <1>1, <1>3 DEF RemoveConfig, EndCopy
<1>4. CASE BeginCopy(g)
  <2>1. shells' = [Disturbed({g}) EXCEPT ![g].step = "copying", ![g].calm = TRUE]
    BY <1>4 DEF BeginCopy
  <2> QED BY <2>1, DisturbedFacts DEF SameCall
<1>5. CASE \/ Die(g) \/ ProbeConfig(g) \/ HashConfig(g) \/ SaveBackup(g) \/ WritePending(g)
           \/ WriteApplied(g) \/ CheckUndo(g)
           \/ \E p \in Plans, n \in Applies : LoadConfig(g, p, n)
           \/ \E n \in Applies, force \in BOOLEAN : CheckRollback(g, n, force)
  <2>1. shells'[h] = shells[h]
    BY <1>5 DEF ApplyTypeOK, Die, ProbeConfig, HashConfig, SaveBackup, WritePending, WriteApplied,
                LoadConfig, CheckRollback, CheckUndo, Go, Stop
  <2> QED BY <2>1
<1> QED BY <1>2, <1>3, <1>4, <1>5 DEF CallStep

\* The steps that change the file are known by what becomes of their call.
LEMMA Replacements ==
  ASSUME ApplyIInv, [ApplyNext]_applyVars, NEW h \in Shells
  PROVE  /\ (shells[h].step = "pending" /\ shells'[h].step = "written") => ReplaceConfig(h)
         /\ (shells[h].step = "restore" /\ shells'[h].step \in {"idle", "copying"} /\ config' # config) =>
                RemoveConfig(h) \/ (BeginCopy(h) /\ shells'[h].step = "copying")
         /\ (shells[h].step = "copying" /\ shells'[h].step = "idle" /\ config' # config) => EndCopy(h)
<1>1. CASE UNCHANGED applyVars
  BY <1>1 DEF applyVars
<1>2. CASE EditConfig
  <2>1. shells'[h].step = shells[h].step
    BY <1>2, DisturbedFacts DEF EditConfig, SameCall, ApplyIInv
  <2> QED BY <2>1
<1>3. ASSUME NEW g \in Shells \ {h}, CallStep(g)
      PROVE  shells'[h].step = shells[h].step
  BY <1>3, StepsAreOwn
<1>4. CASE CallStep(h)
  <2>1. shells[h].step = "pending" => Die(h) \/ ReplaceConfig(h)
    BY <1>4 DEF CallStep, ProbeConfig, HashConfig, SaveBackup, WritePending, WriteApplied, LoadConfig,
                CheckRollback, CheckUndo, RemoveConfig, BeginCopy, EndCopy
  <2>2. shells[h].step = "restore" => Die(h) \/ RemoveConfig(h) \/ BeginCopy(h)
    BY <1>4 DEF CallStep, ProbeConfig, HashConfig, SaveBackup, WritePending, WriteApplied, LoadConfig,
                CheckRollback, CheckUndo, ReplaceConfig, EndCopy
  <2>3. shells[h].step = "copying" => Die(h) \/ EndCopy(h)
    BY <1>4 DEF CallStep, ProbeConfig, HashConfig, SaveBackup, WritePending, WriteApplied, LoadConfig,
                CheckRollback, CheckUndo, ReplaceConfig, RemoveConfig, BeginCopy
  <2>4. Die(h) => shells'[h].step = "idle" /\ config' = config
    BY FileFacts DEF Die, ApplyIInv, ApplyTypeOK
  <2>5. BeginCopy(h) => shells'[h].step = "copying"
    <3> SUFFICES ASSUME BeginCopy(h)
                 PROVE  shells'[h].step = "copying"
      OBVIOUS
    <3>1. shells' = [Disturbed({h}) EXCEPT ![h].step = "copying", ![h].calm = TRUE]
      BY DEF BeginCopy
    <3> DEFINE others == Disturbed({h})
    <3>2. others \in [Shells -> Shell]
      BY DisturbedFacts DEF ApplyIInv
    <3> HIDE DEF others
    <3>3. shells'[h] = [[others[h] EXCEPT !.step = "copying"] EXCEPT !.calm = TRUE]
      BY <3>1, <3>2 DEF others
    <3>4. PICK o \in Shell : o = others[h]
      BY <3>2
    <3>5. shells'[h] = [[o EXCEPT !.step = "copying"] EXCEPT !.calm = TRUE]
      BY <3>3, <3>4
    <3>6. [[o EXCEPT !.step = "copying"] EXCEPT !.calm = TRUE].step = "copying"
      BY DEF Shell
    <3> QED BY <3>5, <3>6
  <2> QED BY <2>1, <2>2, <2>3, <2>4, <2>5
<1>5. \/ UNCHANGED applyVars \/ EditConfig \/ CallStep(h) \/ \E g \in Shells \ {h} : CallStep(g)
  BY DEF ApplyNext, CallStep
<1> QED BY <1>1, <1>2, <1>3, <1>4, <1>5

\* A file that an apply wrote can be undone wherever calls die, and one that a rollback
\* tore can be mended; a rollback that ends puts back byte for byte what the apply had
\* hashed, and a call that nobody disturbs loses nothing of the user's: for any number of
\* shells, plans, receipts and edits.
THEOREM AppliesCanBeUndone == ApplySpec => AppliesAreUndoable
<1>1. ApplyIInv => ApplyTypeOK /\ WriteAhead /\ TornIsMended
  BY DEF ApplyIInv
<1>2. ASSUME ApplyIInv, [ApplyNext]_applyVars
      PROVE  \A h \in Shells :
        LET call == shells[h]
            receipt == receipts[call.number]
        IN  (/\ call.step = "restore" \/ (call.step = "copying" /\ call.calm)
             /\ config' # config /\ shells'[h].step = "idle") =>
                config' = IF receipt.created THEN NoFile ELSE receipt.pre
  <2> SUFFICES ASSUME NEW h \in Shells,
                      shells[h].step = "restore" \/ (shells[h].step = "copying" /\ shells[h].calm),
                      config' # config, shells'[h].step = "idle"
               PROVE  config' = IF receipts[shells[h].number].created THEN NoFile
                                ELSE receipts[shells[h].number].pre
    OBVIOUS
  <2>1. CASE shells[h].step = "restore"
    BY <1>2, <2>1, Replacements DEF RemoveConfig
  <2>2. CASE shells[h].step = "copying" /\ shells[h].calm
    <3>1. config' = backups[shells[h].number]
      BY <1>2, <2>2, Replacements DEF EndCopy
    <3>2. ~receipts[shells[h].number].created
      BY <1>2, <2>2 DEF ApplyIInv, CallsHold, CallHolds, UndoHolds, Undoing
    <3> QED BY <1>2, <2>2, <3>1, <3>2, CopyFacts
  <2> QED BY <2>1, <2>2
<1>3. ASSUME ApplyIInv, [ApplyNext]_applyVars
      PROVE  \A h \in Shells :
        LET call == shells[h]
        IN  /\ (call.step = "pending" /\ shells'[h].step = "written" /\ call.calm) =>
                config'.other = config.other
                /\ \A s \in Servers \ {ServerOf[call.plan]} : config'.entries[s] = config.entries[s]
            /\ (call.step = "restore" /\ shells'[h].step \in {"idle", "copying"} /\ call.calm
                /\ ~call.force /\ config' # config) =>
                config = receipts[call.number].post
  <2> TAKE h \in Shells
  <2>1. ASSUME shells[h].step = "pending", shells'[h].step = "written", shells[h].calm
        PROVE  /\ config'.other = config.other
               /\ \A s \in Servers \ {ServerOf[shells[h].plan]} : config'.entries[s] = config.entries[s]
    <3>1. ReplaceConfig(h)
      BY <1>3, <2>1, Replacements
    <3>2. /\ shells[h] \in Shell /\ shells[h].plan \in Plans
          /\ config' = Rendered(shells[h]) /\ config = shells[h].base
      BY <1>3, <2>1, <3>1, ReplaceFacts
    <3> QED BY <3>2, RenderedFacts
  <2>2. ASSUME shells[h].step = "restore", shells[h].calm, ~shells[h].force
        PROVE  config = receipts[shells[h].number].post
    BY <1>3, <2>2 DEF ApplyIInv, CallsHold, CallHolds, UndoHolds, Undoing
  <2> QED BY <2>1, <2>2
<1> QED BY <1>1, <1>2, <1>3, ApplyInvariance, PTL DEF ApplySpec, AppliesAreUndoable, UndoIsExact, EditsSurvive

-----------------------------------------------------------------------------
(* Skill install *)

\* What a running call relies on: its number is that of its receipt, and an install has
\* none yet.
HandsHold ==
    \A a \in Agents : hands[a].doing # "idle" =>
        /\ hands[a].number \in Installs /\ hands[a].package \in Packages
        /\ hands[a].doing = "install" => installed[hands[a].number] = Nothing

\* The number of an install is no other running call's.
OwnNumbers ==
    \A a, b \in Agents :
        (hands[a].doing = "install" /\ hands[b].doing # "idle" /\ hands[a].number = hands[b].number)
            => a = b

\* The install a wrote the file of the path p.
Wrote(a, p) ==
    /\ hands[a].doing = "install" /\ p \notin hands[a].left
    /\ ContentOf[hands[a].package][p] = skill[p]

\* The receipt n names the file of the path p, and no uninstall has passed p on its way
\* to remove that receipt.
Stands(n, p) ==
    /\ installed[n] # Nothing /\ ContentOf[installed[n]][p] = skill[p]
    /\ \A a \in Agents :
          (hands[a].doing = "uninstall" /\ hands[a].number = n) => p \in hands[a].left

\* Every file of a package has an install that wrote it, or a receipt that will stay
\* until the file is gone.
FilesStand ==
    \A p \in Paths \ strays :
        skill[p] \in Contents => (\E n \in Installs : Stands(n, p)) \/ (\E a \in Agents : Wrote(a, p))

\* What a call without --force that nobody disturbed is yet to write or to remove is not
\* there or is what it would write.
CalmFits ==
    \A a \in Agents :
        (hands[a].doing # "idle" /\ hands[a].calm /\ ~hands[a].force) =>
            \A p \in hands[a].left : skill[p] \in {Nothing, ContentOf[hands[a].package][p]}

\* The inductive invariant of SkillInstall: every file stands on a receipt, on an open
\* install or on one that died, and an undisturbed hand still finds the files it checked.
SkillIInv == SkillTypeOK /\ HandsHold /\ OwnNumbers /\ FilesStand /\ CalmFits

\* The idle values are of their types, and Nothing is no content and no package.
LEMMA HandFacts ==
  /\ NoHand \in Hand /\ NoHand.doing = "idle"
  /\ \A package \in Packages, p \in Paths : ContentOf[package][p] \in Contents \cup {Nothing}
  /\ Nothing \notin Contents /\ Own \notin Contents /\ Nothing \notin Packages
<1>1. NoHand \in Hand
  BY SkillConstants DEF NoHand, Hand
<1> QED BY <1>1, SkillConstants DEF NoHand

\* A directory and no install.
LEMMA SkillInitially == SkillInit => SkillIInv
<1> SUFFICES ASSUME SkillInit
             PROVE  SkillIInv
  OBVIOUS
<1>1. SkillTypeOK
  BY HandFacts, SkillConstants DEF SkillInit, SkillTypeOK
<1>2. HandsHold /\ OwnNumbers /\ CalmFits
  BY HandFacts DEF SkillInit, HandsHold, OwnNumbers, CalmFits
<1>3. FilesStand
  BY SkillConstants DEF SkillInit, FilesStand
<1> QED BY <1>1, <1>2, <1>3 DEF SkillIInv

\* Two calls that differ only in calm.
SameHand(c, d) ==
    /\ d.doing = c.doing /\ d.package = c.package /\ d.number = c.number
    /\ d.left = c.left /\ d.force = c.force

\* Alarming an open hand changes nothing of it but its calm.
LEMMA AlarmedFacts ==
  ASSUME SkillTypeOK, NEW but
  PROVE  /\ Alarmed(but) \in [Agents -> Hand]
         /\ \A a \in Agents : SameHand(hands[a], Alarmed(but)[a])
         /\ \A a \in Agents : a \in but => Alarmed(but)[a] = hands[a]
         /\ \A a \in Agents : (hands[a].doing # "idle" /\ a \notin but) => Alarmed(but)[a].calm = FALSE
<1>1. ASSUME NEW a \in Agents
      PROVE  /\ [hands[a] EXCEPT !.calm = FALSE] \in Hand
             /\ SameHand(hands[a], [hands[a] EXCEPT !.calm = FALSE])
             /\ [hands[a] EXCEPT !.calm = FALSE].calm = FALSE
  <2>1. hands[a] \in Hand
    BY DEF SkillTypeOK
  <2> QED BY <2>1 DEF Hand, SameHand
<1>2. \A a \in Agents : hands[a] \in Hand /\ SameHand(hands[a], hands[a])
  BY DEF SkillTypeOK, SameHand
<1> QED BY <1>1, <1>2 DEF Alarmed

\* Somebody changes a file and alarms every open hand.
LEMMA TouchFileStep ==
  ASSUME SkillIInv, NEW p \in Paths, TouchFile(p)
  PROVE  SkillIInv'
<1> USE DEF SkillIInv
<1>1. /\ touches' = touches + 1 /\ touches < MaxTouches /\ hands' = Alarmed({})
      /\ strays' = strays \ {p} /\ installed' = installed
  BY DEF TouchFile
<1>2. PICK content \in {Own, Nothing} : skill' = [skill EXCEPT ![p] = content]
  BY DEF TouchFile
<1>3. /\ skill' \in [Paths -> Contents \cup {Own, Nothing}] /\ skill'[p] \notin Contents
      /\ \A q \in Paths \ {p} : skill'[q] = skill[q]
  BY <1>2, HandFacts DEF SkillTypeOK
<1>4. /\ hands' \in [Agents -> Hand]
      /\ \A a \in Agents : SameHand(hands[a], hands'[a])
      /\ \A a \in Agents : hands[a].doing # "idle" => hands'[a].calm = FALSE
  BY <1>1, AlarmedFacts
<1>5. SkillTypeOK'
  BY <1>1, <1>3, <1>4, SkillConstants DEF SkillTypeOK
<1>6. HandsHold' /\ OwnNumbers' /\ CalmFits'
  BY <1>1, <1>4 DEF HandsHold, OwnNumbers, CalmFits, SameHand
<1>7. FilesStand'
  <2> SUFFICES ASSUME NEW q \in Paths \ strays', skill'[q] \in Contents
               PROVE  (\E n \in Installs : Stands(n, q)') \/ (\E a \in Agents : Wrote(a, q)')
    BY DEF FilesStand
  <2>1. q # p /\ q \in Paths \ strays /\ skill'[q] = skill[q]
    BY <1>1, <1>3
  <2>2. \A n \in Installs : Stands(n, q) => Stands(n, q)'
    BY <1>1, <1>4, <2>1 DEF Stands, SameHand
  <2>3. \A a \in Agents : Wrote(a, q) => Wrote(a, q)'
    BY <1>1, <1>4, <2>1 DEF Wrote, SameHand
  <2> QED BY <2>1, <2>2, <2>3 DEF FilesStand
<1> QED BY <1>5, <1>6, <1>7

\* An install or uninstall dies between two files.
LEMMA HandDiesStep ==
  ASSUME SkillIInv, NEW a \in Agents, HandDies(a)
  PROVE  SkillIInv'
<1> USE DEF SkillIInv
<1>1. /\ hands' = [hands EXCEPT ![a] = NoHand]
      /\ strays' = IF hands[a].doing = "install"
                   THEN strays \cup (FilesOf(hands[a].package) \ hands[a].left) ELSE strays
      /\ UNCHANGED <<skill, installed, touches>>
  BY DEF HandDies
<1>2. /\ hands' \in [Agents -> Hand] /\ hands'[a] = NoHand
      /\ \A b \in Agents \ {a} : hands'[b] = hands[b]
  BY <1>1, HandFacts DEF SkillTypeOK
<1>3. SkillTypeOK'
  BY <1>1, <1>2 DEF SkillTypeOK, FilesOf
<1>4. HandsHold' /\ OwnNumbers' /\ CalmFits'
  BY <1>1, <1>2, HandFacts DEF HandsHold, OwnNumbers, CalmFits
<1>5. FilesStand'
  <2> SUFFICES ASSUME NEW q \in Paths \ strays', skill[q] \in Contents
               PROVE  (\E n \in Installs : Stands(n, q)') \/ (\E b \in Agents : Wrote(b, q)')
    BY <1>1 DEF FilesStand
  <2>1. q \in Paths \ strays
    BY <1>1
  <2>2. \A n \in Installs : Stands(n, q) => Stands(n, q)'
    BY <1>1, <1>2, HandFacts DEF Stands
  <2>3. ~Wrote(a, q)
    BY <1>1, HandFacts DEF Wrote, FilesOf
  <2>4. \A b \in Agents : Wrote(b, q) => Wrote(b, q)'
    BY <1>1, <1>2, <2>3 DEF Wrote
  <2> QED BY <2>1, <2>2, <2>4 DEF FilesStand
<1> QED BY <1>3, <1>4, <1>5

\* An install begins under a number nobody used, once its collisions are checked.
LEMMA StartInstallStep ==
  ASSUME SkillIInv, NEW a \in Agents, NEW package \in Packages, NEW n \in Installs,
         NEW force \in BOOLEAN, StartInstall(a, package, n, force)
  PROVE  SkillIInv'
<1> USE DEF SkillIInv
<1> DEFINE hand == [doing |-> "install", package |-> package, number |-> n,
                    left |-> FilesOf(package), force |-> force, calm |-> TRUE]
<1>1. /\ hands' = [hands EXCEPT ![a] = hand] /\ hands[a].doing = "idle"
      /\ Spare(n) /\ (Fits(package) \/ force)
      /\ UNCHANGED <<skill, installed, touches, strays>>
  BY DEF StartInstall
<1>2. /\ hand \in Hand /\ hand.doing = "install" /\ hand.package = package /\ hand.number = n
      /\ hand.left = FilesOf(package) /\ hand.force = force
  BY DEF Hand, Installs, FilesOf
<1> HIDE DEF hand
<1>3. /\ hands' \in [Agents -> Hand] /\ hands'[a] = hand
      /\ \A b \in Agents \ {a} : hands'[b] = hands[b]
  BY <1>1, <1>2 DEF SkillTypeOK
<1>4. installed[n] = Nothing /\ \A b \in Agents : hands[b].number # n
  BY <1>1 DEF Spare
<1>5. SkillTypeOK'
  BY <1>1, <1>3 DEF SkillTypeOK
<1>6. HandsHold' /\ OwnNumbers'
  BY <1>1, <1>2, <1>3, <1>4 DEF HandsHold, OwnNumbers
<1>7. CalmFits'
  <2>1. ~force => \A p \in FilesOf(package) : skill[p] \in {Nothing, ContentOf[package][p]}
    BY <1>1 DEF Fits
  <2> QED BY <1>1, <1>2, <1>3, <2>1 DEF CalmFits
<1>8. FilesStand'
  <2>1. \A q \in Paths, m \in Installs : Stands(m, q) => Stands(m, q)'
    BY <1>1, <1>2, <1>3 DEF Stands
  <2>2. \A q \in Paths, b \in Agents : Wrote(b, q) => Wrote(b, q)'
    BY <1>1, <1>3 DEF Wrote
  <2> QED BY <1>1, <2>1, <2>2 DEF FilesStand
<1> QED BY <1>5, <1>6, <1>7, <1>8

\* An uninstall begins from its receipt, when no file of the package was changed or with
\* --force.
LEMMA StartUninstallStep ==
  ASSUME SkillIInv, NEW a \in Agents, NEW n \in Installs, NEW force \in BOOLEAN,
         StartUninstall(a, n, force)
  PROVE  SkillIInv'
<1> USE DEF SkillIInv
<1> DEFINE hand == [doing |-> "uninstall", package |-> installed[n], number |-> n,
                    left |-> FilesOf(installed[n]), force |-> force, calm |-> TRUE]
<1>1. /\ hands' = [hands EXCEPT ![a] = hand] /\ hands[a].doing = "idle"
      /\ installed[n] # Nothing /\ (Unmodified(installed[n]) \/ force)
      /\ UNCHANGED <<skill, installed, touches, strays>>
  BY DEF StartUninstall
<1>2. installed[n] \in Packages
  BY <1>1 DEF SkillTypeOK
<1>3. /\ hand \in Hand /\ hand.doing = "uninstall" /\ hand.package = installed[n] /\ hand.number = n
      /\ hand.left = FilesOf(installed[n]) /\ hand.force = force
  BY <1>2 DEF Hand, Installs, FilesOf
<1> HIDE DEF hand
<1>4. /\ hands' \in [Agents -> Hand] /\ hands'[a] = hand
      /\ \A b \in Agents \ {a} : hands'[b] = hands[b]
  BY <1>1, <1>3 DEF SkillTypeOK
<1>5. SkillTypeOK'
  BY <1>1, <1>4 DEF SkillTypeOK
<1>6. HandsHold' /\ OwnNumbers'
  BY <1>1, <1>2, <1>3, <1>4 DEF HandsHold, OwnNumbers
<1>7. CalmFits'
  <2>1. ~force => \A p \in FilesOf(installed[n]) : skill[p] \in {Nothing, ContentOf[installed[n]][p]}
    BY <1>1 DEF Unmodified, Fits
  <2> QED BY <1>1, <1>3, <1>4, <2>1 DEF CalmFits
<1>8. FilesStand'
  <2> SUFFICES ASSUME NEW q \in Paths \ strays, skill[q] \in Contents
               PROVE  (\E m \in Installs : Stands(m, q)') \/ (\E b \in Agents : Wrote(b, q)')
    BY <1>1 DEF FilesStand
  <2>1. \A m \in Installs : Stands(m, q) => Stands(m, q)'
    <3> SUFFICES ASSUME NEW m \in Installs, Stands(m, q)
                 PROVE  Stands(m, q)'
      OBVIOUS
    <3>1. m = n => q \in FilesOf(installed[n])
      BY HandFacts DEF Stands, FilesOf
    <3> QED BY <1>1, <1>3, <1>4, <3>1 DEF Stands
  <2>2. \A b \in Agents : Wrote(b, q) => Wrote(b, q)'
    BY <1>1, <1>4 DEF Wrote
  <2> QED BY <2>1, <2>2 DEF FilesStand
<1> QED BY <1>5, <1>6, <1>7, <1>8

\* The path a call takes next, from either end of what is left, is one of what is left.
LEMMA NextPath ==
  ASSUME NEW left \in SUBSET Paths, left # {}
  PROVE  /\ (CHOOSE q \in left : \A r \in left : q <= r) \in left
         /\ (CHOOSE q \in left : \A r \in left : r <= q) \in left
<1>1. left \in SUBSET Nat /\ IsFiniteSet(left)
  BY SkillConstants, FS_Subset
<1>2. \E q \in left : \A r \in left : q <= r
  BY <1>1, SmallestOf
<1>3. \E q \in left : \A r \in left : r <= q
  BY <1>1, GreatestOf
<1> QED BY <1>2, <1>3

\* An install takes the least path that is left, writes it and disturbs the others.
LEMMA WriteFileFacts ==
  ASSUME SkillIInv, NEW a \in Agents, WriteFile(a)
  PROVE  \E p \in hands[a].left :
           /\ hands[a].doing = "install" /\ p \in Paths
           /\ skill' = [skill EXCEPT ![p] = ContentOf[hands[a].package][p]]
           /\ skill'[p] = ContentOf[hands[a].package][p]
           /\ strays' = strays \ {p} /\ UNCHANGED <<installed, touches>>
           /\ hands' \in [Agents -> Hand]
           /\ hands'[a] = [hands[a] EXCEPT !.left = hands[a].left \ {p}]
           /\ \A b \in Agents \ {a} : /\ SameHand(hands[b], hands'[b])
                                       /\ (hands[b].doing # "idle" => hands'[b].calm = FALSE)
<1> USE DEF SkillIInv
<1> DEFINE hand == hands[a]
           p == CHOOSE q \in hand.left : \A r \in hand.left : q <= r
           others == Alarmed({a})
<1>1. /\ hand.doing = "install" /\ hand.left # {}
      /\ skill' = [skill EXCEPT ![p] = ContentOf[hand.package][p]]
      /\ hands' = [others EXCEPT ![a].left = @ \ {p}]
      /\ strays' = strays \ {p} /\ UNCHANGED <<installed, touches>>
  BY DEF WriteFile
<1>2. hand \in Hand /\ hand.left \in SUBSET Paths
  BY DEF SkillTypeOK, Hand
<1>3. p \in hand.left
  BY <1>1, <1>2, NextPath
<1>4. /\ others \in [Agents -> Hand] /\ others[a] = hand
      /\ \A b \in Agents : SameHand(hands[b], others[b])
      /\ \A b \in Agents : (hands[b].doing # "idle" /\ b # a) => others[b].calm = FALSE
  BY AlarmedFacts
<1> HIDE DEF p, others, hand
<1>5. hands' = [others EXCEPT ![a] = [hand EXCEPT !.left = hand.left \ {p}]]
  BY <1>1, <1>4
<1>6. [hand EXCEPT !.left = hand.left \ {p}] \in Hand
  BY <1>2 DEF Hand
<1>7. /\ hands' \in [Agents -> Hand]
      /\ hands'[a] = [hand EXCEPT !.left = hand.left \ {p}]
      /\ \A b \in Agents \ {a} : hands'[b] = others[b]
  BY <1>4, <1>5, <1>6
<1>8. p \in Paths /\ skill'[p] = ContentOf[hand.package][p]
  BY <1>1, <1>2, <1>3 DEF SkillTypeOK
<1>9. \A b \in Agents \ {a} : /\ SameHand(hands[b], hands'[b])
                              /\ (hands[b].doing # "idle" => hands'[b].calm = FALSE)
  BY <1>4, <1>7
<1>10. p \in hands[a].left
  BY <1>3 DEF hand
<1> USE <1>10
<1> WITNESS p \in hands[a].left
<1> QED BY <1>1, <1>7, <1>8, <1>9 DEF hand

\* An uninstall takes the greatest, and disturbs the others when there was a file.
LEMMA RemoveFileFacts ==
  ASSUME SkillIInv, NEW a \in Agents, RemoveFile(a)
  PROVE  \E p \in hands[a].left :
           /\ hands[a].doing = "uninstall" /\ p \in Paths
           /\ skill' = [skill EXCEPT ![p] = Nothing] /\ skill'[p] = Nothing
           /\ strays' = strays \ {p} /\ UNCHANGED <<installed, touches>>
           /\ hands' \in [Agents -> Hand]
           /\ hands'[a] = [hands[a] EXCEPT !.left = hands[a].left \ {p}]
           /\ \A b \in Agents \ {a} :
                 /\ SameHand(hands[b], hands'[b])
                 /\ (skill[p] # Nothing /\ hands[b].doing # "idle") => hands'[b].calm = FALSE
                 /\ skill[p] = Nothing => hands'[b] = hands[b]
<1> USE DEF SkillIInv
<1> DEFINE hand == hands[a]
           p == CHOOSE q \in hand.left : \A r \in hand.left : r <= q
           but == IF skill[p] = Nothing THEN Agents ELSE {a}
           others == Alarmed(but)
<1>1. /\ hand.doing = "uninstall" /\ hand.left # {}
      /\ skill' = [skill EXCEPT ![p] = Nothing]
      /\ hands' = [others EXCEPT ![a].left = @ \ {p}]
      /\ strays' = strays \ {p} /\ UNCHANGED <<installed, touches>>
  BY DEF RemoveFile
<1>2. hand \in Hand /\ hand.left \in SUBSET Paths
  BY DEF SkillTypeOK, Hand
<1>3. p \in hand.left
  BY <1>1, <1>2, NextPath
<1> HIDE DEF p
<1>4. a \in but /\ (skill[p] = Nothing => \A b \in Agents : b \in but)
      /\ (skill[p] # Nothing => \A b \in Agents \ {a} : b \notin but)
  OBVIOUS
<1> HIDE DEF but
<1>5. /\ others \in [Agents -> Hand] /\ others[a] = hand
      /\ \A b \in Agents : SameHand(hands[b], others[b])
      /\ \A b \in Agents : b \in but => others[b] = hands[b]
      /\ \A b \in Agents : (hands[b].doing # "idle" /\ b \notin but) => others[b].calm = FALSE
  BY <1>4, AlarmedFacts
<1> HIDE DEF others, hand
<1>6. hands' = [others EXCEPT ![a] = [hand EXCEPT !.left = hand.left \ {p}]]
  BY <1>1, <1>5
<1>7. [hand EXCEPT !.left = hand.left \ {p}] \in Hand
  BY <1>2 DEF Hand
<1>8. /\ hands' \in [Agents -> Hand]
      /\ hands'[a] = [hand EXCEPT !.left = hand.left \ {p}]
      /\ \A b \in Agents \ {a} : hands'[b] = others[b]
  BY <1>5, <1>6, <1>7
<1>9. p \in Paths /\ skill'[p] = Nothing
  BY <1>1, <1>2, <1>3 DEF SkillTypeOK
<1>10. \A b \in Agents \ {a} :
         /\ SameHand(hands[b], hands'[b])
         /\ (skill[p] # Nothing /\ hands[b].doing # "idle") => hands'[b].calm = FALSE
         /\ skill[p] = Nothing => hands'[b] = hands[b]
  BY <1>4, <1>5, <1>8
<1>11. p \in hands[a].left
  BY <1>3 DEF hand
<1> USE <1>11
<1> WITNESS p \in hands[a].left
<1> QED BY <1>1, <1>8, <1>9, <1>10 DEF hand

\* A hand that has done one file has one file less to do and is otherwise as it was.
LEMMA LeftFacts ==
  ASSUME NEW c \in Hand, NEW p
  PROVE  /\ [c EXCEPT !.left = c.left \ {p}].doing = c.doing
         /\ [c EXCEPT !.left = c.left \ {p}].package = c.package
         /\ [c EXCEPT !.left = c.left \ {p}].number = c.number
         /\ [c EXCEPT !.left = c.left \ {p}].force = c.force
         /\ [c EXCEPT !.left = c.left \ {p}].calm = c.calm
         /\ [c EXCEPT !.left = c.left \ {p}].left = c.left \ {p}
BY DEF Hand

\* An install writes the next file of the package and alarms the other hands.
LEMMA WriteFileStep ==
  ASSUME SkillIInv, NEW a \in Agents, WriteFile(a)
  PROVE  SkillIInv'
<1> USE DEF SkillIInv
<1>1. PICK p \in hands[a].left :
        /\ hands[a].doing = "install" /\ p \in Paths
        /\ skill' = [skill EXCEPT ![p] = ContentOf[hands[a].package][p]]
        /\ skill'[p] = ContentOf[hands[a].package][p]
        /\ strays' = strays \ {p} /\ UNCHANGED <<installed, touches>>
        /\ hands' \in [Agents -> Hand]
        /\ hands'[a] = [hands[a] EXCEPT !.left = hands[a].left \ {p}]
        /\ \A b \in Agents \ {a} : /\ SameHand(hands[b], hands'[b])
                                    /\ (hands[b].doing # "idle" => hands'[b].calm = FALSE)
  BY WriteFileFacts
<1>2. /\ hands'[a].doing = "install" /\ hands'[a].package = hands[a].package
      /\ hands'[a].number = hands[a].number /\ hands'[a].force = hands[a].force
      /\ hands'[a].calm = hands[a].calm /\ hands'[a].left = hands[a].left \ {p}
  BY <1>1, LeftFacts DEF SkillTypeOK
<1>3. hands[a].package \in Packages
  BY <1>1 DEF HandsHold
<1>4. /\ skill' \in [Paths -> Contents \cup {Own, Nothing}]
      /\ \A q \in Paths \ {p} : skill'[q] = skill[q]
  BY <1>1, <1>3, HandFacts DEF SkillTypeOK
<1>5. SkillTypeOK'
  BY <1>1, <1>4 DEF SkillTypeOK
<1>6. HandsHold' /\ OwnNumbers'
  <2>1. \A b \in Agents : /\ hands'[b].doing = hands[b].doing /\ hands'[b].number = hands[b].number
                          /\ hands'[b].package = hands[b].package
    BY <1>1, <1>2 DEF SameHand
  <2> QED BY <1>1, <2>1 DEF HandsHold, OwnNumbers
<1>7. CalmFits'
  <2> SUFFICES ASSUME NEW b \in Agents, hands'[b].doing # "idle", hands'[b].calm, ~hands'[b].force,
                      NEW q \in hands'[b].left
               PROVE  skill'[q] \in {Nothing, ContentOf[hands'[b].package][q]}
    BY DEF CalmFits
  <2>1. b = a
    BY <1>1 DEF SameHand
  <2>2. q \in hands[a].left /\ q # p /\ q \in Paths
    BY <1>2, <1>5, <2>1 DEF SkillTypeOK, Hand
  <2> QED BY <1>1, <1>2, <1>4, <2>1, <2>2 DEF CalmFits
<1>8. FilesStand'
  <2> SUFFICES ASSUME NEW q \in Paths \ strays', skill'[q] \in Contents
               PROVE  (\E n \in Installs : Stands(n, q)') \/ (\E b \in Agents : Wrote(b, q)')
    BY DEF FilesStand
  <2>1. CASE q = p
    BY <1>1, <1>2, <2>1 DEF Wrote
  <2>2. CASE q # p
    <3>1. q \in Paths \ strays /\ skill'[q] = skill[q]
      BY <1>1, <1>4, <2>2
    <3>2. \A n \in Installs : Stands(n, q) => Stands(n, q)'
      BY <1>1, <1>2, <3>1 DEF Stands, SameHand
    <3>3. \A b \in Agents : Wrote(b, q) => Wrote(b, q)'
      BY <1>1, <1>2, <3>1 DEF Wrote, SameHand
    <3> QED BY <3>1, <3>2, <3>3 DEF FilesStand
  <2> QED BY <2>1, <2>2
<1> QED BY <1>5, <1>6, <1>7, <1>8

\* An uninstall removes its next file and alarms the other hands.
LEMMA RemoveFileStep ==
  ASSUME SkillIInv, NEW a \in Agents, RemoveFile(a)
  PROVE  SkillIInv'
<1> USE DEF SkillIInv
<1>1. PICK p \in hands[a].left :
        /\ hands[a].doing = "uninstall" /\ p \in Paths
        /\ skill' = [skill EXCEPT ![p] = Nothing] /\ skill'[p] = Nothing
        /\ strays' = strays \ {p} /\ UNCHANGED <<installed, touches>>
        /\ hands' \in [Agents -> Hand]
        /\ hands'[a] = [hands[a] EXCEPT !.left = hands[a].left \ {p}]
        /\ \A b \in Agents \ {a} :
              /\ SameHand(hands[b], hands'[b])
              /\ (skill[p] # Nothing /\ hands[b].doing # "idle") => hands'[b].calm = FALSE
              /\ skill[p] = Nothing => hands'[b] = hands[b]
  BY RemoveFileFacts
<1>2. /\ hands'[a].doing = "uninstall" /\ hands'[a].package = hands[a].package
      /\ hands'[a].number = hands[a].number /\ hands'[a].force = hands[a].force
      /\ hands'[a].calm = hands[a].calm /\ hands'[a].left = hands[a].left \ {p}
  BY <1>1, LeftFacts DEF SkillTypeOK
<1>3. /\ skill' \in [Paths -> Contents \cup {Own, Nothing}] /\ skill'[p] \notin Contents
      /\ \A q \in Paths \ {p} : skill'[q] = skill[q]
      /\ (skill[p] = Nothing => skill' = skill)
  BY <1>1, HandFacts DEF SkillTypeOK
<1>4. SkillTypeOK'
  BY <1>1, <1>3 DEF SkillTypeOK
<1>5. HandsHold' /\ OwnNumbers'
  <2>1. \A b \in Agents : /\ hands'[b].doing = hands[b].doing /\ hands'[b].number = hands[b].number
                          /\ hands'[b].package = hands[b].package
    BY <1>1, <1>2 DEF SameHand
  <2> QED BY <1>1, <2>1 DEF HandsHold, OwnNumbers
<1>6. CalmFits'
  <2> SUFFICES ASSUME NEW b \in Agents, hands'[b].doing # "idle", hands'[b].calm, ~hands'[b].force,
                      NEW q \in hands'[b].left
               PROVE  skill'[q] \in {Nothing, ContentOf[hands'[b].package][q]}
    BY DEF CalmFits
  <2>1. CASE b = a
    <3>1. q \in hands[a].left /\ q # p /\ q \in Paths
      BY <1>2, <1>4, <2>1 DEF SkillTypeOK, Hand
    <3> QED BY <1>1, <1>2, <1>3, <2>1, <3>1 DEF CalmFits
  <2>2. CASE b # a
    <3>1. skill[p] = Nothing /\ hands'[b] = hands[b]
      BY <1>1, <2>2 DEF SameHand
    <3> QED BY <1>3, <3>1 DEF CalmFits
  <2> QED BY <2>1, <2>2
<1>7. FilesStand'
  <2> SUFFICES ASSUME NEW q \in Paths \ strays', skill'[q] \in Contents
               PROVE  (\E n \in Installs : Stands(n, q)') \/ (\E b \in Agents : Wrote(b, q)')
    BY DEF FilesStand
  <2>1. q # p /\ q \in Paths \ strays /\ skill'[q] = skill[q]
    BY <1>1, <1>3
  <2>2. \A n \in Installs : Stands(n, q) => Stands(n, q)'
    <3>1. \A b \in Agents : /\ hands'[b].doing = hands[b].doing /\ hands'[b].number = hands[b].number
                            /\ q \in hands[b].left => q \in hands'[b].left
      BY <1>1, <1>2, <2>1 DEF SameHand
    <3> QED BY <1>1, <2>1, <3>1 DEF Stands
  <2>3. \A b \in Agents : Wrote(b, q) => Wrote(b, q)'
    BY <1>1, <1>2, <2>1 DEF Wrote, SameHand
  <2> QED BY <2>1, <2>2, <2>3 DEF FilesStand
<1> QED BY <1>4, <1>5, <1>6, <1>7

\* The receipt goes down when every file is written: from then on the files stand on it.
LEMMA WriteSkillReceiptStep ==
  ASSUME SkillIInv, NEW a \in Agents, WriteSkillReceipt(a)
  PROVE  SkillIInv'
<1> USE DEF SkillIInv
<1>0. PICK n : n = hands[a].number
  OBVIOUS
<1>1. /\ hands[a].doing = "install" /\ hands[a].left = {}
      /\ installed' = [installed EXCEPT ![n] = hands[a].package]
      /\ hands' = [hands EXCEPT ![a] = NoHand]
      /\ UNCHANGED <<skill, touches, strays>>
  BY <1>0 DEF WriteSkillReceipt
<1>2. n \in Installs /\ hands[a].package \in Packages /\ installed[n] = Nothing
  BY <1>0, <1>1 DEF HandsHold
<1>3. \A b \in Agents \ {a} : hands[b].doing # "idle" => hands[b].number # n
  BY <1>0, <1>1 DEF OwnNumbers
<1>4. /\ hands' \in [Agents -> Hand] /\ hands'[a] = NoHand
      /\ \A b \in Agents \ {a} : hands'[b] = hands[b]
  BY <1>1, HandFacts DEF SkillTypeOK
<1>5. /\ installed' \in [Installs -> Packages \cup {Nothing}] /\ installed'[n] = hands[a].package
      /\ \A m \in Installs \ {n} : installed'[m] = installed[m]
  BY <1>1, <1>2 DEF SkillTypeOK
<1>6. SkillTypeOK'
  BY <1>1, <1>4, <1>5 DEF SkillTypeOK
<1>7. HandsHold' /\ OwnNumbers' /\ CalmFits'
  BY <1>1, <1>3, <1>4, <1>5, HandFacts DEF HandsHold, OwnNumbers, CalmFits
<1>8. FilesStand'
  <2> SUFFICES ASSUME NEW q \in Paths \ strays, skill[q] \in Contents
               PROVE  (\E m \in Installs : Stands(m, q)') \/ (\E b \in Agents : Wrote(b, q)')
    BY <1>1 DEF FilesStand
  <2>1. \A m \in Installs : Stands(m, q) => Stands(m, q)'
    BY <1>1, <1>2, <1>4, <1>5, HandFacts DEF Stands
  <2>2. \A b \in Agents \ {a} : Wrote(b, q) => Wrote(b, q)'
    BY <1>1, <1>4 DEF Wrote
  <2>3. Wrote(a, q) => Stands(n, q)'
    <3>1. hands[a].package # Nothing
      BY <1>2, HandFacts
    <3>2. ASSUME NEW b \in Agents
          PROVE  ~(hands'[b].doing = "uninstall" /\ hands'[b].number = n)
      BY <1>3, <1>4, HandFacts
    <3>3. skill' = skill /\ installed'[n] = hands[a].package
      BY <1>1, <1>5
    <3>4. Wrote(a, q) => ContentOf[hands[a].package][q] = skill[q]
      BY DEF Wrote
    <3> QED BY <3>1, <3>2, <3>3, <3>4 DEF Stands
  <2>4. CASE Wrote(a, q)
    BY <1>2, <2>3, <2>4
  <2>5. CASE ~Wrote(a, q)
    <3>1. (\E m \in Installs : Stands(m, q)) \/ (\E b \in Agents \ {a} : Wrote(b, q))
      BY <2>5 DEF FilesStand
    <3> QED BY <2>1, <2>2, <3>1
  <2> QED BY <2>4, <2>5
<1> QED BY <1>6, <1>7, <1>8

\* The receipt goes when every file has gone.
LEMMA RemoveReceiptStep ==
  ASSUME SkillIInv, NEW a \in Agents, RemoveReceipt(a)
  PROVE  SkillIInv'
<1> USE DEF SkillIInv
<1> DEFINE n == hands[a].number
<1>1. /\ hands[a].doing = "uninstall" /\ hands[a].left = {}
      /\ installed' = [installed EXCEPT ![n] = Nothing]
      /\ hands' = [hands EXCEPT ![a] = NoHand]
      /\ UNCHANGED <<skill, touches, strays>>
  BY DEF RemoveReceipt, ReceiptMayGo
<1>2. n \in Installs
  BY <1>1 DEF HandsHold
<1> HIDE DEF n
<1>3. /\ hands' \in [Agents -> Hand] /\ hands'[a] = NoHand
      /\ \A b \in Agents \ {a} : hands'[b] = hands[b]
  BY <1>1, HandFacts DEF SkillTypeOK
<1>4. /\ installed' \in [Installs -> Packages \cup {Nothing}] /\ installed'[n] = Nothing
      /\ \A m \in Installs \ {n} : installed'[m] = installed[m]
  BY <1>1, <1>2 DEF SkillTypeOK
<1>5. SkillTypeOK'
  BY <1>1, <1>3, <1>4 DEF SkillTypeOK
<1>6. HandsHold' /\ OwnNumbers' /\ CalmFits'
  BY <1>1, <1>3, <1>4, HandFacts DEF HandsHold, OwnNumbers, CalmFits
<1>7. FilesStand'
  <2> SUFFICES ASSUME NEW q \in Paths \ strays, skill[q] \in Contents
               PROVE  (\E m \in Installs : Stands(m, q)') \/ (\E b \in Agents : Wrote(b, q)')
    BY <1>1 DEF FilesStand
  <2>1. ~Stands(n, q)
    BY <1>1 DEF Stands, n
  <2>2. \A m \in Installs : Stands(m, q) => Stands(m, q)'
    BY <1>1, <1>3, <1>4, <2>1, HandFacts DEF Stands
  <2>3. \A b \in Agents : Wrote(b, q) => Wrote(b, q)'
    BY <1>1, <1>3 DEF Wrote
  <2> QED BY <2>2, <2>3 DEF FilesStand
<1> QED BY <1>5, <1>6, <1>7

\* What one step of a call is, whatever it does.
HandStep(a) ==
    \/ HandDies(a) \/ WriteFile(a) \/ WriteSkillReceipt(a) \/ RemoveFile(a) \/ RemoveReceipt(a)
    \/ \E n \in Installs, force \in BOOLEAN :
        \/ StartUninstall(a, n, force)
        \/ \E package \in Packages : StartInstall(a, package, n, force)

\* Every step of the installs, the uninstalls and the operator keeps the inductive
\* invariant.
LEMMA SkillStep == SkillIInv /\ [SkillNext]_skillVars => SkillIInv'
<1> SUFFICES ASSUME SkillIInv, [SkillNext]_skillVars
             PROVE  SkillIInv'
  OBVIOUS
<1>1. CASE \E p \in Paths : TouchFile(p)
  BY <1>1, TouchFileStep
<1>2. ASSUME NEW a \in Agents, HandStep(a)
      PROVE  SkillIInv'
  <2>1. CASE HandDies(a) \/ WriteFile(a) \/ WriteSkillReceipt(a) \/ RemoveFile(a) \/ RemoveReceipt(a)
    BY <2>1, HandDiesStep, WriteFileStep, WriteSkillReceiptStep, RemoveFileStep, RemoveReceiptStep
  <2>2. ASSUME NEW n \in Installs, NEW force \in BOOLEAN,
               \/ StartUninstall(a, n, force)
               \/ \E package \in Packages : StartInstall(a, package, n, force)
        PROVE  SkillIInv'
    BY <2>2, StartUninstallStep, StartInstallStep
  <2> QED BY <1>2, <2>1, <2>2 DEF HandStep
<1>3. CASE UNCHANGED skillVars
  BY <1>3 DEF skillVars, SkillIInv, SkillTypeOK, HandsHold, OwnNumbers, FilesStand, Stands, Wrote, CalmFits
<1> QED BY <1>1, <1>2, <1>3 DEF SkillNext, HandStep

\* The inductive invariant holds in every state of the skill directory, for any agents,
\* packages and paths.
THEOREM SkillInvariance == SkillSpec => []SkillIInv
BY SkillInitially, SkillStep, PTL DEF SkillSpec

\* What a call is yet to do changes with its own writing and removing alone.
LEMMA LeftIsOwn ==
  ASSUME SkillIInv, [SkillNext]_skillVars, NEW a \in Agents,
         hands[a].left # hands'[a].left, hands[a].doing # "idle", hands'[a].doing # "idle"
  PROVE  WriteFile(a) \/ RemoveFile(a)
<1> USE DEF SkillIInv
<1>1. CASE \E p \in Paths : TouchFile(p)
  <2>1. hands' = Alarmed({})
    BY <1>1 DEF TouchFile
  <2> QED BY <2>1, AlarmedFacts DEF SameHand
<1>2. CASE UNCHANGED skillVars
  BY <1>2 DEF skillVars
<1>3. CASE HandStep(a)
  <2>1. HandDies(a) \/ WriteSkillReceipt(a) \/ RemoveReceipt(a) => hands'[a] = NoHand
    BY DEF HandDies, WriteSkillReceipt, RemoveReceipt, SkillTypeOK
  <2>2. (\E n \in Installs, force \in BOOLEAN :
           \/ StartUninstall(a, n, force)
           \/ \E package \in Packages : StartInstall(a, package, n, force)) => hands[a].doing = "idle"
    BY DEF StartUninstall, StartInstall
  <2> QED BY <1>3, <2>1, <2>2, HandFacts DEF HandStep
<1>4. ASSUME NEW b \in Agents \ {a}, HandStep(b)
      PROVE  hands'[a].left = hands[a].left
  <2>1. CASE WriteFile(b)
    BY <2>1, WriteFileFacts DEF SameHand
  <2>2. CASE RemoveFile(b)
    BY <2>2, RemoveFileFacts DEF SameHand
  <2>3. CASE \/ HandDies(b) \/ WriteSkillReceipt(b) \/ RemoveReceipt(b)
             \/ \E n \in Installs, force \in BOOLEAN :
                  \/ StartUninstall(b, n, force)
                  \/ \E package \in Packages : StartInstall(b, package, n, force)
    <3>1. hands'[a] = hands[a]
      BY <2>3 DEF HandDies, WriteSkillReceipt, RemoveReceipt, StartUninstall, StartInstall, SkillTypeOK
    <3> QED BY <3>1
  <2> QED BY <1>4, <2>1, <2>2, <2>3 DEF HandStep
<1>5. \/ \E p \in Paths : TouchFile(p)
      \/ UNCHANGED skillVars \/ HandStep(a) \/ \E b \in Agents \ {a} : HandStep(b)
  BY DEF SkillNext, HandStep
<1> QED BY <1>1, <1>2, <1>3, <1>4, <1>5

\* Every file of a package can be removed by a receipt but for those of an install that
\* died, and a call without --force that nobody disturbs neither overwrites nor removes a
\* file of the user's or of another package: for any agents, packages and paths.
THEOREM SkillsStayTidy == SkillSpec => SkillsAreTidy
<1>1. SkillIInv => SkillTypeOK /\ Receipted
  <2> SUFFICES ASSUME SkillIInv, NEW p \in Paths \ strays, skill[p] \in Contents
               PROVE  \/ \E n \in Installs : installed[n] # Nothing /\ ContentOf[installed[n]][p] = skill[p]
                      \/ \E a \in Agents : /\ hands[a].doing = "install" /\ p \notin hands[a].left
                                           /\ ContentOf[hands[a].package][p] = skill[p]
    BY DEF SkillIInv, Receipted
  <2> QED BY DEF SkillIInv, FilesStand, Stands, Wrote
<1>2. ASSUME SkillIInv, [SkillNext]_skillVars
      PROVE  \A a \in Agents :
        (hands[a].calm /\ ~hands[a].force /\ hands[a].left # hands'[a].left
         /\ hands[a].doing # "idle" /\ hands'[a].doing # "idle") =>
            \A p \in Paths : skill'[p] # skill[p] =>
                skill[p] \in {Nothing, ContentOf[hands[a].package][p]}
  <2> SUFFICES ASSUME NEW a \in Agents, hands[a].calm, ~hands[a].force,
                      hands[a].left # hands'[a].left, hands[a].doing # "idle", hands'[a].doing # "idle",
                      NEW p \in Paths, skill'[p] # skill[p]
               PROVE  skill[p] \in {Nothing, ContentOf[hands[a].package][p]}
    OBVIOUS
  <2>1. WriteFile(a) \/ RemoveFile(a)
    BY <1>2, LeftIsOwn
  <2>2. PICK q \in hands[a].left : \A r \in Paths \ {q} : skill'[r] = skill[r]
    <3>1. CASE WriteFile(a)
      <4>1. PICK q \in hands[a].left : skill' = [skill EXCEPT ![q] = ContentOf[hands[a].package][q]]
        BY <1>2, <3>1, WriteFileFacts
      <4>2. \A r \in Paths \ {q} : skill'[r] = skill[r]
        BY <1>2, <4>1 DEF SkillIInv, SkillTypeOK
      <4> QED BY <4>2
    <3>2. CASE RemoveFile(a)
      <4>1. PICK q \in hands[a].left : skill' = [skill EXCEPT ![q] = Nothing]
        BY <1>2, <3>2, RemoveFileFacts
      <4>2. \A r \in Paths \ {q} : skill'[r] = skill[r]
        BY <1>2, <4>1 DEF SkillIInv, SkillTypeOK
      <4> QED BY <4>2
    <3> QED BY <2>1, <3>1, <3>2
  <2>3. p = q
    BY <2>2
  <2> QED BY <1>2, <2>3 DEF SkillIInv, CalmFits
<1> QED BY <1>1, <1>2, SkillInvariance, PTL DEF SkillSpec, SkillsAreTidy, OwnFilesStay

-----------------------------------------------------------------------------
(* Sections of bundle versions *)

\* A row of a snapshot's sections.
SectionRows == [key : SectionKey, from : Nat]

\* Versions and builds are records; the counts of a version are whatever it reported.
VersionShapes ==
    /\ versions = [v \in VersionNumbers |-> versions[v]]
    /\ builds = [v \in VersionNumbers |-> builds[v]]
    /\ \A v \in VersionNumbers :
        /\ versions[v] = [state |-> versions[v].state, deleted |-> versions[v].deleted,
                          over |-> versions[v].over, files |-> versions[v].files,
                          rows |-> versions[v].rows, counts |-> versions[v].counts]
        /\ builds[v] = [step |-> builds[v].step, previous |-> builds[v].previous,
                        known |-> builds[v].known]
        /\ versions[v].rows \subseteq SectionRows /\ builds[v].previous \subseteq SectionRows

\* A purged version leaves no file and no row, and a version that no upload has made, or
\* whose worker has not committed, has no row.
RowsAreOfCommits ==
    \A v \in VersionNumbers :
        /\ versions[v].state # "indexed" => versions[v].rows = {}
        /\ versions[v].state = "purged" => \A p \in Files : versions[v].files[p] = Missing

\* Only the worker of a running version has read anything, and no purge takes a version
\* whose run has not ended.
BuildsAreOfRuns ==
    \A v \in VersionNumbers :
        /\ builds[v].step # "none" => versions[v].state = "running"
        /\ v \in purges => versions[v].state \in {"indexed", "failed", "purged"}
        /\ versions[v].over # 0 => versions[versions[v].over].state # "none"

\* What a worker read of the superseded version is what it still holds, until it is purged.
PreviousIsOfOver ==
    \A v \in VersionNumbers : builds[v].step # "none" /\ builds[v].previous # {} =>
        LET w == versions[v].over IN
        /\ w \in VersionNumbers
        /\ versions[w].state = "purged" \/
             (versions[w].state = "indexed" /\ versions[w].rows = builds[v].previous)

\* The inductive invariant of the sections of bundle versions.
SectionIInv ==
    /\ SectionTypeOK /\ VersionShapes /\ RowsAreOfCommits /\ BuildsAreOfRuns
    /\ PreviousIsOfOver /\ VersionsAreWhole

\* The keys of a text are section keys of its path.
LEMMA KeyFacts ==
  ASSUME NEW p \in Files, NEW text \in Texts \cup {Missing}
  PROVE  /\ KeysOf(p, text) \subseteq SectionKey
         /\ \A key \in KeysOf(p, text) : key.path = p
<1>1. CASE text = Missing
  BY <1>1 DEF KeysOf
<1>2. CASE text # Missing
  <2>1. text \in Seq(Nat)
    BY <1>2, SectionConstants
  <2>2. \A i \in DOMAIN text : i \in Nat /\ text[i] \in Nat
    BY <2>1
  <2>3. KeysOf(p, text) = {[path |-> p, hash |-> text[i], ordinal |-> i] : i \in DOMAIN text}
    BY <1>2 DEF KeysOf
  <2> QED BY <2>2, <2>3 DEF SectionKey
<1> QED BY <1>1, <1>2

\* What a worker extracts anew are section keys.
LEMMA ExtractFacts ==
  ASSUME SectionTypeOK, NEW v \in VersionNumbers
  PROVE  ToExtract(v) \subseteq SectionKey
BY KeyFacts DEF SectionTypeOK, ToExtract, Kept

\* No version is uploaded at first, so nothing is read, kept or purged.
LEMMA SectionInitially == SectionInit => SectionIInv
<1> SUFFICES ASSUME SectionInit PROVE SectionIInv
  OBVIOUS
<1>1. \A v \in VersionNumbers : versions[v] = Unuploaded /\ builds[v] = NoBuild
  BY DEF SectionInit
<1>2. \A v \in VersionNumbers : v \in Nat /\ v >= 1 /\ 0 \in 0..(v - 1)
  BY SectionConstants DEF VersionNumbers
<1>3. SectionTypeOK
  BY <1>1, <1>2 DEF SectionInit, SectionTypeOK, Unuploaded, NoBuild
<1>4. VersionShapes
  BY <1>1 DEF SectionInit, VersionShapes, Unuploaded, NoBuild
<1>5. RowsAreOfCommits /\ BuildsAreOfRuns
  BY <1>1 DEF SectionInit, RowsAreOfCommits, BuildsAreOfRuns, Unuploaded, NoBuild
<1>6. PreviousIsOfOver /\ VersionsAreWhole
  BY <1>1 DEF PreviousIsOfOver, VersionsAreWhole, Unuploaded, NoBuild
<1> QED BY <1>3, <1>4, <1>5, <1>6 DEF SectionIInv

\* The record of one version changes, and no build: what the invariant asks of the new one.
LEMMA VersionChanges ==
  ASSUME SectionIInv, NEW v \in VersionNumbers, NEW new,
         versions' = [versions EXCEPT ![v] = new],
         new = [state |-> new.state, deleted |-> new.deleted, over |-> new.over,
                files |-> new.files, rows |-> new.rows, counts |-> new.counts],
         new.state \in {"queued", "running", "indexed", "failed", "purged"},
         new.over \in 0..(v - 1), new.over # 0 => versions[new.over].state # "none",
         new.files \in [Files -> Texts \cup {Missing}],
         new.rows \subseteq SectionRows, \A row \in new.rows : row.from \in 0..(v - 1),
         new.state # "indexed" => new.rows = {},
         new.state = "purged" => \A p \in Files : new.files[p] = Missing,
         versions[v].state \in {"indexed", "purged"} =>
             new.state = "purged" \/ (new.state = versions[v].state /\ new.rows = versions[v].rows)
  PROVE  /\ versions'[v] = new
         /\ \A w \in VersionNumbers \ {v} : versions'[w] = versions[w]
         /\ versions' = [w \in VersionNumbers |-> versions'[w]]
         /\ \A w \in VersionNumbers :
              /\ versions'[w].state \in {"none", "queued", "running", "indexed", "failed", "purged"}
              /\ versions'[w].over \in 0..(w - 1)
              /\ versions'[w].files \in [Files -> Texts \cup {Missing}]
              /\ \A row \in versions'[w].rows : row.key \in SectionKey /\ row.from \in 0..(w - 1)
              /\ versions'[w] = [state |-> versions'[w].state, deleted |-> versions'[w].deleted,
                          over |-> versions'[w].over, files |-> versions'[w].files,
                          rows |-> versions'[w].rows, counts |-> versions'[w].counts]
              /\ versions'[w].rows \subseteq SectionRows
              /\ versions'[w].over # 0 => versions'[versions'[w].over].state # "none"
         /\ RowsAreOfCommits'
<1>1. versions = [w \in VersionNumbers |-> versions[w]]
  BY DEF SectionIInv, VersionShapes
<1>2. versions'[v] = new /\ \A w \in VersionNumbers \ {v} : versions'[w] = versions[w]
  BY <1>1
<1>3. versions' = [w \in VersionNumbers |-> versions'[w]]
  BY <1>1
<1>4. \A w \in VersionNumbers :
              /\ versions'[w].state \in {"none", "queued", "running", "indexed", "failed", "purged"}
              /\ versions'[w].over \in 0..(w - 1)
              /\ versions'[w].files \in [Files -> Texts \cup {Missing}]
  BY <1>2 DEF SectionIInv, SectionTypeOK
<1>5. \A w \in VersionNumbers :
              /\ versions'[w].rows \subseteq SectionRows
              /\ \A row \in versions'[w].rows : row.from \in 0..(w - 1)
  BY <1>2 DEF SectionIInv, SectionTypeOK, VersionShapes
<1>6. \A w \in VersionNumbers : \A row \in versions'[w].rows : row.key \in SectionKey
  BY <1>5 DEF SectionRows
<1>7. \A w \in VersionNumbers :
         versions'[w] = [state |-> versions'[w].state, deleted |-> versions'[w].deleted,
                          over |-> versions'[w].over, files |-> versions'[w].files,
                          rows |-> versions'[w].rows, counts |-> versions'[w].counts]
  <2> TAKE w \in VersionNumbers
  <2>1. CASE w = v
    BY <1>2, <2>1
  <2>2. CASE w # v
    BY <1>2, <2>2 DEF SectionIInv, VersionShapes
  <2> QED BY <2>1, <2>2
<1>8. \A w \in VersionNumbers : versions'[w].over # 0 => versions'[versions'[w].over].state # "none"
  <2>1. \A w \in VersionNumbers : versions'[w].over # 0 =>
            versions'[w].over \in VersionNumbers /\ versions[versions'[w].over].state # "none"
    BY <1>2, <1>4, SectionConstants DEF SectionIInv, BuildsAreOfRuns, VersionNumbers
  <2>2. \A u \in VersionNumbers : versions[u].state # "none" => versions'[u].state # "none"
    BY <1>2
  <2> QED BY <2>1, <2>2
<1>9. RowsAreOfCommits'
  BY <1>2 DEF SectionIInv, RowsAreOfCommits
<1> QED BY <1>2, <1>3, <1>4, <1>5, <1>6, <1>7, <1>8, <1>9

\* The builds that go on still hold what the superseded version has, or it was purged.
LEMMA BuildsGoOn ==
  ASSUME SectionIInv, NEW v \in VersionNumbers, NEW new,
         versions'[v] = new, \A w \in VersionNumbers \ {v} : versions'[w] = versions[w],
         versions[v].state \in {"indexed", "purged"} =>
             new.state = "purged" \/ (new.state = versions[v].state /\ new.rows = versions[v].rows),
         builds'[v].step = "none", \A w \in VersionNumbers \ {v} : builds'[w] = builds[w]
  PROVE  PreviousIsOfOver'
<1> SUFFICES ASSUME NEW u \in VersionNumbers, builds'[u].step # "none", builds'[u].previous # {}
             PROVE  LET w == versions'[u].over IN
                    /\ w \in VersionNumbers
                    /\ versions'[w].state = "purged" \/
                         (versions'[w].state = "indexed" /\ versions'[w].rows = builds'[u].previous)
  BY DEF PreviousIsOfOver
<1>1. u # v /\ versions'[u] = versions[u] /\ builds'[u] = builds[u]
  OBVIOUS
<1>2. PICK w \in VersionNumbers : w = versions[u].over
  BY <1>1 DEF SectionIInv, PreviousIsOfOver
<1>3. \/ versions[w].state = "purged"
      \/ versions[w].state = "indexed" /\ versions[w].rows = builds[u].previous
  BY <1>1, <1>2 DEF SectionIInv, PreviousIsOfOver
<1>4. CASE w = v
  BY <1>1, <1>2, <1>3, <1>4
<1>5. CASE w # v
  BY <1>1, <1>2, <1>3, <1>5
<1> QED BY <1>4, <1>5


\* The rows are the sections of the files, and the table has them.
IsWhole(texts, rows, table) ==
    /\ {row.key : row \in rows} = UNION {KeysOf(p, texts[p]) : p \in Files}
    /\ \A row \in rows : row.key \in table

\* A version is whole in the sense of IsWhole.
LEMMA WholeFacts ==
  VersionsAreWhole <=>
      \A v \in VersionNumbers : versions[v].state = "indexed" =>
          IsWhole(versions[v].files, versions[v].rows, sections)
BY DEF VersionsAreWhole, IsWhole

\* One version changes and its build, if it had one, is over.
LEMMA VersionStep ==
  ASSUME SectionIInv, NEW v \in VersionNumbers, NEW new,
         versions' = [versions EXCEPT ![v] = new],
         new = [state |-> new.state, deleted |-> new.deleted, over |-> new.over,
                files |-> new.files, rows |-> new.rows, counts |-> new.counts],
         new.state \in {"queued", "running", "indexed", "failed", "purged"},
         new.over \in 0..(v - 1), new.over # 0 => versions[new.over].state # "none",
         new.files \in [Files -> Texts \cup {Missing}],
         new.rows \subseteq SectionRows, \A row \in new.rows : row.from \in 0..(v - 1),
         new.state # "indexed" => new.rows = {},
         new.state = "purged" => \A p \in Files : new.files[p] = Missing,
         versions[v].state \in {"indexed", "purged"} =>
             new.state = "purged" \/ (new.state = versions[v].state /\ new.rows = versions[v].rows),
         builds' = [builds EXCEPT ![v] = NoBuild] \/ (builds' = builds /\ builds[v].step = "none"),
         purges' \subseteq purges, v \in purges' => new.state \in {"indexed", "failed", "purged"},
         sections' \subseteq SectionKey,
         new.state = "indexed" => IsWhole(new.files, new.rows, sections'),
         \A w \in VersionNumbers \ {v} : \A row \in versions[w].rows : row.key \in sections'
  PROVE  SectionIInv'
<1>1. /\ versions'[v] = new
      /\ \A w \in VersionNumbers \ {v} : versions'[w] = versions[w]
      /\ versions' = [w \in VersionNumbers |-> versions'[w]]
      /\ \A w \in VersionNumbers :
              /\ versions'[w].state \in {"none", "queued", "running", "indexed", "failed", "purged"}
              /\ versions'[w].over \in 0..(w - 1)
              /\ versions'[w].files \in [Files -> Texts \cup {Missing}]
              /\ \A row \in versions'[w].rows : row.key \in SectionKey /\ row.from \in 0..(w - 1)
              /\ versions'[w] = [state |-> versions'[w].state, deleted |-> versions'[w].deleted,
                          over |-> versions'[w].over, files |-> versions'[w].files,
                          rows |-> versions'[w].rows, counts |-> versions'[w].counts]
              /\ versions'[w].rows \subseteq SectionRows
              /\ versions'[w].over # 0 => versions'[versions'[w].over].state # "none"
      /\ RowsAreOfCommits'
  BY VersionChanges
<1>2. /\ builds' = [w \in VersionNumbers |-> builds'[w]]
      /\ builds'[v].step = "none" /\ builds'[v].previous \subseteq SectionRows
      /\ builds'[v].known \subseteq SectionKey
      /\ builds'[v] = [step |-> builds'[v].step, previous |-> builds'[v].previous,
                        known |-> builds'[v].known]
      /\ \A w \in VersionNumbers \ {v} : builds'[w] = builds[w]
  <2>1. builds = [w \in VersionNumbers |-> builds[w]]
    BY DEF SectionIInv, VersionShapes
  <2>2. CASE builds' = [builds EXCEPT ![v] = NoBuild]
    <3>1. builds'[v] = NoBuild
      BY <2>1, <2>2
    <3> QED BY <2>1, <2>2, <3>1 DEF NoBuild
  <2>3. CASE builds' = builds /\ builds[v].step = "none"
    BY <2>1, <2>3 DEF SectionIInv, VersionShapes, SectionTypeOK
  <2> QED BY <2>2, <2>3
<1>3. SectionTypeOK'
  <2>1. \A w \in VersionNumbers :
          builds'[w].step \in {"none", "previous", "selected"} /\ builds'[w].known \subseteq SectionKey
    BY <1>2 DEF SectionIInv, SectionTypeOK
  <2>2. purges' \subseteq VersionNumbers
    BY DEF SectionIInv, SectionTypeOK
  <2> QED BY <1>1, <2>1, <2>2 DEF SectionTypeOK
<1>4. VersionShapes'
  <2>1. \A w \in VersionNumbers :
          /\ builds'[w] = [step |-> builds'[w].step, previous |-> builds'[w].previous,
                        known |-> builds'[w].known]
          /\ builds'[w].previous \subseteq SectionRows
    <3> TAKE w \in VersionNumbers
    <3>1. CASE w = v
      BY <1>2, <3>1
    <3>2. CASE w # v
      BY <1>2, <3>2 DEF SectionIInv, VersionShapes
    <3> QED BY <3>1, <3>2
  <2> QED BY <1>1, <1>2, <2>1 DEF VersionShapes
<1>5. BuildsAreOfRuns'
  <2>1. \A w \in VersionNumbers : builds'[w].step # "none" => versions'[w].state = "running"
    BY <1>1, <1>2 DEF SectionIInv, BuildsAreOfRuns
  <2>2. \A w \in VersionNumbers : w \in purges' => versions'[w].state \in {"indexed", "failed", "purged"}
    BY <1>1 DEF SectionIInv, BuildsAreOfRuns
  <2> QED BY <1>1, <2>1, <2>2 DEF BuildsAreOfRuns
<1>6. PreviousIsOfOver'
  BY <1>1, <1>2, BuildsGoOn
<1>7. VersionsAreWhole'
  <2>1. \A w \in VersionNumbers : versions'[w].state = "indexed" =>
          IsWhole(versions'[w].files, versions'[w].rows, sections')
    <3> TAKE w \in VersionNumbers
    <3> HAVE versions'[w].state = "indexed"
    <3>1. CASE w = v
      BY <1>1, <3>1
    <3>2. CASE w # v
      <4>1. versions'[w] = versions[w]
        BY <1>1, <3>2
      <4>2. IsWhole(versions[w].files, versions[w].rows, sections)
        BY <4>1, WholeFacts DEF SectionIInv
      <4> QED BY <3>2, <4>1, <4>2 DEF IsWhole
    <3> QED BY <3>1, <3>2
  <2> QED BY <2>1 DEF VersionsAreWhole, IsWhole
<1> QED BY <1>1, <1>3, <1>4, <1>5, <1>6, <1>7 DEF SectionIInv

\* What the steps below need of a version and its build.
LEMMA VersionFacts ==
  ASSUME SectionIInv, NEW v \in VersionNumbers
  PROVE  /\ versions[v] = [state |-> versions[v].state, deleted |-> versions[v].deleted,
                           over |-> versions[v].over, files |-> versions[v].files,
                           rows |-> versions[v].rows, counts |-> versions[v].counts]
         /\ versions[v].state \in {"none", "queued", "running", "indexed", "failed", "purged"}
         /\ versions[v].over \in 0..(v - 1)
         /\ versions[v].over # 0 => versions[versions[v].over].state # "none"
         /\ versions[v].files \in [Files -> Texts \cup {Missing}]
         /\ versions[v].rows \subseteq SectionRows /\ \A row \in versions[v].rows : row.from \in 0..(v - 1)
         /\ versions[v].state # "indexed" => versions[v].rows = {}
         /\ versions[v].state = "purged" => \A p \in Files : versions[v].files[p] = Missing
         /\ versions[v].state = "indexed" => IsWhole(versions[v].files, versions[v].rows, sections)
         /\ \A row \in versions[v].rows : row.key \in sections
         /\ sections \subseteq SectionKey
<1>1. versions[v].state = "indexed" => IsWhole(versions[v].files, versions[v].rows, sections)
  BY WholeFacts DEF SectionIInv
<1>2. versions[v].state # "indexed" => versions[v].rows = {}
  BY DEF SectionIInv, RowsAreOfCommits
<1>3. \A row \in versions[v].rows : row.key \in sections
  BY <1>1, <1>2 DEF IsWhole
<1> QED BY <1>1, <1>2, <1>3
        DEF SectionIInv, SectionTypeOK, VersionShapes, RowsAreOfCommits, BuildsAreOfRuns

\* An upload makes a new version over an older one that was made.
LEMMA UploadVersionStep ==
  ASSUME SectionIInv, NEW v \in VersionNumbers, UploadVersion(v)
  PROVE  SectionIInv'
<1>1. PICK texts \in Bundles, over \in IF v = FamilyRoot THEN {0}
                   ELSE {w \in 1..(v - 1) : Present(w) /\ ~versions[w].deleted} :
        versions' = [versions EXCEPT ![v] = NewVersion(texts, over)]
  BY DEF UploadVersion
<1>2. PICK new : new = NewVersion(texts, over)
  OBVIOUS
<1>3. /\ new.state = "queued" /\ new.over = over /\ new.files = texts /\ new.rows = {}
      /\ new = [state |-> new.state, deleted |-> new.deleted, over |-> new.over,
                files |-> new.files, rows |-> new.rows, counts |-> new.counts]
  BY <1>2 DEF NewVersion
<1>4. over \in 0..(v - 1) /\ (over # 0 => versions[over].state # "none")
  BY SectionConstants DEF VersionNumbers, Present
<1>5. new.files \in [Files -> Texts \cup {Missing}]
  BY <1>3, SectionConstants
<1>6. versions[v].state = "none" /\ builds' = builds /\ purges' = purges /\ sections' = sections
  BY DEF UploadVersion
<1>7. builds[v].step = "none" /\ v \notin purges
  BY <1>6 DEF SectionIInv, BuildsAreOfRuns
<1>8. versions' = [versions EXCEPT ![v] = new]
  BY <1>1, <1>2
<1>9. \A w \in VersionNumbers \ {v} : \A row \in versions[w].rows : row.key \in sections'
  BY <1>6, VersionFacts
<1>10. sections' \subseteq SectionKey
  BY <1>6, VersionFacts
<1> QED BY <1>3, <1>4, <1>5, <1>6, <1>7, <1>8, <1>9, <1>10, VersionStep

\* Hiding a version or showing it again leaves its rows alone.
LEMMA ToggleDeletedStep ==
  ASSUME SectionIInv, NEW v \in VersionNumbers, ToggleDeleted(v)
  PROVE  SectionIInv'
<1>0. versions[v] = [state |-> versions[v].state, deleted |-> versions[v].deleted,
                     over |-> versions[v].over, files |-> versions[v].files,
                     rows |-> versions[v].rows, counts |-> versions[v].counts]
  BY VersionFacts
<1>1. PICK new : new = [versions[v] EXCEPT !.deleted = ~@]
  OBVIOUS
<1>2. /\ new.state = versions[v].state /\ new.over = versions[v].over
      /\ new.files = versions[v].files /\ new.rows = versions[v].rows
      /\ new = [state |-> new.state, deleted |-> new.deleted, over |-> new.over,
                files |-> new.files, rows |-> new.rows, counts |-> new.counts]
  BY <1>0, <1>1
<1>3. /\ versions[v].state # "none" /\ builds[v].step = "none"
      /\ builds' = builds /\ purges' = purges /\ sections' = sections
  BY DEF ToggleDeleted, Present
<1>4. versions' = [versions EXCEPT ![v] = new]
  BY <1>1 DEF ToggleDeleted
<1>5. v \in purges' => new.state \in {"indexed", "failed", "purged"}
  BY <1>2, <1>3 DEF SectionIInv, BuildsAreOfRuns
<1>6. \A w \in VersionNumbers \ {v} : \A row \in versions[w].rows : row.key \in sections'
  BY <1>3, VersionFacts
<1>7. /\ new.state \in {"queued", "running", "indexed", "failed", "purged"}
      /\ new.over \in 0..(v - 1) /\ (new.over # 0 => versions[new.over].state # "none")
      /\ new.files \in [Files -> Texts \cup {Missing}]
      /\ new.rows \subseteq SectionRows /\ \A row \in new.rows : row.from \in 0..(v - 1)
      /\ new.state # "indexed" => new.rows = {}
      /\ new.state = "purged" => \A p \in Files : new.files[p] = Missing
      /\ new.state = "indexed" => IsWhole(new.files, new.rows, sections')
      /\ sections' \subseteq SectionKey
  <2>1. new.state \in {"queued", "running", "indexed", "failed", "purged"}
    BY <1>2, <1>3, VersionFacts
  <2>2. new.over \in 0..(v - 1) /\ (new.over # 0 => versions[new.over].state # "none")
    BY <1>2, VersionFacts
  <2>3. new.files \in [Files -> Texts \cup {Missing}]
    BY <1>2, VersionFacts
  <2>4. new.rows \subseteq SectionRows /\ \A row \in new.rows : row.from \in 0..(v - 1)
    BY <1>2, VersionFacts
  <2>5. /\ new.state # "indexed" => new.rows = {}
        /\ new.state = "purged" => \A p \in Files : new.files[p] = Missing
    <3>1. versions[v].state # "indexed" => versions[v].rows = {}
      BY VersionFacts
    <3>2. versions[v].state = "purged" => \A p \in Files : versions[v].files[p] = Missing
      BY VersionFacts
    <3>3. new.state # "indexed" => new.rows = {}
      BY <1>2, <3>1
    <3>4. ASSUME new.state = "purged", NEW p \in Files
          PROVE  new.files[p] = Missing
      BY <1>2, <3>2, <3>4
    <3> QED BY <3>3, <3>4
  <2>6. new.state = "indexed" => IsWhole(new.files, new.rows, sections')
    BY <1>2, <1>3, VersionFacts
  <2>7. sections' \subseteq SectionKey
    BY <1>3, VersionFacts
  <2> QED BY <2>1, <2>2, <2>3, <2>4, <2>5, <2>6, <2>7
<1> QED BY <1>2, <1>3, <1>4, <1>5, <1>6, <1>7, VersionStep

\* A failing worker leaves the rows of its version as empty as they were.
LEMMA FailBuildStep ==
  ASSUME SectionIInv, NEW v \in VersionNumbers, FailBuild(v)
  PROVE  SectionIInv'
<1>0. versions[v] = [state |-> versions[v].state, deleted |-> versions[v].deleted,
                     over |-> versions[v].over, files |-> versions[v].files,
                     rows |-> versions[v].rows, counts |-> versions[v].counts]
  BY VersionFacts
<1>1. PICK new : new = [versions[v] EXCEPT !.state = "failed"]
  OBVIOUS
<1>2. /\ new.state = "failed" /\ new.over = versions[v].over
      /\ new.files = versions[v].files /\ new.rows = versions[v].rows
      /\ new = [state |-> new.state, deleted |-> new.deleted, over |-> new.over,
                files |-> new.files, rows |-> new.rows, counts |-> new.counts]
  BY <1>0, <1>1
<1>3. /\ versions[v].state \in {"queued", "running"}
      /\ builds' = [builds EXCEPT ![v] = NoBuild] /\ purges' = purges /\ sections' = sections
  BY DEF FailBuild
<1>4. versions' = [versions EXCEPT ![v] = new]
  BY <1>1 DEF FailBuild
<1>6. \A w \in VersionNumbers \ {v} : \A row \in versions[w].rows : row.key \in sections'
  BY <1>3, VersionFacts
<1>7. /\ new.over \in 0..(v - 1) /\ (new.over # 0 => versions[new.over].state # "none")
      /\ new.files \in [Files -> Texts \cup {Missing}]
      /\ new.rows \subseteq SectionRows /\ \A row \in new.rows : row.from \in 0..(v - 1)
      /\ new.rows = {}
      /\ sections' \subseteq SectionKey
  BY <1>2, <1>3, VersionFacts
<1> QED BY <1>2, <1>3, <1>4, <1>6, <1>7, VersionStep

\* A worker reads the rows of the version it supersedes when that one is indexed.
LEMMA ReadPreviousStep ==
  ASSUME SectionIInv, NEW v \in VersionNumbers, ReadPrevious(v)
  PROVE  SectionIInv'
<1>0. versions[v] = [state |-> versions[v].state, deleted |-> versions[v].deleted,
                     over |-> versions[v].over, files |-> versions[v].files,
                     rows |-> versions[v].rows, counts |-> versions[v].counts]
  BY VersionFacts
<1>1. PICK new : new = [versions[v] EXCEPT !.state = "running"]
  OBVIOUS
<1>2. /\ new.state = "running" /\ new.over = versions[v].over
      /\ new.files = versions[v].files /\ new.rows = versions[v].rows
      /\ new = [state |-> new.state, deleted |-> new.deleted, over |-> new.over,
                files |-> new.files, rows |-> new.rows, counts |-> new.counts]
  BY <1>0, <1>1
<1>3. PICK build : build = [step |-> "previous", previous |-> PreviousRows(v), known |-> {}]
  OBVIOUS
<1>4. /\ versions[v].state = "queued" /\ builds' = [builds EXCEPT ![v] = build]
      /\ purges' = purges /\ sections' = sections
  BY <1>3 DEF ReadPrevious
<1>5. versions' = [versions EXCEPT ![v] = new]
  BY <1>1 DEF ReadPrevious
<1>6. /\ new.over \in 0..(v - 1) /\ (new.over # 0 => versions[new.over].state # "none")
      /\ new.files \in [Files -> Texts \cup {Missing}]
      /\ new.rows \subseteq SectionRows /\ \A row \in new.rows : row.from \in 0..(v - 1)
      /\ new.rows = {}
  BY <1>2, <1>4, VersionFacts
<1>7. /\ versions'[v] = new
      /\ \A w \in VersionNumbers \ {v} : versions'[w] = versions[w]
      /\ versions' = [w \in VersionNumbers |-> versions'[w]]
      /\ \A w \in VersionNumbers :
              /\ versions'[w].state \in {"none", "queued", "running", "indexed", "failed", "purged"}
              /\ versions'[w].over \in 0..(w - 1)
              /\ versions'[w].files \in [Files -> Texts \cup {Missing}]
              /\ \A row \in versions'[w].rows : row.key \in SectionKey /\ row.from \in 0..(w - 1)
              /\ versions'[w] = [state |-> versions'[w].state, deleted |-> versions'[w].deleted,
                          over |-> versions'[w].over, files |-> versions'[w].files,
                          rows |-> versions'[w].rows, counts |-> versions'[w].counts]
              /\ versions'[w].rows \subseteq SectionRows
              /\ versions'[w].over # 0 => versions'[versions'[w].over].state # "none"
      /\ RowsAreOfCommits'
  BY <1>2, <1>4, <1>5, <1>6, VersionChanges
<1>8. /\ PreviousRows(v) \subseteq SectionRows
      /\ PreviousRows(v) # {} => LET w == versions[v].over IN
           /\ w \in VersionNumbers /\ w # v
           /\ versions[w].state = "indexed" /\ versions[w].rows = PreviousRows(v)
  <2>1. CASE versions[v].over # 0 /\ versions[versions[v].over].state = "indexed"
    <3>1. versions[v].over \in VersionNumbers /\ versions[v].over # v
      BY <2>1, <1>6, <1>2, SectionConstants DEF VersionNumbers
    <3> QED BY <2>1, <3>1, VersionFacts DEF PreviousRows
  <2>2. CASE ~(versions[v].over # 0 /\ versions[versions[v].over].state = "indexed")
    BY <2>2 DEF PreviousRows
  <2> QED BY <2>1, <2>2
<1>9. /\ builds' = [w \in VersionNumbers |-> builds'[w]]
      /\ builds'[v] = build
      /\ \A w \in VersionNumbers \ {v} : builds'[w] = builds[w]
  BY <1>4 DEF SectionIInv, VersionShapes
<1>10. /\ build.step = "previous" /\ build.previous = PreviousRows(v) /\ build.known = {}
       /\ build = [step |-> build.step, previous |-> build.previous, known |-> build.known]
  BY <1>3
<1>11. SectionTypeOK'
  BY <1>4, <1>7, <1>9, <1>10 DEF SectionIInv, SectionTypeOK
<1>12. VersionShapes'
  <2>1. \A w \in VersionNumbers :
          /\ builds'[w] = [step |-> builds'[w].step, previous |-> builds'[w].previous,
                        known |-> builds'[w].known]
          /\ builds'[w].previous \subseteq SectionRows
    <3> TAKE w \in VersionNumbers
    <3>1. CASE w = v
      BY <1>8, <1>9, <1>10, <3>1
    <3>2. CASE w # v
      BY <1>9, <3>2 DEF SectionIInv, VersionShapes
    <3> QED BY <3>1, <3>2
  <2> QED BY <1>7, <1>9, <2>1 DEF VersionShapes
<1>13. BuildsAreOfRuns'
  <2>1. \A w \in VersionNumbers : builds'[w].step # "none" => versions'[w].state = "running"
    BY <1>2, <1>7, <1>9 DEF SectionIInv, BuildsAreOfRuns
  <2>2. \A w \in VersionNumbers : w \in purges' => versions'[w].state \in {"indexed", "failed", "purged"}
    BY <1>4, <1>7 DEF SectionIInv, BuildsAreOfRuns
  <2> QED BY <1>7, <2>1, <2>2 DEF BuildsAreOfRuns
<1>14. PreviousIsOfOver'
  <2> SUFFICES ASSUME NEW u \in VersionNumbers, builds'[u].step # "none", builds'[u].previous # {}
               PROVE  LET w == versions'[u].over IN
                      /\ w \in VersionNumbers
                      /\ versions'[w].state = "purged" \/
                           (versions'[w].state = "indexed" /\ versions'[w].rows = builds'[u].previous)
    BY DEF PreviousIsOfOver
  <2>1. CASE u = v
    BY <1>2, <1>7, <1>8, <1>9, <1>10, <2>1
  <2>2. CASE u # v
    <3>1. versions'[u] = versions[u] /\ builds'[u] = builds[u]
      BY <1>7, <1>9, <2>2
    <3>2. PICK w \in VersionNumbers : w = versions[u].over
      BY <3>1 DEF SectionIInv, PreviousIsOfOver
    <3>3. \/ versions[w].state = "purged"
          \/ versions[w].state = "indexed" /\ versions[w].rows = builds[u].previous
      BY <3>1, <3>2 DEF SectionIInv, PreviousIsOfOver
    <3> QED BY <1>4, <1>7, <3>1, <3>2, <3>3
  <2> QED BY <2>1, <2>2
<1>15. VersionsAreWhole'
  <2>1. \A w \in VersionNumbers : versions'[w].state = "indexed" =>
          IsWhole(versions'[w].files, versions'[w].rows, sections')
    BY <1>2, <1>4, <1>7, VersionFacts
  <2> QED BY <2>1 DEF VersionsAreWhole, IsWhole
<1> QED BY <1>7, <1>11, <1>12, <1>13, <1>14, <1>15 DEF SectionIInv

\* A worker learns which texts the table already has and writes nothing.
LEMMA SelectKnownStep ==
  ASSUME SectionIInv, NEW v \in VersionNumbers, SelectKnown(v)
  PROVE  SectionIInv'
<1>0. builds[v] = [step |-> builds[v].step, previous |-> builds[v].previous, known |-> builds[v].known]
  BY DEF SectionIInv, VersionShapes
<1>1. PICK build : build = [builds[v] EXCEPT !.step = "selected", !.known = ToExtract(v) \cap sections]
  OBVIOUS
<1>2. /\ build.step = "selected" /\ build.previous = builds[v].previous
      /\ build.known = ToExtract(v) \cap sections
      /\ build = [step |-> build.step, previous |-> build.previous, known |-> build.known]
  BY <1>0, <1>1
<1>3. /\ builds[v].step = "previous" /\ builds' = [builds EXCEPT ![v] = build]
      /\ versions' = versions /\ sections' = sections /\ purges' = purges
  BY <1>1 DEF SelectKnown
<1>4. /\ builds' = [w \in VersionNumbers |-> builds'[w]]
      /\ builds'[v] = build
      /\ \A w \in VersionNumbers \ {v} : builds'[w] = builds[w]
  BY <1>3 DEF SectionIInv, VersionShapes
<1>5. \A w \in VersionNumbers :
        /\ builds'[w].previous = builds[w].previous
        /\ builds'[w].step # "none" => builds[w].step # "none"
        /\ builds'[w].step \in {"none", "previous", "selected"} /\ builds'[w].known \subseteq SectionKey
  <2>1. build.known \subseteq SectionKey
    BY <1>2 DEF SectionIInv, SectionTypeOK
  <2> QED BY <1>2, <1>3, <1>4, <2>1 DEF SectionIInv, SectionTypeOK
<1>6. SectionTypeOK'
  BY <1>3, <1>5 DEF SectionIInv, SectionTypeOK
<1>7. VersionShapes'
  <2>1. \A w \in VersionNumbers :
          /\ builds'[w] = [step |-> builds'[w].step, previous |-> builds'[w].previous,
                        known |-> builds'[w].known]
          /\ builds'[w].previous \subseteq SectionRows
    <3> TAKE w \in VersionNumbers
    <3>1. builds'[w].previous \subseteq SectionRows
      BY <1>5 DEF SectionIInv, VersionShapes
    <3>2. CASE w = v
      BY <1>2, <1>4, <3>1, <3>2
    <3>3. CASE w # v
      BY <1>4, <3>1, <3>3 DEF SectionIInv, VersionShapes
    <3> QED BY <3>2, <3>3
  <2> QED BY <1>3, <1>4, <2>1 DEF SectionIInv, VersionShapes
<1>8. RowsAreOfCommits' /\ BuildsAreOfRuns'
  BY <1>3, <1>5 DEF SectionIInv, RowsAreOfCommits, BuildsAreOfRuns
<1>9. PreviousIsOfOver'
  <2> SUFFICES ASSUME NEW u \in VersionNumbers, builds'[u].step # "none", builds'[u].previous # {}
               PROVE  LET w == versions'[u].over IN
                      /\ w \in VersionNumbers
                      /\ versions'[w].state = "purged" \/
                           (versions'[w].state = "indexed" /\ versions'[w].rows = builds'[u].previous)
    BY DEF PreviousIsOfOver
  <2>1. builds[u].step # "none" /\ builds[u].previous # {} /\ builds'[u].previous = builds[u].previous
    BY <1>5
  <2> QED BY <1>3, <2>1 DEF SectionIInv, PreviousIsOfOver
<1>10. VersionsAreWhole'
  BY <1>3 DEF SectionIInv, VersionsAreWhole
<1> QED BY <1>10, <1>6, <1>7, <1>8, <1>9 DEF SectionIInv

\* What a worker keeps of the superseded version's rows are the sections of the files it
\* keeps.
LEMMA KeptFacts ==
  ASSUME SectionIInv, NEW v \in VersionNumbers, builds[v].step # "none", NEW p \in Kept(v)
  PROVE  /\ {row.key : row \in At(builds[v].previous, p)} = KeysOf(p, versions[v].files[p])
         /\ versions[v].over # 0
<1>1. /\ p \in Files /\ At(builds[v].previous, p) # {}
      /\ versions[v].files[p] # Missing
      /\ versions[versions[v].over].files[p] = versions[v].files[p]
  BY DEF Kept, Unchanged
<1>2. PICK w \in VersionNumbers : w = versions[v].over
  BY <1>1 DEF SectionIInv, PreviousIsOfOver, At
<1>3. \/ versions[w].state = "purged"
      \/ versions[w].state = "indexed" /\ versions[w].rows = builds[v].previous
  BY <1>1, <1>2 DEF SectionIInv, PreviousIsOfOver, At
<1>4. versions[w].state = "indexed" /\ versions[w].rows = builds[v].previous
  BY <1>1, <1>2, <1>3, VersionFacts
<1>5. {row.key : row \in builds[v].previous} = UNION {KeysOf(q, versions[w].files[q]) : q \in Files}
  BY <1>4, VersionFacts DEF IsWhole
<1>6. \A q \in Files : \A key \in KeysOf(q, versions[w].files[q]) : key.path = q
  <2>1. \A q \in Files : versions[w].files[q] \in Texts \cup {Missing}
    BY VersionFacts
  <2> QED BY <2>1, KeyFacts
<1>7. \A row \in builds[v].previous : row.key.path = p => row.key \in KeysOf(p, versions[w].files[p])
  BY <1>1, <1>5, <1>6
<1>8. \A key \in KeysOf(p, versions[w].files[p]) : \E row \in builds[v].previous : row.key = key
  BY <1>1, <1>5
<1>9. {row.key : row \in At(builds[v].previous, p)} = KeysOf(p, versions[w].files[p])
  BY <1>1, <1>6, <1>7, <1>8 DEF At
<1> QED BY <1>1, <1>2, <1>9, SectionConstants DEF VersionNumbers

\* A committed row is of a section of the files, and of the version or of one before it.
LEMMA NewRowFacts ==
  ASSUME SectionIInv, NEW v \in VersionNumbers, builds[v].step # "none", Insertable(v, NewRows(v))
  PROVE  /\ NewRows(v) \subseteq SectionRows /\ \A row \in NewRows(v) : row.from \in 0..(v - 1)
         /\ IsWhole(versions[v].files, NewRows(v), sections \cup ToExtract(v))
<1>1. \A row \in NewRows(v) :
        \/ row.key \in ToExtract(v) /\ row = SectionRow(row.key, 0)
        \/ \E p \in Kept(v) : \E old \in At(builds[v].previous, p) :
              row = SectionRow(old.key, versions[v].over)
  BY DEF NewRows, SectionRow
<1>2. ToExtract(v) \subseteq SectionKey
  BY ExtractFacts DEF SectionIInv
<1>3. \A p : \A old \in At(builds[v].previous, p) : old.key \in SectionKey
  BY DEF SectionIInv, VersionShapes, SectionRows, At
<1>4. versions[v].over \in 0..(v - 1) /\ versions[v].over \in Nat /\ 0 \in 0..(v - 1)
  <2>1. versions[v].over \in 0..(v - 1)
    BY VersionFacts
  <2> QED BY <2>1, SectionConstants DEF VersionNumbers
<1>5. NewRows(v) \subseteq SectionRows /\ \A row \in NewRows(v) : row.from \in 0..(v - 1)
  BY <1>1, <1>2, <1>3, <1>4 DEF SectionRow, SectionRows
<1>6. \A row \in NewRows(v) : row.key \in UNION {KeysOf(p, versions[v].files[p]) : p \in Files}
  <2> TAKE row \in NewRows(v)
  <2>1. CASE row.key \in ToExtract(v)
    BY <2>1 DEF ToExtract
  <2>2. ASSUME NEW p \in Kept(v), NEW old \in At(builds[v].previous, p),
               row = SectionRow(old.key, versions[v].over)
        PROVE  row.key \in UNION {KeysOf(q, versions[v].files[q]) : q \in Files}
    <3>1. row.key = old.key /\ p \in Files
      BY <2>2 DEF SectionRow, Kept
    <3>2. old.key \in KeysOf(p, versions[v].files[p])
      BY KeptFacts
    <3> QED BY <3>1, <3>2
  <2> QED BY <1>1, <2>1, <2>2
<1>7. \A p \in Files : \A key \in KeysOf(p, versions[v].files[p]) : \E row \in NewRows(v) : row.key = key
  <2> TAKE p \in Files
  <2> TAKE key \in KeysOf(p, versions[v].files[p])
  <2>1. CASE p \in Kept(v)
    <3>1. PICK old \in At(builds[v].previous, p) : old.key = key
      BY <2>1, KeptFacts
    <3>2. SectionRow(old.key, versions[v].over) \in NewRows(v)
      BY <2>1, <3>1 DEF NewRows
    <3> QED BY <3>1, <3>2 DEF SectionRow
  <2>2. CASE p \notin Kept(v)
    <3>1. key \in ToExtract(v)
      BY <2>2 DEF ToExtract
    <3>2. SectionRow(key, 0) \in NewRows(v)
      BY <3>1 DEF NewRows
    <3> QED BY <3>2 DEF SectionRow
  <2> QED BY <2>1, <2>2
<1>8. {row.key : row \in NewRows(v)} = UNION {KeysOf(p, versions[v].files[p]) : p \in Files}
  BY <1>6, <1>7
<1>9. \A row \in NewRows(v) : row.key \in sections \cup ToExtract(v)
  BY DEF Insertable
<1> QED BY <1>5, <1>8, <1>9 DEF IsWhole

\* A worker commits the rows of its version at once.
LEMMA CommitBuildStep ==
  ASSUME SectionIInv, NEW v \in VersionNumbers, CommitBuild(v)
  PROVE  SectionIInv'
<1>0. versions[v] = [state |-> versions[v].state, deleted |-> versions[v].deleted,
                     over |-> versions[v].over, files |-> versions[v].files,
                     rows |-> versions[v].rows, counts |-> versions[v].counts]
  BY VersionFacts
<1>1. PICK new : new = [versions[v] EXCEPT !.state = "indexed", !.rows = NewRows(v), !.counts = Counts(v)]
  OBVIOUS
<1>2. /\ new.state = "indexed" /\ new.over = versions[v].over
      /\ new.files = versions[v].files /\ new.rows = NewRows(v)
      /\ new = [state |-> new.state, deleted |-> new.deleted, over |-> new.over,
                files |-> new.files, rows |-> new.rows, counts |-> new.counts]
  BY <1>0, <1>1
<1>3. /\ builds[v].step = "selected" /\ Insertable(v, NewRows(v))
      /\ sections' = sections \cup ToExtract(v)
      /\ builds' = [builds EXCEPT ![v] = NoBuild] /\ purges' = purges
  BY DEF CommitBuild
<1>4. versions' = [versions EXCEPT ![v] = new]
  BY <1>1 DEF CommitBuild
<1>5. versions[v].state = "running"
  BY <1>3 DEF SectionIInv, BuildsAreOfRuns
<1>6. /\ new.rows \subseteq SectionRows /\ \A row \in new.rows : row.from \in 0..(v - 1)
      /\ IsWhole(new.files, new.rows, sections')
  BY <1>2, <1>3, NewRowFacts
<1>7. \A w \in VersionNumbers \ {v} : \A row \in versions[w].rows : row.key \in sections'
  BY <1>3, VersionFacts
<1>8. sections' \subseteq SectionKey
  BY <1>3, VersionFacts, ExtractFacts DEF SectionIInv
<1>9. /\ new.over \in 0..(v - 1) /\ (new.over # 0 => versions[new.over].state # "none")
      /\ new.files \in [Files -> Texts \cup {Missing}]
  BY <1>2, VersionFacts
<1> QED BY <1>2, <1>3, <1>4, <1>5, <1>6, <1>7, <1>8, <1>9, VersionStep

\* A purge looks at the run of a version before it deletes anything.
LEMMA CheckPurgeStep ==
  ASSUME SectionIInv, NEW v \in VersionNumbers, CheckPurge(v)
  PROVE  SectionIInv'
<1>1. /\ versions' = versions /\ builds' = builds /\ sections' = sections
      /\ purges' = purges \cup {v}
  BY DEF CheckPurge
<1>2. versions[v].state \in {"indexed", "failed", "purged"}
  BY VersionFacts DEF CheckPurge, Present
<1>3. SectionTypeOK' /\ VersionShapes'
  BY <1>1 DEF SectionIInv, SectionTypeOK, VersionShapes
<1>4. BuildsAreOfRuns' /\ RowsAreOfCommits'
  BY <1>1, <1>2 DEF SectionIInv, BuildsAreOfRuns, RowsAreOfCommits
<1>5. PreviousIsOfOver' /\ VersionsAreWhole'
  BY <1>1 DEF SectionIInv, PreviousIsOfOver, VersionsAreWhole
<1> QED BY <1>3, <1>4, <1>5 DEF SectionIInv

\* A purge takes the files and the rows of a version whose run has ended.
LEMMA PurgeStep ==
  ASSUME SectionIInv, NEW v \in VersionNumbers, Purge(v)
  PROVE  SectionIInv'
<1>1. v \in purges /\ Present(v) /\ purges' = purges \ {v} /\ builds' = builds
  BY DEF Purge
<1>2. versions[v].state \in {"indexed", "failed"}
  BY <1>1 DEF SectionIInv, BuildsAreOfRuns, Present
<1>3. CASE UNCHANGED <<versions, sections>>
  <2>1. SectionTypeOK' /\ VersionShapes'
    BY <1>1, <1>3 DEF SectionIInv, SectionTypeOK, VersionShapes
  <2>2. BuildsAreOfRuns' /\ RowsAreOfCommits'
    BY <1>1, <1>3 DEF SectionIInv, BuildsAreOfRuns, RowsAreOfCommits
  <2>3. PreviousIsOfOver' /\ VersionsAreWhole'
    BY <1>1, <1>3 DEF SectionIInv, PreviousIsOfOver, VersionsAreWhole
  <2> QED BY <2>1, <2>2, <2>3 DEF SectionIInv
<1>4. ASSUME Purgeable(v), sections' = LeftSections(v),
             versions' = [versions EXCEPT ![v] =
                 [Unuploaded EXCEPT !.state = "purged", !.over = versions[v].over]]
      PROVE  SectionIInv'
  <2>1. PICK new : new = [Unuploaded EXCEPT !.state = "purged", !.over = versions[v].over]
    OBVIOUS
  <2>2. /\ new.state = "purged" /\ new.over = versions[v].over /\ new.rows = {}
        /\ new.files = [p \in Files |-> Missing]
        /\ new = [state |-> new.state, deleted |-> new.deleted, over |-> new.over,
                  files |-> new.files, rows |-> new.rows, counts |-> new.counts]
    BY <2>1 DEF Unuploaded
  <2>3. builds[v].step = "none"
    BY <1>2 DEF SectionIInv, BuildsAreOfRuns
  <2>4. \A w \in VersionNumbers \ {v} : \A row \in versions[w].rows : row.key \in sections'
    <3>1. \A w \in VersionNumbers \ {v} : \A row \in versions[w].rows : row.key \in sections
      BY VersionFacts
    <3>2. CASE v = FamilyRoot
      BY <1>4, <3>1, <3>2 DEF LeftSections
    <3>3. CASE v # FamilyRoot
      BY <1>4, <3>1, <3>3 DEF LeftSections
    <3> QED BY <3>2, <3>3
  <2>5. sections' \subseteq SectionKey
    BY <1>4, VersionFacts DEF LeftSections
  <2>6. new.over \in 0..(v - 1) /\ (new.over # 0 => versions[new.over].state # "none")
    BY <2>2, VersionFacts
  <2>7. versions' = [versions EXCEPT ![v] = new]
    BY <1>4, <2>1
  <2> QED BY <1>1, <1>2, <2>2, <2>3, <2>4, <2>5, <2>6, <2>7, VersionStep
<1> QED BY <1>3, <1>4 DEF Purge

\* Every state of the section protocol satisfies its inductive invariant, for any files,
\* texts and number of versions.
THEOREM SectionInvariance == SectionSpec => []SectionIInv
<1>1. SectionIInv /\ [SectionNext]_sectionVars => SectionIInv'
  <2> SUFFICES ASSUME SectionIInv, [SectionNext]_sectionVars PROVE SectionIInv'
    OBVIOUS
  <2>1. CASE UNCHANGED sectionVars
    <3>1. versions' = versions /\ builds' = builds /\ sections' = sections /\ purges' = purges
      BY <2>1 DEF sectionVars
    <3>2. SectionTypeOK' /\ VersionShapes'
      BY <3>1 DEF SectionIInv, SectionTypeOK, VersionShapes
    <3>3. BuildsAreOfRuns' /\ RowsAreOfCommits'
      BY <3>1 DEF SectionIInv, BuildsAreOfRuns, RowsAreOfCommits
    <3>4. PreviousIsOfOver' /\ VersionsAreWhole'
      BY <3>1 DEF SectionIInv, PreviousIsOfOver, VersionsAreWhole
    <3> QED BY <3>2, <3>3, <3>4 DEF SectionIInv
  <2>2. CASE SectionNext
    BY <2>2, UploadVersionStep, ToggleDeletedStep, ReadPreviousStep, SelectKnownStep,
       CommitBuildStep, FailBuildStep, CheckPurgeStep, PurgeStep DEF SectionNext
  <2> QED BY <2>1, <2>2
<1> QED BY <1>1, SectionInitially, PTL DEF SectionSpec

\* An indexed version has exactly the sections of its files, each with a text the table
\* has, whatever was superseded, hidden or purged meanwhile.
THEOREM SectionsStayWhole == SectionSpec => [](SectionTypeOK /\ VersionsAreWhole)
<1>1. SectionIInv => SectionTypeOK /\ VersionsAreWhole
  BY DEF SectionIInv
<1> QED BY <1>1, SectionInvariance, PTL

-----------------------------------------------------------------------------
(* Sections of bundle versions: what a version reports as lost *)

\* Two rows of a snapshot are of two sections.
OneOfEach(rows) ==
    IsFiniteSet(rows) /\ \A row \in rows, other \in rows : row.key = other.key => row = other

\* That is so of what is stored and of what a worker has read.
RowsAreDistinct ==
    \A v \in VersionNumbers : OneOfEach(versions[v].rows) /\ OneOfEach(builds[v].previous)

\* An image of a finite set is finite, and no larger.
LEMMA ImageFacts ==
  ASSUME NEW S, IsFiniteSet(S), NEW f, NEW T, T = {f[x] : x \in S}
  PROVE  IsFiniteSet(T) /\ Cardinality(T) <= Cardinality(S)
<1>1. [x \in S |-> f[x]] \in Surjection(S, T)
  BY DEF Surjection
<1> QED BY <1>1, FS_Surjection

\* A finite set fits into one that is no smaller.
LEMMA SmallerFits ==
  ASSUME NEW S, IsFiniteSet(S), NEW T, IsFiniteSet(T), Cardinality(S) <= Cardinality(T)
  PROVE  Injection(S, T) # {}
<1>1. PICK n \in Nat : n = Cardinality(S)
  BY FS_CardinalityType
<1>2. PICK m \in Nat : m = Cardinality(T)
  BY FS_CardinalityType
<1>3. ExistsBijection(1..n, S) /\ ExistsBijection(1..m, T)
  BY <1>1, <1>2, FS_CardinalityType
<1>4. ExistsInjection(S, 1..n)
  BY <1>3, Fun_ExistsBijEquiv
<1>5. ExistsInjection(1..m, T)
  BY <1>3, Fun_ExistsBijEquiv
<1>6. ExistsInjection(1..n, 1..m)
  BY <1>1, <1>2, Fun_NatInjLeq
<1>7. ExistsInjection(S, 1..m)
  BY <1>4, <1>6, Fun_ExistsInjTransitive
<1>8. ExistsInjection(S, T)
  BY <1>5, <1>7, Fun_ExistsInjTransitive
<1> QED BY <1>8 DEF ExistsInjection

\* T has no fewer members than S of each kind that S has.
NoMore(S, T, kindS, kindT) ==
    \A s \in S : Cardinality({x \in S : kindS[x] = kindS[s]})
                    <= Cardinality({y \in T : kindT[y] = kindS[s]})

\* A set with no more of any kind has no more members.
LEMMA NoMoreOfAKind ==
  ASSUME NEW S, IsFiniteSet(S), NEW T, IsFiniteSet(T), NEW kindS, NEW kindT, NoMore(S, T, kindS, kindT)
  PROVE  Cardinality(S) <= Cardinality(T)
<1> DEFINE A(k) == {x \in S : kindS[x] = k}
           B(k) == {y \in T : kindT[y] = k}
           g(k) == CHOOSE f : f \in Injection(A(k), B(k))
           h == [x \in S |-> g(kindS[x])[x]]
<1>1. ASSUME NEW s \in S
      PROVE  g(kindS[s]) \in Injection(A(kindS[s]), B(kindS[s]))
  <2>1. IsFiniteSet(A(kindS[s])) /\ IsFiniteSet(B(kindS[s]))
    BY FS_Subset
  <2>2. Cardinality(A(kindS[s])) <= Cardinality(B(kindS[s]))
    BY DEF NoMore
  <2> HIDE DEF A, B
  <2>3. Injection(A(kindS[s]), B(kindS[s])) # {}
    BY <2>1, <2>2, SmallerFits
  <2> QED BY <2>3
<1>2. ASSUME NEW s \in S
      PROVE  h[s] \in T /\ kindT[h[s]] = kindS[s]
  <2>1. PICK f \in Injection(A(kindS[s]), B(kindS[s])) : f = g(kindS[s])
    <3> HIDE DEF g, A, B
    <3> QED BY <1>1
  <2>2. s \in A(kindS[s])
    OBVIOUS
  <2>3. h[s] = f[s]
    <3> HIDE DEF g
    <3> QED BY <2>1
  <2>4. f[s] \in B(kindS[s])
    <3> HIDE DEF A, B
    <3> QED BY <2>1, <2>2 DEF Injection
  <2> HIDE DEF h, g
  <2> QED BY <2>3, <2>4
<1>3. ASSUME NEW s \in S, NEW t \in S, h[s] = h[t]
      PROVE  s = t
  <2>1. kindS[s] = kindS[t]
    <3> HIDE DEF h
    <3> QED BY <1>2, <1>3
  <2>2. PICK f \in Injection(A(kindS[s]), B(kindS[s])) : f = g(kindS[s])
    <3> HIDE DEF g, A, B
    <3> QED BY <1>1
  <2>3. s \in A(kindS[s]) /\ t \in A(kindS[s])
    BY <2>1
  <2>4. h[s] = f[s] /\ h[t] = f[t]
    <3> HIDE DEF g
    <3> QED BY <2>1, <2>2
  <2>5. f[s] = f[t]
    <3> HIDE DEF h, g, A, B
    <3> QED BY <1>3, <2>4
  <2> HIDE DEF h, g, A, B
  <2> QED BY <2>2, <2>3, <2>5 DEF Injection, IsInjective
<1>4. h \in [S -> T]
  <2>1. \A s \in S : h[s] \in T
    <3> HIDE DEF h
    <3> QED BY <1>2
  <2>2. h = [s \in S |-> h[s]]
    OBVIOUS
  <2> HIDE DEF h
  <2> QED BY <2>1, <2>2
<1>5. h \in Injection(S, T)
  <2> HIDE DEF h
  <2> QED BY <1>3, <1>4 DEF Injection, IsInjective
<1> HIDE DEF h
<1> QED BY <1>5, FS_Injection

\* The key of a place in a text.
KeyAt(p, text, i) == [path |-> p, hash |-> text[i], ordinal |-> i]

\* The keys of the places up to i.
KeysUpTo(p, text, i) == {KeyAt(p, text, j) : j \in 1..i}

\* What the extracted places up to i have claimed.
ClaimedAlong(p, text, previous, g) ==
    g = [i \in 0..Len(text) |->
            IF i = 0 THEN {} ELSE g[i - 1] \cup Claimed(KeyAt(p, text, i), previous, g[i - 1])]

LEMMA KeysOfAText ==
  ASSUME NEW p \in Files, NEW text \in Texts
  PROVE  /\ text \in Seq(Nat) /\ Len(text) \in Nat /\ DOMAIN text = 1..Len(text)
         /\ \A i \in 1..Len(text) : text[i] \in Nat /\ KeyAt(p, text, i) \in SectionKey
         /\ KeysOf(p, text) = KeysUpTo(p, text, Len(text))
         /\ IsFiniteSet(KeysOf(p, text))
<1>1. text # Missing /\ text \in Seq(Nat)
  BY SectionConstants
<1>2. Len(text) \in Nat /\ DOMAIN text = 1..Len(text) /\ \A i \in 1..Len(text) : text[i] \in Nat /\ i \in Nat
  BY <1>1
<1>3. \A i \in 1..Len(text) : KeyAt(p, text, i) \in SectionKey
  BY <1>2 DEF KeyAt, SectionKey
<1>4. KeysOf(p, text) = KeysUpTo(p, text, Len(text))
  BY <1>1, <1>2 DEF KeysOf, KeysUpTo, KeyAt
<1>5. PICK f : f = [i \in 1..Len(text) |-> KeyAt(p, text, i)]
  OBVIOUS
<1>6. KeysUpTo(p, text, Len(text)) = {f[i] : i \in 1..Len(text)}
  BY <1>5 DEF KeysUpTo
<1>7. IsFiniteSet(1..Len(text))
  BY <1>2, FS_Interval
<1>8. IsFiniteSet(KeysUpTo(p, text, Len(text)))
  BY <1>6, <1>7, ImageFacts
<1> QED BY <1>1, <1>2, <1>3, <1>4, <1>8

\* A place claims at most one section, of its own text, and its own when it is there.
LEMMA ClaimedFacts ==
  ASSUME NEW p \in Files, NEW text \in Texts, NEW i \in 1..Len(text), NEW previous \in SUBSET SectionKey,
         NEW taken, NEW claimed, claimed = Claimed(KeyAt(p, text, i), previous, taken)
  PROVE  /\ claimed \subseteq OfText(previous, p, text[i])
         /\ KeyAt(p, text, i) \in previous => KeyAt(p, text, i) \in claimed
         /\ \A k \in claimed, l \in claimed : k = l
<1> DEFINE key == KeyAt(p, text, i)
           free == {l \in previous \ taken : l.path = p /\ l.hash = text[i]}
<1>1. key.path = p /\ key.hash = text[i]
  BY DEF KeyAt
<1>2. CASE key \in previous
  <2>1. claimed = {key}
    BY <1>2 DEF Claimed
  <2>2. PICK k \in previous : k = key
    BY <1>2
  <2>3. claimed = {k} /\ k.path = p /\ k.hash = text[i]
    BY <1>1, <2>1, <2>2
  <2> HIDE DEF key
  <2>4. claimed \subseteq OfText(previous, p, text[i])
    BY <2>3 DEF OfText
  <2>5. key \in previous => key \in claimed
    BY <2>2, <2>3
  <2> QED BY <2>3, <2>4, <2>5 DEF key
<1>3. CASE key \notin previous
  <2>1. claimed = {l \in free : \A other \in free : l.ordinal <= other.ordinal}
    BY <1>1, <1>3 DEF Claimed
  <2>2. claimed \subseteq OfText(previous, p, text[i])
    BY <2>1 DEF OfText
  <2>3. ASSUME NEW k \in claimed, NEW l \in claimed
        PROVE  k = l
    <3>1. /\ k \in SectionKey /\ l \in SectionKey /\ k.path = l.path /\ k.hash = l.hash
          /\ k.ordinal <= l.ordinal /\ l.ordinal <= k.ordinal
      BY <2>1, <2>3
    <3>2. k.ordinal = l.ordinal
      <4>1. k.ordinal \in Nat /\ l.ordinal \in Nat
        BY <3>1 DEF SectionKey
      <4> QED BY <3>1, <4>1
    <3> QED BY <3>1, <3>2 DEF SectionKey
  <2> QED BY <1>3, <2>2, <2>3
<1> QED BY <1>2, <1>3

LEMMA ClaimedBefore ==
  ASSUME NEW p \in Files, NEW text \in Texts, NEW i \in 1..Len(text), NEW previous \in SUBSET SectionKey,
         NEW taken
  PROVE  Claimed(KeyAt(p, text, i), previous, taken) \subseteq previous
<1>1. PICK claimed : claimed = Claimed(KeyAt(p, text, i), previous, taken)
  OBVIOUS
<1>2. claimed \subseteq OfText(previous, p, text[i])
  BY <1>1, ClaimedFacts
<1> QED BY <1>1, <1>2 DEF OfText

\* One place more: as many keys of a text, or one more of its own.
LEMMA OnePlaceMore ==
  ASSUME NEW p \in Files, NEW text \in Texts, NEW i \in 1..Len(text), NEW h,
         NEW old, old = OfText(KeysUpTo(p, text, i - 1), p, h),
         NEW new, new = OfText(KeysUpTo(p, text, i), p, h)
  PROVE  /\ IsFiniteSet(old) /\ Cardinality(old) \in Nat
         /\ IsFiniteSet(new) /\ Cardinality(new) \in Nat
         /\ h # text[i] => Cardinality(new) = Cardinality(old)
         /\ h = text[i] => Cardinality(new) = Cardinality(old) + 1
<1>1. Len(text) \in Nat /\ i \in Nat /\ i - 1 \in 0..Len(text)
  BY KeysOfAText
<1>2. \A j \in 1..i : j \in 1..(i - 1) \/ j = i
  BY <1>1
<1>3. \A j \in 1..(i - 1) : j \in 1..i /\ j # i /\ j \in 1..Len(text)
  BY <1>1
<1>4. KeysUpTo(p, text, i) = KeysUpTo(p, text, i - 1) \cup {KeyAt(p, text, i)}
  <2>1. i \in 1..i
    BY <1>1
  <2> QED BY <1>2, <1>3, <2>1 DEF KeysUpTo
<1>5. KeyAt(p, text, i) \notin KeysUpTo(p, text, i - 1)
  <2>1. \A j \in 1..(i - 1) : KeyAt(p, text, j).ordinal = j
    BY DEF KeyAt
  <2>2. KeyAt(p, text, i).ordinal = i
    BY DEF KeyAt
  <2> QED BY <1>3, <2>1, <2>2 DEF KeysUpTo
<1>6. KeyAt(p, text, i).path = p /\ KeyAt(p, text, i).hash = text[i]
  BY DEF KeyAt
<1>7. IsFiniteSet(old)
  <2>1. KeysUpTo(p, text, i - 1) \subseteq KeysOf(p, text)
    BY <1>3, KeysOfAText DEF KeysUpTo
  <2>2. old \subseteq KeysOf(p, text)
    BY <2>1 DEF OfText
  <2> QED BY <2>2, KeysOfAText, FS_Subset
<1>8. h # text[i] => new = old
  BY <1>4, <1>6 DEF OfText
<1>9. h = text[i] => new = old \cup {KeyAt(p, text, i)}
  BY <1>4, <1>6 DEF OfText
<1>10. KeyAt(p, text, i) \notin old
  BY <1>5 DEF OfText
<1>11. Cardinality(old) \in Nat
  BY <1>7, FS_CardinalityType
<1>12. h = text[i] => IsFiniteSet(new) /\ Cardinality(new) = Cardinality(old) + 1
  BY <1>7, <1>9, <1>10, FS_AddElement
<1> QED BY <1>7, <1>8, <1>11, <1>12

\* What is claimed along a text: sections of the version before, no more of one text than
\* stand in the new one, and all that stand where they stood.
ClaimedUntil(claimed, p, text, previous, i) ==
    /\ claimed \subseteq previous
    /\ \A j \in 1..i : KeyAt(p, text, j) \in previous => KeyAt(p, text, j) \in claimed
    /\ \A h \in Nat : Cardinality(OfText(claimed, p, h)) <= Cardinality(OfText(KeysUpTo(p, text, i), p, h))

LEMMA ClaimedStep ==
  ASSUME NEW p \in Files, NEW text \in Texts, NEW i \in 1..Len(text), NEW previous \in SUBSET SectionKey,
         IsFiniteSet(previous), NEW before, ClaimedUntil(before, p, text, previous, i - 1),
         NEW claimed, claimed = Claimed(KeyAt(p, text, i), previous, before),
         NEW after, after = before \cup claimed
  PROVE  ClaimedUntil(after, p, text, previous, i)
<1>1. /\ claimed \subseteq OfText(previous, p, text[i])
      /\ KeyAt(p, text, i) \in previous => KeyAt(p, text, i) \in claimed
      /\ \A k \in claimed, l \in claimed : k = l
  BY ClaimedFacts
<1>2. before \subseteq previous /\ \A j \in 1..(i - 1) : KeyAt(p, text, j) \in previous => KeyAt(p, text, j) \in before
  BY DEF ClaimedUntil
<1>3. after \subseteq previous
  BY <1>1, <1>2 DEF OfText
<1>4. \A j \in 1..i : j \in 1..(i - 1) \/ j = i
  BY KeysOfAText
<1>5. \A j \in 1..i : KeyAt(p, text, j) \in previous => KeyAt(p, text, j) \in after
  BY <1>1, <1>2, <1>4
<1>6. ASSUME NEW h \in Nat
      PROVE  Cardinality(OfText(after, p, h)) <= Cardinality(OfText(KeysUpTo(p, text, i), p, h))
  <2>1. PICK old : old = OfText(KeysUpTo(p, text, i - 1), p, h)
    OBVIOUS
  <2>2. PICK new : new = OfText(KeysUpTo(p, text, i), p, h)
    OBVIOUS
  <2>3. /\ Cardinality(old) \in Nat /\ Cardinality(new) \in Nat
        /\ h # text[i] => Cardinality(new) = Cardinality(old)
        /\ h = text[i] => Cardinality(new) = Cardinality(old) + 1
    BY <2>1, <2>2, OnePlaceMore
  <2>4. Cardinality(OfText(before, p, h)) <= Cardinality(old)
    BY <2>1 DEF ClaimedUntil
  <2>5. IsFiniteSet(OfText(before, p, h))
    <3>1. OfText(before, p, h) \subseteq previous
      BY <1>2 DEF OfText
    <3> QED BY <3>1, FS_Subset
  <2>6. PICK m \in Nat : m = Cardinality(OfText(before, p, h))
    BY <2>5, FS_CardinalityType
  <2>7. CASE h # text[i] \/ claimed = {}
    <3>1. OfText(after, p, h) = OfText(before, p, h)
      BY <1>1, <2>7 DEF OfText
    <3>2. Cardinality(old) <= Cardinality(new)
      BY <2>3
    <3>3. m <= Cardinality(new)
      BY <2>3, <2>4, <2>6, <3>2
    <3> QED BY <2>2, <2>6, <3>1, <3>3
  <2>8. CASE h = text[i] /\ claimed # {}
    <3>1. PICK k \in claimed : claimed = {k}
      BY <1>1, <2>8
    <3>2. k.path = p /\ k.hash = h
      BY <1>1, <2>8, <3>1 DEF OfText
    <3>3. OfText(after, p, h) = OfText(before, p, h) \cup {k}
      BY <3>1, <3>2 DEF OfText
    <3>4. Cardinality(OfText(after, p, h)) = m \/ Cardinality(OfText(after, p, h)) = m + 1
      <4>1. PICK S : S = OfText(before, p, h)
        OBVIOUS
      <4>2. IsFiniteSet(S) /\ Cardinality(S) = m
        BY <2>5, <2>6, <4>1
      <4>3. Cardinality(S \cup {k}) = IF k \in S THEN m ELSE m + 1
        BY <4>2, FS_AddElement
      <4> QED BY <3>3, <4>1, <4>3
    <3>5. m + 1 <= Cardinality(new) /\ m <= Cardinality(new)
      BY <2>3, <2>4, <2>6, <2>8
    <3> QED BY <2>2, <3>4, <3>5
  <2> QED BY <2>7, <2>8
<1> QED BY <1>3, <1>5, <1>6 DEF ClaimedUntil

\* What is claimed in the end.
LEMMA ClaimedInTheEnd ==
  ASSUME NEW p \in Files, NEW text \in Texts, NEW previous \in SUBSET SectionKey, IsFiniteSet(previous),
         NEW g, g = CHOOSE f : ClaimedAlong(p, text, previous, f)
  PROVE  ClaimedUntil(g[Len(text)], p, text, previous, Len(text))
<1> DEFINE n == Len(text)
           X == SUBSET previous
           step == [q \in (1..n) \X X |-> q[2] \cup Claimed(KeyAt(p, text, q[1]), previous, q[2])]
<1>0. n \in Nat
  BY KeysOfAText
<1>1. step \in Steps(n, X)
  <2>1. ASSUME NEW q \in (1..n) \X X
        PROVE  q[2] \cup Claimed(KeyAt(p, text, q[1]), previous, q[2]) \in X
    <3>1. q[2] \in X /\ q[1] \in 1..n
      BY <2>1
    <3>2. PICK i \in 1..Len(text) : i = q[1]
      BY <3>1
    <3>3. PICK taken \in X : taken = q[2]
      BY <3>1
    <3>4. Claimed(KeyAt(p, text, i), previous, taken) \subseteq previous
      BY ClaimedBefore
    <3> QED BY <3>1, <3>2, <3>3, <3>4
  <2> QED BY <2>1 DEF Steps
<1>2. \A i \in 1..n, x \in X : step[<<i, x>>] = x \cup Claimed(KeyAt(p, text, i), previous, x)
  OBVIOUS
<1>3. {} \in X
  OBVIOUS
<1> HIDE DEF step, n, X
<1>4. PICK s : Unfolds(s, n, X, {}, step)
  BY <1>0, <1>1, <1>3, StepByStep
<1>5. s \in [0..n -> X] /\ s[0] = {} /\ \A i \in 1..n : s[i] = step[<<i, s[i - 1]>>]
  BY <1>4 DEF Unfolds
<1>6. ClaimedAlong(p, text, previous, s)
  <2>1. s = [i \in 0..n |-> s[i]]
    BY <1>5
  <2>2. \A i \in 0..n : s[i] = IF i = 0 THEN {} ELSE s[i - 1] \cup Claimed(KeyAt(p, text, i), previous, s[i - 1])
    <3> TAKE i \in 0..n
    <3>1. i # 0 => i \in 1..n /\ s[i - 1] \in X
      BY <1>0, <1>5
    <3> QED BY <1>2, <1>5, <3>1
  <2>3. s = [i \in 0..n |-> IF i = 0 THEN {} ELSE s[i - 1] \cup Claimed(KeyAt(p, text, i), previous, s[i - 1])]
    BY <2>1, <2>2
  <2> QED BY <2>3 DEF ClaimedAlong, n
<1>7. ClaimedAlong(p, text, previous, g)
  BY <1>6
<1>8. \A i \in 0..n : g[i] = IF i = 0 THEN {} ELSE g[i - 1] \cup Claimed(KeyAt(p, text, i), previous, g[i - 1])
  BY <1>7 DEF ClaimedAlong, n
<1> DEFINE holds == [i \in 0..n |-> ClaimedUntil(g[i], p, text, previous, i)]
<1>9. holds \in [0..n -> BOOLEAN]
  BY DEF ClaimedUntil
<1>10. holds[0]
  <2>1. 0 \in 0..n /\ g[0] = {}
    <3>1. 0 \in 0..n
      BY <1>0
    <3> QED BY <1>8, <3>1
  <2>2. ClaimedUntil({}, p, text, previous, 0)
    <3>1. ASSUME NEW h \in Nat
          PROVE  Cardinality(OfText({}, p, h)) <= Cardinality(OfText(KeysUpTo(p, text, 0), p, h))
      <4>1. OfText({}, p, h) = {} /\ OfText(KeysUpTo(p, text, 0), p, h) = {}
        BY DEF OfText, KeysUpTo
      <4>2. Cardinality({}) = 0
        BY FS_EmptySet
      <4> QED BY <4>1, <4>2
    <3> QED BY <3>1 DEF ClaimedUntil
  <2> QED BY <2>1, <2>2
<1>11. ASSUME NEW i \in 1..n, holds[i - 1]
       PROVE  holds[i]
  <2>1. i - 1 \in 0..n /\ i \in 0..n /\ i # 0 /\ i \in 1..Len(text)
    BY <1>0 DEF n
  <2>2. ClaimedUntil(g[i - 1], p, text, previous, i - 1)
    BY <1>11, <2>1
  <2>3. PICK before : before = g[i - 1]
    OBVIOUS
  <2>4. PICK claimed : claimed = Claimed(KeyAt(p, text, i), previous, before)
    OBVIOUS
  <2>5. g[i] = before \cup claimed
    BY <1>8, <2>1, <2>3, <2>4
  <2>6. ClaimedUntil(before \cup claimed, p, text, previous, i)
    BY <2>1, <2>2, <2>3, <2>4, ClaimedStep
  <2> QED BY <2>1, <2>5, <2>6
<1> HIDE DEF holds
<1>12. \A i \in 0..n : holds[i]
  BY <1>0, <1>9, <1>10, <1>11, HoldsAll
<1>13. n \in 0..n
  BY <1>0
<1> QED BY <1>12, <1>13 DEF holds, n

\* The sections a worker has read, those of one file, and those of its own file.
KeysBefore(v) == {row.key : row \in builds[v].previous}
KeysBeforeAt(v, p) == {row.key : row \in At(builds[v].previous, p)}
OwnKeys(v, p) == KeysOf(p, versions[v].files[p])

\* What the commit stores, and what it counts as absent.
KeysNow(v) == {row.key : row \in NewRows(v)}
AbsentKeys(v) == KeysBefore(v) \ UNION {MappedAt(v, p) : p \in Files}

\* There are finitely many keys of finitely many rows.
LEMMA KeysOfRows ==
  ASSUME NEW rows, IsFiniteSet(rows)
  PROVE  IsFiniteSet({row.key : row \in rows})
<1>1. PICK f : f = [row \in rows |-> row.key]
  OBVIOUS
<1>2. PICK image : image = {f[row] : row \in rows}
  OBVIOUS
<1>3. IsFiniteSet(image)
  BY <1>2, ImageFacts
<1>4. image = {row.key : row \in rows}
  BY <1>1, <1>2
<1> QED BY <1>3, <1>4

\* The sections of the version before that a file's own sections continue.
LEMMA MappedFacts ==
  ASSUME SectionIInv, RowsAreDistinct, NEW v \in VersionNumbers, builds[v].step # "none", NEW p \in Files
  PROVE  /\ MappedAt(v, p) \subseteq KeysBeforeAt(v, p)
         /\ KeysBeforeAt(v, p) \cap OwnKeys(v, p) \subseteq MappedAt(v, p)
         /\ versions[v].files[p] = Missing => MappedAt(v, p) = {}
         /\ \A h \in Nat : Cardinality(OfText(MappedAt(v, p), p, h)) <= Cardinality(OfText(OwnKeys(v, p), p, h))
<1>a. PICK previous : previous = KeysBeforeAt(v, p)
  OBVIOUS
<1>b. PICK own : own = OwnKeys(v, p)
  OBVIOUS
<1>1. PICK text \in Texts \cup {Missing} : text = versions[v].files[p]
  BY VersionFacts
<1>2. PICK rows : rows = At(builds[v].previous, p)
  OBVIOUS
<1>3. rows \subseteq SectionRows /\ IsFiniteSet(rows)
  <2>1. builds[v].previous \subseteq SectionRows /\ IsFiniteSet(builds[v].previous)
    BY DEF SectionIInv, VersionShapes, RowsAreDistinct, OneOfEach
  <2>2. rows \subseteq builds[v].previous
    BY <1>2 DEF At
  <2> QED BY <2>1, <2>2, FS_Subset
<1>4. previous \in SUBSET SectionKey /\ IsFiniteSet(previous)
  <2>1. previous = {row.key : row \in rows}
    BY <1>a, <1>2 DEF KeysBeforeAt
  <2>2. IsFiniteSet(previous)
    BY <1>3, <2>1, KeysOfRows
  <2>3. previous \subseteq SectionKey
    BY <1>3, <2>1 DEF SectionRows
  <2> QED BY <2>2, <2>3
<1>5. CASE text = Missing
  <2>1. MappedAt(v, p) = {} /\ own = {}
    BY <1>b, <1>1, <1>5 DEF MappedAt, KeysOf, OwnKeys
  <2>2. \A h : OfText({}, p, h) = {}
    BY DEF OfText
  <2>3. Cardinality({}) <= Cardinality({})
    BY FS_EmptySet
  <2> QED BY <1>a, <1>b, <2>1, <2>2, <2>3
<1>6. CASE text # Missing /\ Unchanged(v, p)
  <2>1. MappedAt(v, p) = previous
    BY <1>a, <1>1, <1>6 DEF MappedAt, KeysBeforeAt
  <2>2. p \in Kept(v)
    BY <1>6 DEF Kept
  <2>3. own = previous
    BY <1>a, <1>b, <2>2, KeptFacts DEF KeysBeforeAt, OwnKeys
  <2>4. ASSUME NEW h \in Nat
        PROVE  Cardinality(OfText(previous, p, h)) <= Cardinality(OfText(previous, p, h))
    <3>1. OfText(previous, p, h) \subseteq previous
      BY DEF OfText
    <3>2. IsFiniteSet(OfText(previous, p, h))
      BY <1>4, <3>1, FS_Subset
    <3>3. Cardinality(OfText(previous, p, h)) \in Nat
      BY <3>2, FS_CardinalityType
    <3> QED BY <3>3
  <2> QED BY <1>a, <1>b, <1>1, <1>6, <2>1, <2>3, <2>4
<1>7. CASE text # Missing /\ ~Unchanged(v, p)
  <2>1. text \in Texts
    BY <1>7
  <2>2. PICK g : g = CHOOSE f : ClaimedAlong(p, text, previous, f)
    OBVIOUS
  <2>3. MappedAt(v, p) = g[Len(text)]
    BY <1>a, <1>1, <1>7, <2>2 DEF MappedAt, KeysBeforeAt, ClaimedAlong, KeyAt
  <2>4. ClaimedUntil(g[Len(text)], p, text, previous, Len(text))
    BY <1>4, <2>1, <2>2, ClaimedInTheEnd
  <2>5. own = KeysUpTo(p, text, Len(text))
    BY <1>b, <1>1, <2>1, KeysOfAText DEF OwnKeys
  <2>6. previous \cap own \subseteq g[Len(text)]
    BY <2>4, <2>5 DEF ClaimedUntil, KeysUpTo
  <2>7. g[Len(text)] \subseteq previous
    BY <2>4 DEF ClaimedUntil
  <2>8. \A h \in Nat : Cardinality(OfText(g[Len(text)], p, h)) <= Cardinality(OfText(own, p, h))
    BY <2>4, <2>5 DEF ClaimedUntil
  <2> QED BY <1>a, <1>b, <1>1, <1>7, <2>3, <2>6, <2>7, <2>8
<1> QED BY <1>5, <1>6, <1>7

\* The occurrences that are lost, and how many there are of one text.
LEMMA LostFacts ==
  ASSUME NEW before \in SUBSET SectionKey, IsFiniteSet(before), NEW now, IsFiniteSet(now),
         NEW lost, lost = LostTexts(before, now)
  PROVE  /\ IsFiniteSet(lost)
         /\ \A x \in lost : \E key \in before :
              /\ x[1] = key.path /\ x[2] = key.hash
              /\ LET a == Cardinality(OfText(now, key.path, key.hash))
                     b == Cardinality(OfText(before, key.path, key.hash))
                 IN  /\ a \in Nat /\ b \in Nat /\ a < b
                     /\ Cardinality({y \in lost : <<y[1], y[2]>> = <<x[1], x[2]>>}) <= b - a
<1> DEFINE a(key) == Cardinality(OfText(now, key.path, key.hash))
           b(key) == Cardinality(OfText(before, key.path, key.hash))
           of == [key \in before |-> {<<key.path, key.hash, n>> : n \in (a(key) + 1)..b(key)}]
<1>1. \A key \in before : a(key) \in Nat /\ b(key) \in Nat
  <2> TAKE key \in before
  <2>1. OfText(now, key.path, key.hash) \subseteq now /\ OfText(before, key.path, key.hash) \subseteq before
    BY DEF OfText
  <2>2. IsFiniteSet(OfText(now, key.path, key.hash)) /\ IsFiniteSet(OfText(before, key.path, key.hash))
    BY <2>1, FS_Subset
  <2> QED BY <2>2, FS_CardinalityType
<1>2. lost = UNION {of[key] : key \in before}
  BY DEF LostTexts
<1>3. \A key \in before : of[key] = {<<key.path, key.hash, n>> : n \in (a(key) + 1)..b(key)}
  OBVIOUS
<1> HIDE DEF a, b, of
<1>4. \A key \in before :
        /\ IsFiniteSet((a(key) + 1)..b(key))
        /\ a(key) < b(key) => Cardinality((a(key) + 1)..b(key)) = b(key) - a(key)
  <2> TAKE key \in before
  <2>1. PICK i \in Nat : i = a(key)
    BY <1>1
  <2>2. PICK j \in Nat : j = b(key)
    BY <1>1
  <2>3. i + 1 \in Int /\ j \in Int
    OBVIOUS
  <2>4. IsFiniteSet((i + 1)..j) /\ Cardinality((i + 1)..j) = IF i + 1 > j THEN 0 ELSE j - (i + 1) + 1
    BY <2>3, FS_Interval
  <2>5. i < j => Cardinality((i + 1)..j) = j - i
    BY <2>4
  <2> QED BY <2>1, <2>2, <2>4, <2>5
<1>5. \A key \in before :
        /\ IsFiniteSet(of[key])
        /\ a(key) < b(key) => Cardinality(of[key]) <= b(key) - a(key)
  <2> TAKE key \in before
  <2>1. PICK f : f = [n \in (a(key) + 1)..b(key) |-> <<key.path, key.hash, n>>]
    OBVIOUS
  <2>2. of[key] = {f[n] : n \in (a(key) + 1)..b(key)}
    BY <1>3, <2>1
  <2>3. IsFiniteSet(of[key]) /\ Cardinality(of[key]) <= Cardinality((a(key) + 1)..b(key))
    BY <1>4, <2>2, ImageFacts
  <2> QED BY <1>4, <2>3
<1>6. IsFiniteSet(lost)
  <2>1. IsFiniteSet({of[key] : key \in before})
    BY ImageFacts
  <2> QED BY <1>2, <1>5, <2>1, FS_UNION
<1>7. ASSUME NEW x \in lost
      PROVE  \E key \in before :
               /\ x[1] = key.path /\ x[2] = key.hash /\ a(key) < b(key)
               /\ Cardinality({y \in lost : <<y[1], y[2]>> = <<x[1], x[2]>>}) <= b(key) - a(key)
  <2>1. PICK key \in before : x \in of[key]
    BY <1>2
  <2>2. PICK n \in (a(key) + 1)..b(key) : x = <<key.path, key.hash, n>>
    BY <1>3, <2>1
  <2>3. x[1] = key.path /\ x[2] = key.hash
    BY <2>2
  <2>4. a(key) < b(key)
    BY <1>1, <2>2
  <2>5. {y \in lost : <<y[1], y[2]>> = <<x[1], x[2]>>} \subseteq of[key]
    <3> SUFFICES ASSUME NEW y \in lost, y[1] = x[1], y[2] = x[2]
                 PROVE  y \in of[key]
      OBVIOUS
    <3>1. PICK other \in before : y \in of[other]
      BY <1>2
    <3>2. PICK m \in (a(other) + 1)..b(other) : y = <<other.path, other.hash, m>>
      BY <1>3, <3>1
    <3>3. other.path = key.path /\ other.hash = key.hash
      BY <2>3, <3>2
    <3>4. a(other) = a(key) /\ b(other) = b(key)
      BY <3>3 DEF a, b
    <3> QED BY <1>3, <3>2, <3>3, <3>4
  <2>6. Cardinality({y \in lost : <<y[1], y[2]>> = <<x[1], x[2]>>}) <= Cardinality(of[key])
    BY <1>5, <2>5, FS_Subset
  <2>7. Cardinality(of[key]) <= b(key) - a(key)
    BY <1>5, <2>4
  <2>8. IsFiniteSet({y \in lost : <<y[1], y[2]>> = <<x[1], x[2]>>})
    BY <1>5, <2>5, FS_Subset
  <2>9. /\ Cardinality({y \in lost : <<y[1], y[2]>> = <<x[1], x[2]>>}) \in Nat
        /\ Cardinality(of[key]) \in Nat /\ b(key) - a(key) \in Int
    BY <1>1, <1>5, <2>8, FS_CardinalityType
  <2>10. Cardinality({y \in lost : <<y[1], y[2]>> = <<x[1], x[2]>>}) <= b(key) - a(key)
    BY <2>6, <2>7, <2>9
  <2> QED BY <2>3, <2>4, <2>10
<1> QED BY <1>1, <1>6, <1>7 DEF a, b

\* No file is split into infinitely many sections.
LEMMA ExtractIsFinite ==
  ASSUME SectionIInv, NEW v \in VersionNumbers
  PROVE  /\ \A p \in Files : IsFiniteSet(KeysOf(p, versions[v].files[p]))
         /\ IsFiniteSet(ToExtract(v))
<1>1. \A p \in Files : IsFiniteSet(KeysOf(p, versions[v].files[p]))
  <2> TAKE p \in Files
  <2>1. PICK text \in Texts \cup {Missing} : text = versions[v].files[p]
    BY VersionFacts
  <2>2. CASE text = Missing
    BY <2>1, <2>2, FS_EmptySet DEF KeysOf
  <2>3. CASE text \in Texts
    BY <2>1, <2>3, KeysOfAText
  <2> QED BY <2>2, <2>3
<1>2. PICK f : f = [p \in Files \ Kept(v) |-> KeysOf(p, versions[v].files[p])]
  OBVIOUS
<1>3. PICK all : all = {f[p] : p \in Files \ Kept(v)}
  OBVIOUS
<1>4. IsFiniteSet(all)
  <2>1. IsFiniteSet(Files \ Kept(v))
    BY SectionConstants, FS_Subset
  <2> QED BY <1>3, <2>1, ImageFacts
<1>5. \A T \in all : IsFiniteSet(T)
  BY <1>1, <1>2, <1>3
<1>6. ToExtract(v) = UNION all
  BY <1>2, <1>3 DEF ToExtract
<1> QED BY <1>1, <1>4, <1>5, <1>6, FS_UNION

\* What is committed is distinct: extracted and kept rows are of different files.
LEMMA NewRowsAreDistinct ==
  ASSUME SectionIInv, RowsAreDistinct, NEW v \in VersionNumbers
  PROVE  OneOfEach(NewRows(v))
<1>1. PICK extracted : extracted = {SectionRow(key, 0) : key \in ToExtract(v)}
  OBVIOUS
<1>2. PICK old : old = UNION {At(builds[v].previous, p) : p \in Kept(v)}
  OBVIOUS
<1>3. PICK kept : kept = {SectionRow(row.key, versions[v].over) : row \in old}
  OBVIOUS
<1>4. NewRows(v) = extracted \cup kept
  BY <1>1, <1>2, <1>3 DEF NewRows
<1>5. IsFiniteSet(extracted)
  <2>1. PICK f : f = [key \in ToExtract(v) |-> SectionRow(key, 0)]
    OBVIOUS
  <2>2. extracted = {f[key] : key \in ToExtract(v)}
    BY <1>1, <2>1
  <2> QED BY <2>2, ExtractIsFinite, ImageFacts
<1>6. IsFiniteSet(kept)
  <2>1. old \subseteq builds[v].previous
    BY <1>2 DEF At
  <2>2. IsFiniteSet(old)
    <3>1. IsFiniteSet(builds[v].previous)
      BY DEF RowsAreDistinct, OneOfEach
    <3> QED BY <2>1, <3>1, FS_Subset
  <2>3. PICK f : f = [row \in old |-> SectionRow(row.key, versions[v].over)]
    OBVIOUS
  <2>4. kept = {f[row] : row \in old}
    BY <1>3, <2>3
  <2> QED BY <2>2, <2>4, ImageFacts
<1>7. \A row \in extracted : row = SectionRow(row.key, 0) /\ row.key.path \notin Kept(v)
  <2> TAKE row \in extracted
  <2>1. PICK key \in ToExtract(v) : row = SectionRow(key, 0)
    BY <1>1
  <2>2. PICK p \in Files \ Kept(v) : key \in KeysOf(p, versions[v].files[p])
    BY <2>1 DEF ToExtract
  <2>3. versions[v].files[p] \in Texts \cup {Missing}
    BY VersionFacts
  <2>4. key.path = p
    BY <2>2, <2>3, KeyFacts
  <2> QED BY <2>1, <2>2, <2>4 DEF SectionRow
<1>8. \A row \in kept : row = SectionRow(row.key, versions[v].over) /\ row.key.path \in Kept(v)
  <2> TAKE row \in kept
  <2>1. PICK other \in old : row = SectionRow(other.key, versions[v].over)
    BY <1>3
  <2>2. other.key.path \in Kept(v)
    BY <1>2, <2>1 DEF At
  <2> QED BY <2>1, <2>2 DEF SectionRow
<1>9. \A row \in NewRows(v), other \in NewRows(v) : row.key = other.key => row = other
  BY <1>4, <1>7, <1>8
<1>10. IsFiniteSet(NewRows(v))
  BY <1>4, <1>5, <1>6, FS_Union
<1> QED BY <1>9, <1>10 DEF OneOfEach

\* Every step keeps rows distinct.
LEMMA DistinctStep ==
  ASSUME SectionIInv, RowsAreDistinct, [SectionNext]_sectionVars
  PROVE  RowsAreDistinct'
<1>0. OneOfEach({})
  BY FS_EmptySet DEF OneOfEach
<1>1. /\ versions = [v \in VersionNumbers |-> versions[v]]
      /\ builds = [v \in VersionNumbers |-> builds[v]]
  BY DEF SectionIInv, VersionShapes
<1>2. CASE UNCHANGED sectionVars
  BY <1>2 DEF sectionVars, RowsAreDistinct
<1>3. ASSUME NEW v \in VersionNumbers, \A w \in VersionNumbers \ {v} :
                versions'[w].rows = versions[w].rows /\ builds'[w].previous = builds[w].previous,
             OneOfEach(versions'[v].rows), OneOfEach(builds'[v].previous)
      PROVE  RowsAreDistinct'
  <2> SUFFICES ASSUME NEW w \in VersionNumbers
               PROVE  OneOfEach(versions'[w].rows) /\ OneOfEach(builds'[w].previous)
    BY DEF RowsAreDistinct, OneOfEach
  <2>1. CASE w = v
    BY <1>3, <2>1
  <2>2. CASE w # v
    BY <1>3, <2>2 DEF RowsAreDistinct
  <2> QED BY <2>1, <2>2
<1>4. ASSUME NEW v \in VersionNumbers, UploadVersion(v)
      PROVE  RowsAreDistinct'
  <2>1. PICK new : versions' = [versions EXCEPT ![v] = new] /\ new.rows = {}
    <3>1. PICK texts \in Bundles, over \in IF v = FamilyRoot THEN {0}
                   ELSE {w \in 1..(v - 1) : Present(w) /\ ~versions[w].deleted} :
            versions' = [versions EXCEPT ![v] = NewVersion(texts, over)]
      BY <1>4 DEF UploadVersion
    <3>2. NewVersion(texts, over).rows = {}
      BY DEF NewVersion
    <3> QED BY <3>1, <3>2
  <2>2. versions'[v].rows = {} /\ \A w \in VersionNumbers \ {v} : versions'[w] = versions[w]
    BY <1>1, <2>1
  <2>3. builds' = builds
    BY <1>4 DEF UploadVersion
  <2> QED BY <1>0, <1>3, <2>2, <2>3 DEF RowsAreDistinct
<1>5. ASSUME NEW v \in VersionNumbers, ToggleDeleted(v)
      PROVE  RowsAreDistinct'
  <2>1. versions'[v].rows = versions[v].rows /\ \A w \in VersionNumbers \ {v} : versions'[w] = versions[w]
    BY <1>1, <1>5, VersionFacts DEF ToggleDeleted
  <2>2. builds' = builds
    BY <1>5 DEF ToggleDeleted
  <2> QED BY <1>3, <2>1, <2>2 DEF RowsAreDistinct
<1>6. ASSUME NEW v \in VersionNumbers, FailBuild(v)
      PROVE  RowsAreDistinct'
  <2>1. versions'[v].rows = versions[v].rows /\ \A w \in VersionNumbers \ {v} : versions'[w] = versions[w]
    BY <1>1, <1>6, VersionFacts DEF FailBuild
  <2>2. builds'[v].previous = {} /\ \A w \in VersionNumbers \ {v} : builds'[w] = builds[w]
    BY <1>1, <1>6 DEF FailBuild, NoBuild
  <2> QED BY <1>0, <1>3, <2>1, <2>2 DEF RowsAreDistinct
<1>7. ASSUME NEW v \in VersionNumbers, ReadPrevious(v)
      PROVE  RowsAreDistinct'
  <2>1. versions'[v].rows = versions[v].rows /\ \A w \in VersionNumbers \ {v} : versions'[w] = versions[w]
    <3>1. versions[v] = [state |-> versions[v].state, deleted |-> versions[v].deleted,
                         over |-> versions[v].over, files |-> versions[v].files,
                         rows |-> versions[v].rows, counts |-> versions[v].counts]
      BY VersionFacts
    <3>2. PICK new : new = [versions[v] EXCEPT !.state = "running"]
      OBVIOUS
    <3>3. new.rows = versions[v].rows
      BY <3>1, <3>2
    <3>4. versions' = [versions EXCEPT ![v] = new]
      BY <1>7, <3>2 DEF ReadPrevious
    <3> QED BY <1>1, <3>3, <3>4
  <2>2. builds'[v].previous = PreviousRows(v) /\ \A w \in VersionNumbers \ {v} : builds'[w] = builds[w]
    BY <1>1, <1>7 DEF ReadPrevious
  <2>3. OneOfEach(PreviousRows(v))
    <3>1. versions[v].over # 0 => versions[v].over \in VersionNumbers
      <4>1. versions[v].over \in 0..(v - 1)
        BY VersionFacts
      <4> QED BY <4>1, SectionConstants DEF VersionNumbers
    <3> QED BY <1>0, <3>1 DEF PreviousRows, RowsAreDistinct
  <2>4. OneOfEach(versions'[v].rows)
    BY <2>1 DEF RowsAreDistinct
  <2>5. OneOfEach(builds'[v].previous)
    BY <2>2, <2>3
  <2> QED BY <1>3, <2>1, <2>2, <2>4, <2>5
<1>8. ASSUME NEW v \in VersionNumbers, SelectKnown(v)
      PROVE  RowsAreDistinct'
  <2>1. versions' = versions
    BY <1>8 DEF SelectKnown
  <2>2. builds'[v].previous = builds[v].previous /\ \A w \in VersionNumbers \ {v} : builds'[w] = builds[w]
    <3>1. builds[v] = [step |-> builds[v].step, previous |-> builds[v].previous, known |-> builds[v].known]
      BY DEF SectionIInv, VersionShapes
    <3>2. PICK build : build = [builds[v] EXCEPT !.step = "selected", !.known = ToExtract(v) \cap sections]
      OBVIOUS
    <3>3. build.previous = builds[v].previous
      BY <3>1, <3>2
    <3>4. builds' = [builds EXCEPT ![v] = build]
      BY <1>8, <3>2 DEF SelectKnown
    <3> QED BY <1>1, <3>3, <3>4
  <2> QED BY <1>3, <2>1, <2>2 DEF RowsAreDistinct
<1>9. ASSUME NEW v \in VersionNumbers, CommitBuild(v)
      PROVE  RowsAreDistinct'
  <2>1. versions'[v].rows = NewRows(v) /\ \A w \in VersionNumbers \ {v} : versions'[w] = versions[w]
    BY <1>1, <1>9, VersionFacts DEF CommitBuild
  <2>2. builds'[v].previous = {} /\ \A w \in VersionNumbers \ {v} : builds'[w] = builds[w]
    BY <1>1, <1>9 DEF CommitBuild, NoBuild
  <2>3. OneOfEach(versions'[v].rows)
    BY <2>1, NewRowsAreDistinct
  <2> QED BY <1>0, <1>3, <2>1, <2>2, <2>3
<1>10. ASSUME NEW v \in VersionNumbers, CheckPurge(v)
      PROVE  RowsAreDistinct'
  BY <1>10 DEF CheckPurge, RowsAreDistinct
<1>11. ASSUME NEW v \in VersionNumbers, Purge(v)
      PROVE  RowsAreDistinct'
  <2>1. builds' = builds
    BY <1>11 DEF Purge
  <2>2. CASE versions' = versions
    BY <2>1, <2>2 DEF RowsAreDistinct
  <2>3. CASE versions' = [versions EXCEPT ![v] = [Unuploaded EXCEPT !.state = "purged", !.over = versions[v].over]]
    <3>1. versions'[v].rows = {} /\ \A w \in VersionNumbers \ {v} : versions'[w] = versions[w]
      BY <1>1, <2>3 DEF Unuploaded
    <3> QED BY <1>0, <1>3, <2>1, <3>1 DEF RowsAreDistinct
  <2> QED BY <1>11, <2>2, <2>3 DEF Purge
<1> QED BY <1>2, <1>4, <1>5, <1>6, <1>7, <1>8, <1>9, <1>10, <1>11 DEF SectionNext

\* What a commit counts.
LEMMA CommitCounts ==
  ASSUME SectionIInv, RowsAreDistinct, NEW v \in VersionNumbers, builds[v].step # "none",
         Insertable(v, NewRows(v))
  PROVE  /\ KeysBefore(v) \in SUBSET SectionKey /\ IsFiniteSet(KeysBefore(v)) /\ IsFiniteSet(KeysNow(v))
         /\ KeysNow(v) = UNION {OwnKeys(v, p) : p \in Files}
         /\ \A p \in Files : \A key \in OwnKeys(v, p) : key.path = p
         /\ AbsentKeys(v) \subseteq KeysBefore(v) \ KeysNow(v)
<1>1. KeysBefore(v) \in SUBSET SectionKey /\ IsFiniteSet(KeysBefore(v))
  <2>1. builds[v].previous \subseteq SectionRows /\ IsFiniteSet(builds[v].previous)
    BY DEF SectionIInv, VersionShapes, RowsAreDistinct, OneOfEach
  <2>2. IsFiniteSet(KeysBefore(v))
    BY <2>1, KeysOfRows DEF KeysBefore
  <2> QED BY <2>1, <2>2 DEF SectionRows, KeysBefore
<1>2. IsFiniteSet(KeysNow(v))
  <2>1. IsFiniteSet(NewRows(v))
    BY NewRowsAreDistinct DEF OneOfEach
  <2> QED BY <2>1, KeysOfRows DEF KeysNow
<1>3. KeysNow(v) = UNION {OwnKeys(v, p) : p \in Files}
  BY NewRowFacts DEF IsWhole, KeysNow, OwnKeys
<1>4. ASSUME NEW p \in Files, NEW key \in OwnKeys(v, p)
      PROVE  key.path = p
  <2>1. PICK text \in Texts \cup {Missing} : text = versions[v].files[p]
    BY VersionFacts
  <2> QED BY <1>4, <2>1, KeyFacts DEF OwnKeys
<1>5. ASSUME NEW key \in AbsentKeys(v)
      PROVE  key \in KeysBefore(v) \ KeysNow(v)
  <2>1. key \in KeysBefore(v)
    BY DEF AbsentKeys
  <2> SUFFICES ASSUME key \in KeysNow(v) PROVE FALSE
    BY <2>1
  <2>2. PICK p \in Files : key \in OwnKeys(v, p)
    BY <1>3
  <2>3. key.path = p
    BY <1>4, <2>2
  <2>4. key \in KeysBeforeAt(v, p)
    BY <2>1, <2>3 DEF KeysBefore, KeysBeforeAt, At
  <2>5. KeysBeforeAt(v, p) \cap OwnKeys(v, p) \subseteq MappedAt(v, p)
    BY MappedFacts
  <2>6. key \notin MappedAt(v, p)
    BY DEF AbsentKeys
  <2> QED BY <2>2, <2>4, <2>5, <2>6
<1> QED BY <1>1, <1>2, <1>3, <1>4, <1>5

\* Only a section of the file itself is claimed for it.
LEMMA MappedPath ==
  ASSUME SectionIInv, RowsAreDistinct, NEW v \in VersionNumbers, builds[v].step # "none",
         NEW p \in Files, NEW key \in MappedAt(v, p)
  PROVE  key.path = p /\ key \in KeysBefore(v)
<1>1. MappedAt(v, p) \subseteq KeysBeforeAt(v, p)
  BY MappedFacts
<1> QED BY <1>1 DEF KeysBeforeAt, KeysBefore, At

\* The sections of a deleted file are absent.
LEMMA DeletedAreAbsent ==
  ASSUME SectionIInv, RowsAreDistinct, NEW v \in VersionNumbers, builds[v].step # "none",
         Insertable(v, NewRows(v)),
         NEW deleted, deleted = {row \in builds[v].previous : versions[v].files[row.key.path] = Missing}
  PROVE  Cardinality(deleted) <= Cardinality(AbsentKeys(v))
<1>1. IsFiniteSet(AbsentKeys(v))
  <2>1. IsFiniteSet(KeysBefore(v)) /\ AbsentKeys(v) \subseteq KeysBefore(v)
    BY CommitCounts
  <2> QED BY <2>1, FS_Subset
<1>2. ASSUME NEW row \in deleted
      PROVE  row.key \in AbsentKeys(v)
  <2>1. row.key \in KeysBefore(v)
    BY DEF KeysBefore
  <2>2. ASSUME NEW p \in Files, row.key \in MappedAt(v, p)
        PROVE  FALSE
    <3>1. row.key.path = p
      BY <2>2, MappedPath
    <3>2. versions[v].files[p] = Missing => MappedAt(v, p) = {}
      BY MappedFacts
    <3> QED BY <2>2, <3>1, <3>2
  <2> QED BY <2>1, <2>2 DEF AbsentKeys
<1>3. \A row \in deleted, other \in deleted : row.key = other.key => row = other
  BY DEF RowsAreDistinct, OneOfEach
<1>4. PICK f : f = [row \in deleted |-> row.key]
  OBVIOUS
<1>5. f \in [deleted -> AbsentKeys(v)] /\ \A row \in deleted : f[row] = row.key
  BY <1>2, <1>4
<1>6. ASSUME NEW row \in deleted, NEW other \in deleted, f[row] = f[other]
      PROVE  row = other
  <2>1. row.key = other.key
    BY <1>5, <1>6
  <2> QED BY <1>3, <2>1
<1>7. f \in Injection(deleted, AbsentKeys(v))
  BY <1>5, <1>6, Fun_IsInj
<1> QED BY <1>1, <1>7, FS_Injection

\* What is not absent of one text is claimed by a section of the new file.
LEMMA AbsentOfOneText ==
  ASSUME SectionIInv, RowsAreDistinct, NEW v \in VersionNumbers, builds[v].step # "none",
         Insertable(v, NewRows(v)), NEW p \in Files, NEW h \in Nat,
         NEW a \in Nat, a = Cardinality(OfText(KeysNow(v), p, h)),
         NEW b \in Nat, b = Cardinality(OfText(KeysBefore(v), p, h))
  PROVE  b - a <= Cardinality(OfText(AbsentKeys(v), p, h))
<1>1. OfText(OwnKeys(v, p), p, h) = OfText(KeysNow(v), p, h)
  <2>1. /\ KeysNow(v) = UNION {OwnKeys(v, q) : q \in Files}
        /\ \A q \in Files : \A key \in OwnKeys(v, q) : key.path = q
    BY CommitCounts
  <2> QED BY <2>1 DEF OfText
<1>2. PICK mapped : mapped = OfText(MappedAt(v, p), p, h)
  OBVIOUS
<1>3. PICK gone : gone = OfText(AbsentKeys(v), p, h)
  OBVIOUS
<1>4. Cardinality(mapped) <= a
  <2>1. Cardinality(OfText(MappedAt(v, p), p, h)) <= Cardinality(OfText(OwnKeys(v, p), p, h))
    BY MappedFacts
  <2> QED BY <1>1, <1>2, <2>1
<1>5. mapped \subseteq KeysBefore(v) /\ gone \subseteq KeysBefore(v)
  <2>1. mapped \subseteq KeysBefore(v)
    BY <1>2, MappedPath DEF OfText
  <2> QED BY <1>3, <2>1 DEF OfText, AbsentKeys
<1>6. OfText(KeysBefore(v), p, h) \subseteq mapped \cup gone
  <2> SUFFICES ASSUME NEW k \in KeysBefore(v), k.path = p, k.hash = h, k \notin gone
               PROVE  k \in mapped
    BY DEF OfText
  <2>1. k \notin AbsentKeys(v)
    BY <1>3 DEF OfText
  <2>2. PICK q \in Files : k \in MappedAt(v, q)
    BY <2>1 DEF AbsentKeys
  <2>3. q = p
    BY <2>2, MappedPath
  <2> QED BY <1>2, <2>2, <2>3 DEF OfText
<1>7. IsFiniteSet(KeysBefore(v))
  BY CommitCounts
<1>8. IsFiniteSet(mapped) /\ IsFiniteSet(gone)
  BY <1>5, <1>7, FS_Subset
<1>9. PICK m \in Nat : m = Cardinality(mapped)
  BY <1>8, FS_CardinalityType
<1>10. PICK g \in Nat : g = Cardinality(gone)
  BY <1>8, FS_CardinalityType
<1>11. PICK both \in Nat : both = Cardinality(mapped \cap gone)
  <2>1. IsFiniteSet(mapped \cap gone)
    BY <1>8, FS_Intersection
  <2> QED BY <2>1, FS_CardinalityType
<1>12. IsFiniteSet(mapped \cup gone) /\ Cardinality(mapped \cup gone) = m + g - both
  BY <1>8, <1>9, <1>10, <1>11, FS_Union
<1>13. b <= Cardinality(mapped \cup gone)
  BY <1>6, <1>12, FS_Subset
<1>14. m <= a
  BY <1>4, <1>9
<1>15. b <= m + g - both
  BY <1>12, <1>13
<1>16. b - a <= g
  BY <1>14, <1>15
<1> QED BY <1>3, <1>10, <1>16

\* The absent sections are no fewer than the lost occurrences.
LEMMA LostAreAbsent ==
  ASSUME SectionIInv, RowsAreDistinct, NEW v \in VersionNumbers, builds[v].step # "none",
         Insertable(v, NewRows(v))
  PROVE  Cardinality(LostTexts(KeysBefore(v), KeysNow(v))) <= Cardinality(AbsentKeys(v))
<1>1. PICK before \in SUBSET SectionKey : before = KeysBefore(v) /\ IsFiniteSet(before)
  BY CommitCounts
<1>2. PICK now : now = KeysNow(v) /\ IsFiniteSet(now)
  BY CommitCounts
<1>3. PICK absent : absent = AbsentKeys(v)
  OBVIOUS
<1>4. IsFiniteSet(absent)
  <2>1. absent \subseteq before
    BY <1>1, <1>3 DEF AbsentKeys
  <2> QED BY <1>1, <2>1, FS_Subset
<1>5. PICK lost : lost = LostTexts(before, now)
  OBVIOUS
<1>6. IsFiniteSet(lost)
  BY <1>1, <1>2, <1>5, LostFacts
<1>7. PICK kindS : kindS = [x \in lost |-> <<x[1], x[2]>>]
  OBVIOUS
<1>8. PICK kindT : kindT = [key \in absent |-> <<key.path, key.hash>>]
  OBVIOUS
<1>9. ASSUME NEW x \in lost
      PROVE  Cardinality({y \in lost : kindS[y] = kindS[x]}) <= Cardinality({key \in absent : kindT[key] = kindS[x]})
  <2>1. PICK key \in before :
              /\ x[1] = key.path /\ x[2] = key.hash
              /\ LET a == Cardinality(OfText(now, key.path, key.hash))
                     b == Cardinality(OfText(before, key.path, key.hash))
                 IN  /\ a \in Nat /\ b \in Nat /\ a < b
                     /\ Cardinality({y \in lost : <<y[1], y[2]>> = <<x[1], x[2]>>}) <= b - a
    BY <1>1, <1>2, <1>5, LostFacts
  <2>2. PICK p \in Files : p = key.path
    BY DEF SectionKey
  <2>3. PICK h \in Nat : h = key.hash
    BY DEF SectionKey
  <2>4. PICK a \in Nat : a = Cardinality(OfText(now, p, h))
    BY <2>1, <2>2, <2>3
  <2>5. PICK b \in Nat : b = Cardinality(OfText(before, p, h))
    BY <2>1, <2>2, <2>3
  <2>6. Cardinality({y \in lost : <<y[1], y[2]>> = <<x[1], x[2]>>}) <= b - a
    BY <2>1, <2>2, <2>3, <2>4, <2>5
  <2>7. b - a <= Cardinality(OfText(absent, p, h))
    BY <1>1, <1>2, <1>3, <2>4, <2>5, AbsentOfOneText
  <2>8. {y \in lost : kindS[y] = kindS[x]} = {y \in lost : <<y[1], y[2]>> = <<x[1], x[2]>>}
    BY <1>7
  <2>9. {k \in absent : kindT[k] = kindS[x]} = OfText(absent, p, h)
    BY <1>7, <1>8, <2>1, <2>2, <2>3 DEF OfText
  <2>10. IsFiniteSet({y \in lost : kindS[y] = kindS[x]}) /\ IsFiniteSet(OfText(absent, p, h))
    <3>1. {y \in lost : kindS[y] = kindS[x]} \subseteq lost /\ OfText(absent, p, h) \subseteq absent
      BY DEF OfText
    <3> QED BY <1>4, <1>6, <3>1, FS_Subset
  <2>11. PICK i \in Nat : i = Cardinality({y \in lost : kindS[y] = kindS[x]})
    BY <2>10, FS_CardinalityType
  <2>12. PICK j \in Nat : j = Cardinality(OfText(absent, p, h))
    BY <2>10, FS_CardinalityType
  <2>13. i <= b - a
    BY <2>6, <2>8, <2>11
  <2>14. b - a <= j
    BY <2>7, <2>12
  <2>15. i <= j
    BY <2>13, <2>14
  <2> QED BY <2>9, <2>11, <2>12, <2>15
<1>10. Cardinality(lost) <= Cardinality(absent)
  <2>1. NoMore(lost, absent, kindS, kindT)
    BY <1>9 DEF NoMore
  <2> QED BY <1>4, <1>6, <2>1, NoMoreOfAKind
<1> QED BY <1>1, <1>2, <1>3, <1>5, <1>10

\* What a version reports as absent.
Reported(v) ==
    LET before == {row.key : row \in builds[v].previous}
        now == {row.key : row \in versions'[v].rows}
        counts == versions'[v].counts
    IN  /\ Cardinality(LostTexts(before, now)) <= counts.absent
        /\ counts.deleted <= counts.absent
        /\ counts.absent <= Cardinality(before \ now)

LEMMA CommitReports ==
  ASSUME SectionIInv, RowsAreDistinct, NEW v \in VersionNumbers, CommitBuild(v)
  PROVE  Reported(v)
<1>1. builds[v].step # "none" /\ Insertable(v, NewRows(v))
  BY DEF CommitBuild
<1>2. versions'[v].rows = NewRows(v) /\ versions'[v].counts = Counts(v)
  <2>1. versions = [w \in VersionNumbers |-> versions[w]]
    BY DEF SectionIInv, VersionShapes
  <2>2. versions[v] = [state |-> versions[v].state, deleted |-> versions[v].deleted,
                     over |-> versions[v].over, files |-> versions[v].files,
                     rows |-> versions[v].rows, counts |-> versions[v].counts]
    BY VersionFacts
  <2>3. PICK new : new = [versions[v] EXCEPT !.state = "indexed", !.rows = NewRows(v), !.counts = Counts(v)]
    OBVIOUS
  <2>4. new.rows = NewRows(v) /\ new.counts = Counts(v)
    BY <2>2, <2>3
  <2>5. versions' = [versions EXCEPT ![v] = new]
    BY <2>3 DEF CommitBuild
  <2> QED BY <2>1, <2>4, <2>5
<1>3. PICK deleted : deleted = {row \in builds[v].previous : versions[v].files[row.key.path] = Missing}
  OBVIOUS
<1>4. Counts(v).deleted = Cardinality(deleted) /\ Counts(v).absent = Cardinality(AbsentKeys(v))
  BY <1>3 DEF Counts, AbsentKeys, KeysBefore
<1>5. Cardinality(LostTexts(KeysBefore(v), KeysNow(v))) <= Cardinality(AbsentKeys(v))
  BY <1>1, LostAreAbsent
<1>6. Cardinality(deleted) <= Cardinality(AbsentKeys(v))
  BY <1>1, <1>3, DeletedAreAbsent
<1>7. Cardinality(AbsentKeys(v)) <= Cardinality(KeysBefore(v) \ KeysNow(v))
  <2>1. AbsentKeys(v) \subseteq KeysBefore(v) \ KeysNow(v) /\ IsFiniteSet(KeysBefore(v))
    BY <1>1, CommitCounts
  <2>2. IsFiniteSet(KeysBefore(v) \ KeysNow(v))
    BY <2>1, FS_Subset
  <2> QED BY <2>1, <2>2, FS_Subset
<1> QED BY <1>2, <1>4, <1>5, <1>6, <1>7 DEF Reported, KeysBefore, KeysNow

\* Rows stay distinct in every state.
LEMMA RowsStayDistinct == SectionSpec => [](SectionIInv /\ RowsAreDistinct)
<1>1. SectionInit => RowsAreDistinct
  <2>1. OneOfEach({})
    BY FS_EmptySet DEF OneOfEach
  <2> SUFFICES ASSUME SectionInit PROVE RowsAreDistinct
    OBVIOUS
  <2>2. \A v \in VersionNumbers : versions[v].rows = {} /\ builds[v].previous = {}
    BY DEF SectionInit, Unuploaded, NoBuild
  <2> QED BY <2>1, <2>2 DEF RowsAreDistinct
<1>2. SectionIInv /\ RowsAreDistinct /\ [SectionNext]_sectionVars => RowsAreDistinct'
  BY DistinctStep
<1> QED BY <1>1, <1>2, SectionInvariance, PTL DEF SectionSpec

\* Indexed versions keep their own sections, and what a version reports as absent is at
\* least what its files lost and at most what does not stand where it stood, for any files, texts
\* and number of versions (build_snapshot_sections, purge_resource_artifacts).
THEOREM SectionsStayKept == SectionSpec => SectionsAreKept
<1>1. SectionIInv => SectionTypeOK /\ VersionsAreWhole
  BY DEF SectionIInv
<1>2. SectionIInv /\ RowsAreDistinct => \A v \in VersionNumbers : CommitBuild(v) => Reported(v)
  BY CommitReports
<1>3. SectionIInv /\ RowsAreDistinct =>
        \A v \in VersionNumbers : CommitBuild(v) =>
            LET before == {row.key : row \in builds[v].previous}
                now == {row.key : row \in versions'[v].rows}
                counts == versions'[v].counts
            IN  /\ Cardinality(LostTexts(before, now)) <= counts.absent
                /\ counts.deleted <= counts.absent
                /\ counts.absent <= Cardinality(before \ now)
  BY <1>2 DEF Reported
<1> QED BY <1>1, <1>3, RowsStayDistinct, PTL DEF SectionsAreKept, AbsentIsBounded

-----------------------------------------------------------------------------
(* Review loop *)

\* Reports and proposal files are numbered.
LoopShapes ==
    /\ reports = [n \in Reviews |-> reports[n]]
    /\ files = [n \in FileNumbers |-> files[n]]

\* No edit is under this identifier, nor under one that it recurs from.
Clear(k, edited) == \A d \in 0..k.depth : [k EXCEPT !.depth = d] \notin edited

\* A file says what its identifier stands for as long as nobody has edited it, nor one
\* that it recurs from.
TextsTell ==
    \A n \in FileNumbers :
        files[n] # Absent /\ Clear(files[n].key, rewritten) => files[n].text = files[n].key.claim

\* What an accept of the gate tells of an identifier: the type always, the text unless it
\* was edited.
GateKnows(k, edited) == k.type \in Targeted /\ (Clear(k, edited) => k.claim \notin Harmful)

\* The gate has judged every proposal of an accepted identifier, by its type and its text.
GatesKnow == \A k \in Key : gates[k] = "accept" => GateKnows(k, rewritten)

\* A stage that is being written lacks its receipt.
BusyStages == \A k \in Key : stages[k].busy => stages[k].written \in 1..4

\* A finding that may become a proposal is about a claim, and of a type proposals have.
FindingsCarry ==
    \A n \in Reviews : \A f \in reports[n].findings :
        Selectable(f) => f.claim \in Claims /\ f.type \in Types

\* The inductive invariant of the self-improvement loop.
LoopIInv ==
    /\ LoopTypeOK /\ LoopShapes /\ FindingsValidate /\ FindingsCarry
    /\ TextsTell /\ GatesKnow /\ BusyStages /\ StagedAreFit

\* Whatever the bundle, its findings pass the validators, and one about the bundle itself
\* blocks.
LEMMA BundleFindings ==
  ASSUME NEW bundle \in ReviewBundles
  PROVE  \A f \in FindingsOf(bundle) :
             /\ Valid(f) /\ f.claim \in Claims \cup {NoClaim}
             /\ f.claim = NoClaim => f.severity = "major"
             /\ Selectable(f) => f.claim \in Claims /\ f.type \in Types
<1> TAKE f \in FindingsOf(bundle)
<1>1. bundle.claims \subseteq Claims
  BY DEF ReviewBundles, Bundle
<1>2. CASE f = Finding(NoClaim, "missing_evidence", "major", TRUE, FALSE, "high", "not_eligible")
  BY <1>2, LoopConstants DEF Finding, Valid, Eligible, Selectable, Types, Targeted
<1>3. ASSUME NEW c \in bundle.claims,
             f = Finding(c, "unsupported_claim", "major", TRUE, TRUE, "high", "candidate")
      PROVE  /\ Valid(f) /\ f.claim \in Claims \cup {NoClaim}
             /\ f.claim = NoClaim => f.severity = "major"
             /\ Selectable(f) => f.claim \in Claims /\ f.type \in Types
  BY <1>1, <1>3, LoopConstants DEF Finding, Valid, Eligible, Selectable, Types, Targeted
<1>4. ASSUME NEW c \in bundle.claims,
             f = Finding(c, "citation_mismatch", "blocker", TRUE, TRUE, "medium", "candidate")
      PROVE  /\ Valid(f) /\ f.claim \in Claims \cup {NoClaim}
             /\ f.claim = NoClaim => f.severity = "major"
             /\ Selectable(f) => f.claim \in Claims /\ f.type \in Types
  <2>1. f.claim = c /\ c # NoClaim
    BY <1>1, <1>4, LoopConstants DEF Finding
  <2> QED BY <1>1, <1>4, <2>1, LoopConstants DEF Finding, Valid, Eligible, Selectable, Types, Targeted
<1>5. \/ f = Finding(NoClaim, "missing_evidence", "major", TRUE, FALSE, "high", "not_eligible")
      \/ \E c \in bundle.claims : f = Finding(c, "unsupported_claim", "major", TRUE, TRUE, "high", "candidate")
      \/ \E c \in bundle.claims : f = Finding(c, "citation_mismatch", "blocker", TRUE, TRUE, "medium", "candidate")
  BY DEF FindingsOf, Incomplete, CitationFindings
<1> QED BY <1>2, <1>3, <1>4, <1>5

\* A finding of an imported report that may become a proposal is about a claim.
LEMMA ForeignFacts ==
  ASSUME NEW f \in ForeignFindings
  PROVE  Valid(f) /\ f.claim \in Claims /\ f.claim # NoClaim /\ f.type \in Types
BY LoopConstants DEF ForeignFindings, Finding, Types, Targeted

\* No report, proposal, gate or stage is there at first.
LEMMA LoopInitially == LoopInit => LoopIInv
<1> SUFFICES ASSUME LoopInit PROVE LoopIInv
  OBVIOUS
<1>1. Absent.staged = FALSE
  BY DEF Absent
<1>2. NoStage \in Stage /\ NoStage.busy = FALSE
  BY LoopConstants DEF NoStage, Stage
<1>3. LoopTypeOK
  BY <1>2 DEF LoopInit, LoopTypeOK
<1>4. LoopShapes /\ FindingsValidate /\ FindingsCarry
  BY DEF LoopInit, LoopShapes, FindingsValidate, FindingsCarry
<1>5. TextsTell /\ GatesKnow /\ BusyStages /\ StagedAreFit
  BY <1>1, <1>2 DEF LoopInit, TextsTell, GatesKnow, BusyStages, StagedAreFit
<1> QED BY <1>3, <1>4, <1>5 DEF LoopIInv

\* A report of valid findings is written, and nothing else.
LEMMA WriteReportStep ==
  ASSUME LoopIInv, NEW n \in Reviews, NEW findings, WriteReport(n, findings),
         \A f \in findings : /\ Valid(f) /\ f.claim \in Claims \cup {NoClaim}
                             /\ f.claim = NoClaim => f.severity = "major"
                             /\ Selectable(f) => f.claim \in Claims /\ f.type \in Types
  PROVE  LoopIInv'
<1>1. /\ reports' = [reports EXCEPT ![n] = [written |-> TRUE, findings |-> findings]]
      /\ files' = files /\ gates' = gates /\ stages' = stages /\ slept' = slept
      /\ rewritten' = rewritten
  BY DEF WriteReport
<1>2. /\ reports'[n] = [written |-> TRUE, findings |-> findings]
      /\ \A m \in Reviews \ {n} : reports'[m] = reports[m]
      /\ reports' = [m \in Reviews |-> reports'[m]]
  BY <1>1 DEF LoopIInv, LoopShapes
<1>3. reports'[n].written = TRUE /\ reports'[n].findings = findings
  BY <1>2
<1>4. LoopTypeOK'
  BY <1>1, <1>2, <1>3 DEF LoopIInv, LoopTypeOK
<1>5. LoopShapes'
  BY <1>1, <1>2 DEF LoopIInv, LoopShapes
<1>6. FindingsValidate'
  <2>1. (\E f \in findings : f.claim = NoClaim) => VerdictOf(findings) = "BLOCK"
    BY DEF VerdictOf
  <2> QED BY <1>2, <1>3, <2>1 DEF LoopIInv, FindingsValidate
<1>8. FindingsCarry'
  BY <1>2, <1>3 DEF LoopIInv, FindingsCarry
<1>7. TextsTell' /\ GatesKnow' /\ BusyStages' /\ StagedAreFit'
  BY <1>1 DEF LoopIInv, TextsTell, GatesKnow, BusyStages, Unedited, StagedAreFit
<1> QED BY <1>4, <1>5, <1>6, <1>7, <1>8 DEF LoopIInv

\* The next file is one that is not there.
LEMMA FreshFacts ==
  ASSUME Unwritten # {} PROVE Fresh \in Unwritten /\ Fresh \in FileNumbers
<1>1. Unwritten \in SUBSET Nat
  BY DEF Unwritten, FileNumbers
<1>2. \E n \in Unwritten : \A m \in Unwritten : n <= m
  BY <1>1, SmallestOf
<1> QED BY <1>2 DEF Fresh, Unwritten

\* The report steps.
LEMMA ReportStep ==
  ASSUME LoopIInv, NEW n \in Reviews, ReviewBundle(n) \/ ImportReport(n)
  PROVE  LoopIInv'
<1>1. CASE ReviewBundle(n)
  <2>1. PICK bundle \in ReviewBundles : WriteReport(n, FindingsOf(bundle))
    BY <1>1 DEF ReviewBundle
  <2> QED BY <2>1, BundleFindings, WriteReportStep
<1>2. CASE ImportReport(n)
  <2>1. PICK f \in ForeignFindings : WriteReport(n, {f})
    BY <1>2 DEF ImportReport
  <2> QED BY <2>1, ForeignFacts, WriteReportStep
<1> QED BY <1>1, <1>2

\* A new or changed file that is fit: a text that nobody edited is that of its claim, and
\* a staged copy is what it should be.
FitFile(file, edited) ==
    /\ file \in Proposals
    /\ Clear(file.key, edited) => file.text = file.key.claim
    /\ file.staged = TRUE =>
         /\ file.status # "rejected" /\ file.key.type \in Targeted
         /\ Clear(file.key, edited) => file.text \notin Harmful

\* The files change to fit ones or go, no edit is forgotten, and reports, gates and
\* stages keep what the invariant asks of them.
LEMMA FilesStep ==
  ASSUME LoopIInv, reports' = reports,
         files' = [n \in FileNumbers |-> files'[n]],
         rewritten \subseteq rewritten', rewritten' \subseteq Key,
         \A n \in FileNumbers : files'[n] = files[n] \/ files'[n] = Absent \/ FitFile(files'[n], rewritten'),
         gates' \in [Key -> {"none", "accept", "reject"}],
         \A k \in Key : gates'[k] = "accept" => gates[k] = "accept" \/ GateKnows(k, rewritten'),
         stages' \in [Key -> Stage],
         \A k \in Key : stages'[k].busy => stages'[k].written \in 1..4,
         \A c \in slept' : c.key \in Key /\ c.reviews \subseteq Reviews
  PROVE  LoopIInv'
<1>1. LoopTypeOK'
  BY DEF LoopIInv, LoopTypeOK, FitFile
<1>2. LoopShapes' /\ FindingsValidate' /\ FindingsCarry'
  BY DEF LoopIInv, LoopShapes, FindingsValidate, FindingsCarry
<1>3. ASSUME NEW k, Clear(k, rewritten') PROVE Clear(k, rewritten)
  BY <1>3 DEF Clear
<1>4. GatesKnow' /\ BusyStages'
  BY <1>3 DEF LoopIInv, GatesKnow, GateKnows, BusyStages
<1>5. TextsTell'
  BY <1>3 DEF LoopIInv, TextsTell, FitFile
<1>6. StagedAreFit'
  <2> SUFFICES ASSUME NEW n \in FileNumbers, files'[n].staged
               PROVE  /\ files'[n].status # "rejected" /\ files'[n].key.type \in Targeted
                      /\ Clear(files'[n].key, rewritten') => files'[n].text \notin Harmful
    BY DEF StagedAreFit, Unedited, Clear
  <2>1. CASE files'[n] = files[n]
    BY <1>3, <2>1 DEF LoopIInv, StagedAreFit, Unedited, Clear
  <2>2. CASE files'[n] = Absent
    BY <2>2 DEF Absent
  <2>3. CASE FitFile(files'[n], rewritten')
    <3>1. files'[n].staged = TRUE
      BY <2>3 DEF FitFile, Proposals
    <3> QED BY <2>3, <3>1 DEF FitFile
  <2> QED BY <2>1, <2>2, <2>3
<1> QED BY <1>1, <1>2, <1>4, <1>5, <1>6 DEF LoopIInv

\* A proposer writes files for findings a report has.
LEMMA ProposeStep ==
  ASSUME LoopIInv, NEW n \in Reviews, Propose(n)
  PROVE  LoopIInv'
<1>1. PICK f \in reports[n].findings : Selectable(f) /\ files' = [files EXCEPT ![Fresh] = ProposalOf(n, f)]
  BY DEF Propose
<1>2. Fresh \in FileNumbers
  BY FreshFacts DEF Propose
<1>3. PICK new : new = ProposalOf(n, f)
  OBVIOUS
<1>4. new \in Proposals /\ new.staged = FALSE /\ new.text = new.key.claim
  BY <1>1, <1>3, LoopConstants DEF ProposalOf, Proposals, Statuses, Key, LoopIInv, FindingsCarry
<1>5. /\ files' = [m \in FileNumbers |-> files'[m]] /\ files'[Fresh] = new
      /\ \A m \in FileNumbers \ {Fresh} : files'[m] = files[m]
  BY <1>1, <1>2, <1>3 DEF LoopIInv, LoopShapes
<1>6. reports' = reports /\ gates' = gates /\ stages' = stages /\ slept' = slept /\ rewritten' = rewritten
  BY DEF Propose
<1>7. FitFile(files'[Fresh], rewritten')
  BY <1>4, <1>5 DEF FitFile
<1>8. \A m \in FileNumbers : files'[m] = files[m] \/ FitFile(files'[m], rewritten')
  BY <1>5, <1>7
<1> QED BY <1>5, <1>6, <1>8, FilesStep DEF LoopIInv, LoopTypeOK, BusyStages

\* A proposal settled by hand keeps what it is about.
LEMMA SettleStep ==
  ASSUME LoopIInv, NEW n \in FileNumbers, Settle(n)
  PROVE  LoopIInv'
<1>1. PICK status \in {"accepted", "rejected"} : files' = [files EXCEPT ![n].status = status]
  BY DEF Settle
<1>2. files[n].status = "proposed" /\ ~files[n].staged
  BY DEF Settle
<1>3. files[n] \in Proposals
  BY <1>2 DEF LoopIInv, LoopTypeOK, Absent
<1>4. PICK new : new = [files[n] EXCEPT !.status = status]
  OBVIOUS
<1>5. new \in Proposals /\ new.staged = FALSE /\ new.key = files[n].key /\ new.text = files[n].text
  BY <1>2, <1>3, <1>4 DEF Proposals, Statuses
<1>6. files' = [files EXCEPT ![n] = new]
  BY <1>1, <1>4
<1>7. /\ files' = [m \in FileNumbers |-> files'[m]] /\ files'[n] = new
      /\ \A m \in FileNumbers \ {n} : files'[m] = files[m]
  BY <1>6 DEF LoopIInv, LoopShapes
<1>8. reports' = reports /\ gates' = gates /\ stages' = stages /\ slept' = slept /\ rewritten' = rewritten
  BY DEF Settle
<1>9. files[n] # Absent
  BY <1>2 DEF Absent
<1>10. FitFile(files'[n], rewritten')
  BY <1>5, <1>7, <1>8, <1>9 DEF FitFile, LoopIInv, TextsTell
<1>11. \A m \in FileNumbers : files'[m] = files[m] \/ FitFile(files'[m], rewritten')
  BY <1>7, <1>10
<1> QED BY <1>7, <1>8, <1>11, FilesStep DEF LoopIInv, LoopTypeOK, BusyStages

\* Whoever edits a text touches its identifier.
LEMMA RewriteStep ==
  ASSUME LoopIInv, NEW n \in FileNumbers, Rewrite(n)
  PROVE  LoopIInv'
<1>1. PICK text \in Claims : files' = [files EXCEPT ![n].text = text]
  BY DEF Rewrite
<1>2. files[n] # Absent /\ ~files[n].staged /\ rewritten' = rewritten \cup {files[n].key}
  BY DEF Rewrite
<1>3. files[n] \in Proposals /\ files[n].key \in Key
  BY <1>2 DEF LoopIInv, LoopTypeOK, Proposals
<1>4. PICK new : new = [files[n] EXCEPT !.text = text]
  OBVIOUS
<1>5. new \in Proposals /\ new.staged = FALSE /\ new.key = files[n].key
  BY <1>2, <1>3, <1>4 DEF Proposals
<1>6. files' = [files EXCEPT ![n] = new]
  BY <1>1, <1>4
<1>7. /\ files' = [m \in FileNumbers |-> files'[m]] /\ files'[n] = new
      /\ \A m \in FileNumbers \ {n} : files'[m] = files[m]
  BY <1>6 DEF LoopIInv, LoopShapes
<1>8. reports' = reports /\ gates' = gates /\ stages' = stages /\ slept' = slept
  BY DEF Rewrite
<1>9. ~Clear(new.key, rewritten')
  <2>1. PICK k \in Key : k = new.key
    BY <1>3, <1>5
  <2>2. k.depth \in 0..k.depth /\ [k EXCEPT !.depth = k.depth] = k
    BY LoopConstants DEF Key
  <2>3. k \in rewritten'
    BY <1>2, <1>5, <2>1
  <2> QED BY <2>1, <2>2, <2>3 DEF Clear
<1>10. FitFile(files'[n], rewritten')
  BY <1>5, <1>7, <1>9 DEF FitFile
<1>11. \A m \in FileNumbers : files'[m] = files[m] \/ FitFile(files'[m], rewritten')
  BY <1>7, <1>10
<1>12. rewritten \subseteq rewritten' /\ rewritten' \subseteq Key
  BY <1>2, <1>3 DEF LoopIInv, LoopTypeOK
<1> QED BY <1>7, <1>8, <1>11, <1>12, FilesStep DEF LoopIInv, LoopTypeOK, BusyStages

\* The gate decides by the type and the text of a proposal.
LEMMA GateStep ==
  ASSUME LoopIInv, NEW n \in FileNumbers, Gate(n)
  PROVE  LoopIInv'
<1>1. /\ files[n] # Absent
      /\ gates' = [gates EXCEPT ![files[n].key] = GateDecision(files[n])]
      /\ reports' = reports /\ files' = files /\ stages' = stages /\ slept' = slept
      /\ rewritten' = rewritten
  BY DEF Gate
<1>2. files[n] \in Proposals /\ files[n].key \in Key
  BY <1>1 DEF LoopIInv, LoopTypeOK, Proposals
<1>3. PICK k \in Key : k = files[n].key
  BY <1>2
<1>4. GateDecision(files[n]) \in {"accept", "reject"}
      /\ (GateDecision(files[n]) = "accept" => GateKnows(k, rewritten'))
  BY <1>1, <1>3 DEF GateDecision, GateKnows, LoopIInv, TextsTell
<1>5. gates' \in [Key -> {"none", "accept", "reject"}]
  BY <1>1, <1>3, <1>4 DEF LoopIInv, LoopTypeOK
<1>6. \A l \in Key : gates'[l] = "accept" => gates[l] = "accept" \/ GateKnows(l, rewritten')
  BY <1>1, <1>3, <1>4 DEF LoopIInv, LoopTypeOK
<1> QED BY <1>1, <1>5, <1>6, FilesStep DEF LoopIInv, LoopTypeOK, LoopShapes, BusyStages

\* A stage starts only for a proposal the gate accepted.
LEMMA StartStageStep ==
  ASSUME LoopIInv, NEW n \in FileNumbers, StartStage(n)
  PROVE  LoopIInv'
<1>1. /\ files[n] # Absent /\ Unwritten # {} /\ Stageable(files[n])
      /\ stages' = [stages EXCEPT ![files[n].key] = [written |-> 1, source |-> n, busy |-> TRUE]]
      /\ files' = [files EXCEPT ![Fresh] = [files[n] EXCEPT !.staged = TRUE]]
      /\ reports' = reports /\ gates' = gates /\ slept' = slept /\ rewritten' = rewritten
  BY DEF StartStage
<1>2. files[n] \in Proposals /\ files[n].key \in Key
  BY <1>1 DEF LoopIInv, LoopTypeOK, Proposals
<1>3. PICK new : new = [files[n] EXCEPT !.staged = TRUE]
  OBVIOUS
<1>4. /\ new \in Proposals /\ new.status = files[n].status /\ new.key = files[n].key
      /\ new.text = files[n].text
  BY <1>2, <1>3 DEF Proposals
<1>5. new.status # "rejected" /\ new.key.type \in Targeted /\ GateKnows(new.key, rewritten)
  BY <1>1, <1>2, <1>4 DEF Stageable, LoopIInv, GatesKnow
<1>12. Clear(new.key, rewritten) => new.text = new.key.claim
  BY <1>1, <1>4 DEF LoopIInv, TextsTell
<1>13. FitFile(new, rewritten')
  BY <1>1, <1>4, <1>5, <1>12 DEF FitFile, GateKnows
<1>6. Fresh \in FileNumbers
  BY <1>1, FreshFacts
<1>7. /\ files' = [m \in FileNumbers |-> files'[m]] /\ files'[Fresh] = new
      /\ \A m \in FileNumbers \ {Fresh} : files'[m] = files[m]
  BY <1>1, <1>3, <1>6 DEF LoopIInv, LoopShapes
<1>8. PICK stage : stage = [written |-> 1, source |-> n, busy |-> TRUE]
  OBVIOUS
<1>9. stage \in Stage /\ stage.written = 1
  BY <1>8, LoopConstants DEF Stage, FileNumbers
<1>10. stages' \in [Key -> Stage]
  BY <1>1, <1>2, <1>8, <1>9 DEF LoopIInv, LoopTypeOK
<1>11. \A k \in Key : stages'[k].busy => stages'[k].written \in 1..4
  BY <1>1, <1>2, <1>8, <1>9 DEF LoopIInv, LoopTypeOK, BusyStages
<1>14. \A m \in FileNumbers : files'[m] = files[m] \/ FitFile(files'[m], rewritten')
  BY <1>7, <1>13
<1> QED BY <1>1, <1>7, <1>10, <1>11, <1>14, FilesStep DEF LoopIInv, LoopTypeOK

\* What a step of one stage does to it.
LEMMA StageFacts ==
  ASSUME LoopIInv, NEW k \in Key
  PROVE  /\ StageNext(k) =>
              /\ stages' \in [Key -> Stage] /\ stages'[k].written = stages[k].written + 1
              /\ stages'[k].source = stages[k].source
              /\ stages'[k].busy => stages'[k].written \in 1..4
              /\ \A l \in Key \ {k} : stages'[l] = stages[l]
         /\ StageDies(k) =>
              /\ stages' \in [Key -> Stage] /\ stages'[k].written = stages[k].written
              /\ stages'[k].source = stages[k].source /\ ~stages'[k].busy
              /\ \A l \in Key \ {k} : stages'[l] = stages[l]
         /\ DiscardStage(k) =>
              /\ stages' \in [Key -> Stage] /\ stages'[k] = NoStage
              /\ \A l \in Key \ {k} : stages'[l] = stages[l]
<1>1. stages \in [Key -> Stage] /\ stages[k] \in Stage
  BY DEF LoopIInv, LoopTypeOK
<1>2. PICK stage \in Stage : stage = stages[k]
  BY <1>1
<1>3. stage.written \in 0..5 /\ stage.source \in 0..MaxFiles /\ stage.busy \in BOOLEAN
  BY DEF Stage
<1>4. ASSUME StageNext(k)
      PROVE  /\ stages' \in [Key -> Stage] /\ stages'[k].written = stages[k].written + 1
             /\ stages'[k].source = stages[k].source
             /\ stages'[k].busy => stages'[k].written \in 1..4
             /\ \A l \in Key \ {k} : stages'[l] = stages[l]
  <2>1. stage.busy /\ stage.written \in 1..4
    BY <1>2, <1>4 DEF StageNext, LoopIInv, BusyStages
  <2>2. PICK new : new = [stage EXCEPT !.written = stage.written + 1, !.busy = stage.written < 4]
    OBVIOUS
  <2>3. PICK more \in BOOLEAN : more = (stage.written < 4) /\ (more => stage.written < 4)
    <3>1. CASE stage.written < 4
      <4>1. (stage.written < 4) = TRUE
        BY <3>1, Zenon
      <4> QED BY <4>1, Zenon
    <3>2. CASE ~(stage.written < 4)
      <4>1. ((stage.written < 4) = FALSE) \/ ((stage.written < 4) = TRUE)
        BY <1>3, <3>2, SMT
      <4> QED BY <3>2, <4>1, Zenon
    <3> QED BY <3>1, <3>2
  <2>4. new = [written |-> stage.written + 1, source |-> stage.source, busy |-> more]
    BY <2>2, <2>3 DEF Stage
  <2>6. stage.written + 1 \in 0..5 /\ (more => stage.written + 1 \in 1..4)
    BY <2>1, <2>3
  <2>7. new \in Stage /\ new.written = stage.written + 1 /\ new.source = stage.source
        /\ (new.busy => new.written \in 1..4)
    BY <1>3, <2>4, <2>6 DEF Stage
  <2>5. stages' = [stages EXCEPT ![k] = new]
    BY <1>2, <1>4, <2>2 DEF StageNext
  <2> QED BY <1>1, <1>2, <2>5, <2>7
<1>5. ASSUME StageDies(k)
      PROVE  /\ stages' \in [Key -> Stage] /\ stages'[k].written = stages[k].written
             /\ stages'[k].source = stages[k].source /\ ~stages'[k].busy
             /\ \A l \in Key \ {k} : stages'[l] = stages[l]
  <2>1. PICK new : new = [stage EXCEPT !.busy = FALSE]
    OBVIOUS
  <2>2. new \in Stage /\ new.written = stage.written /\ new.source = stage.source /\ ~new.busy
    BY <1>3, <2>1 DEF Stage
  <2>3. stages' = [stages EXCEPT ![k] = new]
    BY <1>2, <1>5, <2>1 DEF StageDies
  <2> QED BY <1>1, <1>2, <2>2, <2>3
<1>6. ASSUME DiscardStage(k)
      PROVE  /\ stages' \in [Key -> Stage] /\ stages'[k] = NoStage
             /\ \A l \in Key \ {k} : stages'[l] = stages[l]
  <2>1. NoStage \in Stage
    BY LoopConstants DEF NoStage, Stage
  <2> QED BY <1>1, <1>6, <2>1 DEF DiscardStage
<1> QED BY <1>4, <1>5, <1>6

\* A stage is written on, ends or dies; nothing else changes.
LEMMA StagesStep ==
  ASSUME LoopIInv, NEW k \in Key, StageNext(k) \/ StageDies(k) \/ DiscardStage(k)
  PROVE  LoopIInv'
<1>1. stages' \in [Key -> Stage]
  BY StageFacts
<1>2. \A l \in Key : stages'[l].busy => stages'[l].written \in 1..4
  <2>1. stages'[k].busy => stages'[k].written \in 1..4
    BY StageFacts DEF NoStage
  <2>2. \A l \in Key \ {k} : stages'[l] = stages[l]
    BY StageFacts
  <2> QED BY <2>1, <2>2 DEF LoopIInv, BusyStages
<1>3. /\ files' = [n \in FileNumbers |-> files'[n]]
      /\ \A n \in FileNumbers : files'[n] = files[n] \/ files'[n] = Absent
  <2>1. CASE StageNext(k) \/ StageDies(k)
    BY <2>1 DEF StageNext, StageDies, LoopIInv, LoopShapes
  <2>2. CASE DiscardStage(k)
    BY <2>2 DEF DiscardStage
  <2> QED BY <2>1, <2>2
<1>4. reports' = reports /\ gates' = gates /\ slept' = slept /\ rewritten' = rewritten
  BY DEF StageNext, StageDies, DiscardStage
<1> QED BY <1>1, <1>2, <1>3, <1>4, FilesStep DEF LoopIInv, LoopTypeOK

\* What is untouched one level up was untouched below.
LEMMA AboveFacts ==
  ASSUME NEW k \in Key, k.depth < MaxSleeps, NEW edited
  PROVE  /\ Above(k) \in Key /\ Above(k).claim = k.claim /\ Above(k).type = k.type
         /\ Clear(Above(k), edited) => Clear(k, edited)
<1>1. k.depth \in 0..MaxSleeps /\ MaxSleeps \in Nat
  BY LoopConstants DEF Key
<1>2. PICK l : l = Above(k)
  OBVIOUS
<1>3. l = [claim |-> k.claim, type |-> k.type, depth |-> k.depth + 1]
  BY <1>2 DEF Above, Key
<1>4. l \in Key /\ l.claim = k.claim /\ l.type = k.type /\ l.depth = k.depth + 1
  BY <1>1, <1>3 DEF Key
<1>5. ASSUME NEW d \in 0..k.depth PROVE d \in 0..l.depth /\ [l EXCEPT !.depth = d] = [k EXCEPT !.depth = d]
  <2>1. [k EXCEPT !.depth = d] = [claim |-> k.claim, type |-> k.type, depth |-> d]
    BY DEF Key
  <2>2. [l EXCEPT !.depth = d] = [claim |-> k.claim, type |-> k.type, depth |-> d]
    BY <1>3
  <2> QED BY <1>1, <1>4, <2>1, <2>2
<1>6. Clear(l, edited) => Clear(k, edited)
  BY <1>5 DEF Clear
<1> QED BY <1>2, <1>4, <1>6

\* The candidate of a recurring key is of that key, one level up, says what its first file
\* says, and names the reviews that saw it.
LEMMA CandidateFacts ==
  ASSUME LoopIInv, NEW seen \in SUBSET (FileNumbers \ Unwritten),
         NEW k \in Recurring(seen), k.depth < MaxSleeps,
         NEW first \in Group(seen, k), rewritten' = rewritten
  PROVE  LET candidate == CandidateOf(Group(seen, k), first) IN
         /\ k \in Key /\ candidate.key = Above(k) /\ candidate.staged = FALSE
         /\ candidate.reviews \subseteq Reviews
         /\ FitFile(candidate, rewritten')
         /\ GateDecision(candidate) \in {"accept", "reject"}
         /\ GateDecision(candidate) = "accept" => GateKnows(Above(k), rewritten')
<1>1. \A n \in seen : files[n] \in Proposals /\ files[n] # Absent
  BY DEF LoopIInv, LoopTypeOK, Unwritten
<1>2. k \in Key
  BY <1>1 DEF Recurring, Proposals
<1>3. PICK group : group = Group(seen, k)
  OBVIOUS
<1>4. \A n \in group : n \in seen /\ files[n].key = k
  BY <1>3 DEF Group
<1>5. first \in seen /\ files[first].key = k /\ files[first] \in Proposals
  BY <1>1, <1>3, <1>4
<1>6. PICK candidate : candidate = CandidateOf(group, first)
  OBVIOUS
<1>7. /\ candidate.key = Above(k) /\ candidate.status = "proposed" /\ candidate.staged = FALSE
      /\ candidate.text = files[first].text
      /\ candidate.reviews = UNION {files[n].reviews : n \in group}
      /\ candidate = [key |-> Above(k), text |-> files[first].text, status |-> "proposed",
                      reviews |-> candidate.reviews, staged |-> FALSE]
  BY <1>5, <1>6 DEF CandidateOf
<1>8. candidate.reviews \subseteq Reviews
  BY <1>1, <1>4, <1>7 DEF Proposals
<1>9. candidate \in Proposals
  BY <1>2, <1>5, <1>7, <1>8, AboveFacts DEF Proposals, Statuses
<1>10. Clear(Above(k), rewritten) => candidate.text = Above(k).claim
  <2>1. first \in FileNumbers
    BY <1>5
  <2>2. Clear(k, rewritten) => files[first].text = k.claim
    BY <1>1, <1>5, <2>1 DEF LoopIInv, TextsTell
  <2> QED BY <1>2, <1>7, <2>2, AboveFacts
<1>14. rewritten' = rewritten
  OBVIOUS
<1>11. Clear(Above(k), rewritten') => Clear(Above(k), rewritten)
  BY <1>14 DEF Clear
<1>12. FitFile(candidate, rewritten')
  BY <1>7, <1>9, <1>10, <1>11 DEF FitFile
<1>13. /\ GateDecision(candidate) \in {"accept", "reject"}
       /\ GateDecision(candidate) = "accept" => GateKnows(Above(k), rewritten')
  BY <1>7, <1>10, <1>11 DEF GateDecision, GateKnows
<1> QED BY <1>2, <1>3, <1>6, <1>7, <1>8, <1>12, <1>13

\* Sleep writes candidates of what recurs, and what the gate decides of each.
LEMMA SleepStep ==
  ASSUME LoopIInv, Sleep
  PROVE  LoopIInv'
<1>1. PICK seen \in SUBSET (FileNumbers \ Unwritten), out \in BOOLEAN : \E first \in [Recurring(seen) -> seen] :
        LET candidate(k) == CandidateOf(Group(seen, k), first[k])
        IN  /\ \A k \in Recurring(seen) : k.depth < MaxSleeps /\ first[k] \in Group(seen, k)
            /\ slept' = {[key |-> k, reviews |-> candidate(k).reviews] : k \in Recurring(seen)}
            /\ IF ~out THEN UNCHANGED <<files, gates>>
               ELSE \E place \in [Recurring(seen) -> Unwritten] :
                    /\ \A k, l \in Recurring(seen) : k # l => place[k] # place[l]
                    /\ files' = [n \in FileNumbers |->
                                    IF \E k \in Recurring(seen) : place[k] = n
                                    THEN candidate(CHOOSE k \in Recurring(seen) : place[k] = n)
                                    ELSE files[n]]
                    /\ gates' = [g \in Key |->
                                    IF \E k \in Recurring(seen) : Above(k) = g
                                    THEN GateDecision(candidate(CHOOSE k \in Recurring(seen) : Above(k) = g))
                                    ELSE gates[g]]
  BY DEF Sleep
<1>2. PICK recurring : recurring = Recurring(seen)
  OBVIOUS
<1>3. PICK first \in [recurring -> seen] :
        LET candidate(k) == CandidateOf(Group(seen, k), first[k])
        IN  /\ \A k \in recurring : k.depth < MaxSleeps /\ first[k] \in Group(seen, k)
            /\ slept' = {[key |-> k, reviews |-> candidate(k).reviews] : k \in recurring}
            /\ IF ~out THEN UNCHANGED <<files, gates>>
               ELSE \E place \in [recurring -> Unwritten] :
                    /\ \A k, l \in recurring : k # l => place[k] # place[l]
                    /\ files' = [n \in FileNumbers |->
                                    IF \E k \in recurring : place[k] = n
                                    THEN candidate(CHOOSE k \in recurring : place[k] = n)
                                    ELSE files[n]]
                    /\ gates' = [g \in Key |->
                                    IF \E k \in recurring : Above(k) = g
                                    THEN GateDecision(candidate(CHOOSE k \in recurring : Above(k) = g))
                                    ELSE gates[g]]
  BY <1>1, <1>2
<1> DEFINE candidate(k) == CandidateOf(Group(seen, k), first[k])
<1>4. reports' = reports /\ stages' = stages /\ rewritten' = rewritten
  BY DEF Sleep
<1>5. \A k \in recurring :
        /\ k \in Key /\ candidate(k).key = Above(k)
        /\ candidate(k).reviews \subseteq Reviews
        /\ FitFile(candidate(k), rewritten')
        /\ GateDecision(candidate(k)) \in {"accept", "reject"}
        /\ GateDecision(candidate(k)) = "accept" => GateKnows(Above(k), rewritten')
  <2> TAKE k \in recurring
  <2>1. PICK f \in Group(seen, k) : f = first[k]
    BY <1>3
  <2>2. /\ k \in Key /\ CandidateOf(Group(seen, k), f).key = Above(k)
        /\ CandidateOf(Group(seen, k), f).reviews \subseteq Reviews
        /\ FitFile(CandidateOf(Group(seen, k), f), rewritten')
        /\ GateDecision(CandidateOf(Group(seen, k), f)) \in {"accept", "reject"}
        /\ GateDecision(CandidateOf(Group(seen, k), f)) = "accept" => GateKnows(Above(k), rewritten')
    BY <1>2, <1>3, <1>4, CandidateFacts
  <2> QED BY <2>1, <2>2
<1>6. \A c \in slept' : c.key \in Key /\ c.reviews \subseteq Reviews
  BY <1>3, <1>5
<1>7. CASE ~out
  <2>1. files' = files /\ gates' = gates
    BY <1>3, <1>7
  <2> QED BY <1>4, <1>6, <2>1, FilesStep DEF LoopIInv, LoopTypeOK, LoopShapes, BusyStages
<1>8. CASE out
  <2>1. PICK place \in [recurring -> Unwritten] :
          /\ files' = [n \in FileNumbers |->
                                    IF \E k \in recurring : place[k] = n
                                    THEN candidate(CHOOSE k \in recurring : place[k] = n)
                                    ELSE files[n]]
          /\ gates' = [g \in Key |->
                                    IF \E k \in recurring : Above(k) = g
                                    THEN GateDecision(candidate(CHOOSE k \in recurring : Above(k) = g))
                                    ELSE gates[g]]
    BY <1>3, <1>8
  <2>2. \A n \in FileNumbers : files'[n] = files[n]
                               \/ \E k \in recurring : files'[n] = candidate(k)
    <3> TAKE n \in FileNumbers
    <3>1. CASE \E k \in recurring : place[k] = n
      <4>1. (CHOOSE k \in recurring : place[k] = n) \in recurring
        BY <3>1
      <4>2. files'[n] = candidate(CHOOSE k \in recurring : place[k] = n)
        BY <2>1, <3>1
      <4> HIDE DEF candidate
      <4> QED BY <4>1, <4>2
    <3>2. CASE ~(\E k \in recurring : place[k] = n)
      BY <2>1, <3>2
    <3> QED BY <3>1, <3>2
  <2>3. \A g \in Key : gates'[g] = gates[g]
                       \/ \E k \in recurring : Above(k) = g /\ gates'[g] = GateDecision(candidate(k))
    <3> TAKE g \in Key
    <3>1. CASE \E k \in recurring : Above(k) = g
      <4>1. /\ (CHOOSE k \in recurring : Above(k) = g) \in recurring
            /\ Above(CHOOSE k \in recurring : Above(k) = g) = g
        BY <3>1
      <4>2. gates'[g] = GateDecision(candidate(CHOOSE k \in recurring : Above(k) = g))
        BY <2>1, <3>1
      <4> HIDE DEF candidate
      <4> QED BY <4>1, <4>2
    <3>2. CASE ~(\E k \in recurring : Above(k) = g)
      BY <2>1, <3>2
    <3> QED BY <3>1, <3>2
  <2>4. \A n \in FileNumbers : files'[n] = files[n] \/ FitFile(files'[n], rewritten')
    <3> TAKE n \in FileNumbers
    <3>1. ASSUME NEW k \in recurring, files'[n] = candidate(k) PROVE FitFile(files'[n], rewritten')
      <4>1. FitFile(candidate(k), rewritten')
        BY <1>5
      <4> HIDE DEF candidate
      <4> QED BY <3>1, <4>1
    <3> QED BY <2>2, <3>1
  <2> HIDE DEF candidate
  <2>5. \A g \in Key : /\ gates'[g] \in {"none", "accept", "reject"}
                       /\ gates'[g] = "accept" => gates[g] = "accept" \/ GateKnows(g, rewritten')
    <3> TAKE g \in Key
    <3>1. CASE gates'[g] = gates[g]
      BY <3>1 DEF LoopIInv, LoopTypeOK
    <3>2. ASSUME NEW k \in recurring, Above(k) = g, gates'[g] = GateDecision(candidate(k))
          PROVE  /\ gates'[g] \in {"none", "accept", "reject"}
                 /\ gates'[g] = "accept" => GateKnows(g, rewritten')
      BY <1>5, <3>2
    <3> QED BY <2>3, <3>1, <3>2
  <2>6. gates' = [g \in Key |-> gates'[g]] /\ files' = [n \in FileNumbers |-> files'[n]]
    BY <2>1
  <2>7. gates' \in [Key -> {"none", "accept", "reject"}]
    BY <2>5, <2>6
  <2> QED BY <1>4, <1>6, <2>4, <2>5, <2>6, <2>7, FilesStep DEF LoopIInv, LoopTypeOK, BusyStages
<1> QED BY <1>7, <1>8

\* Every state of the self-improvement loop satisfies its inductive invariant, for any
\* claims, reports and proposal files.
THEOREM LoopInvariance == LoopSpec => []LoopIInv
<1>1. LoopIInv /\ [LoopNext]_loopVars => LoopIInv'
  <2> SUFFICES ASSUME LoopIInv, [LoopNext]_loopVars PROVE LoopIInv'
    OBVIOUS
  <2>1. CASE UNCHANGED loopVars
    BY <2>1, FilesStep DEF loopVars, LoopIInv, LoopTypeOK, LoopShapes, BusyStages
  <2>2. CASE LoopNext
    BY <2>2, ReportStep, ProposeStep, SettleStep, RewriteStep, GateStep, StartStageStep, StagesStep, SleepStep
       DEF LoopNext
  <2> QED BY <2>1, <2>2
<1> QED BY <1>1, LoopInitially, PTL DEF LoopSpec

\* Reports validate, no rejected proposal and none without a target is staged, nor one that
\* would do harm unless its text was edited, and no stage is written over; whoever runs the
\* commands of the loop, and wherever a staging dies.
THEOREM LoopStaysGuarded == LoopSpec => LoopIsGuarded
<1>1. LoopIInv => LoopTypeOK /\ FindingsValidate /\ StagedAreFit
  BY DEF LoopIInv
<1>2. LoopIInv /\ [LoopNext]_loopVars =>
        [\A k \in Key : stages[k].written > 0 =>
            \/ stages'[k] = NoStage
            \/ stages'[k].source = stages[k].source /\ stages'[k].written >= stages[k].written]_loopVars
  <2> SUFFICES ASSUME LoopIInv, LoopNext, NEW k \in Key, stages[k].written > 0
               PROVE  \/ stages'[k] = NoStage
                      \/ stages'[k].source = stages[k].source /\ stages'[k].written >= stages[k].written
    BY DEF loopVars
  <2>0. stages[k] \in Stage /\ stages[k].written \in 0..5
    BY DEF LoopIInv, LoopTypeOK, Stage
  <2>1. CASE stages' = stages
    BY <2>0, <2>1
  <2>2. ASSUME NEW n \in FileNumbers, StartStage(n)
        PROVE  stages'[k] = stages[k]
    <3>1. files[n].key # k
      BY <2>2 DEF StartStage, Vacant
    <3> QED BY <2>2, <3>1 DEF StartStage, LoopIInv, LoopTypeOK
  <2>3. ASSUME NEW l \in Key, StageNext(l) \/ StageDies(l) \/ DiscardStage(l)
        PROVE  \/ stages'[k] = NoStage
               \/ stages'[k].source = stages[k].source /\ stages'[k].written >= stages[k].written
    <3>1. CASE l = k
      BY <2>0, <2>3, <3>1, StageFacts
    <3>2. CASE l # k
      <4>1. stages'[k] = stages[k]
        BY <2>3, <3>2, StageFacts
      <4> QED BY <2>0, <4>1
    <3> QED BY <3>1, <3>2
  <2>4. \/ stages' = stages \/ \E n \in FileNumbers : StartStage(n)
        \/ \E l \in Key : StageNext(l) \/ StageDies(l) \/ DiscardStage(l)
    BY DEF LoopNext, ReviewBundle, ImportReport, WriteReport, Propose, Settle, Rewrite, Gate, Sleep
  <2> QED BY <2>0, <2>1, <2>2, <2>3, <2>4
<1> QED BY <1>1, <1>2, LoopInvariance, PTL DEF LoopSpec, LoopIsGuarded, StagedStays

=============================================================================
