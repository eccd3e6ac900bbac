---------------------------- MODULE SkillInstall ----------------------------
(***************************************************************************)
(* sourcebrief skill install and uninstall: the files of a package in the  *)
(* directory of a skill, and the receipts that list them, next to a user   *)
(* who edits the files and to calls that die.                              *)
(*                                                                         *)
(* A call checks all files, then writes or removes them one by one; the    *)
(* receipt is written after the files and removed after them.              *)
(***************************************************************************)
EXTENDS Naturals, FiniteSets

CONSTANTS
    Paths,         \* 1..n, in the order in which a package is written
    Packages,      \* packages that load_package accepts
    Contents,      \* contents of their files
    ContentOf,     \* the content of each path in each package, or Nothing
    Nothing,       \* no file
    Own,           \* a content of the user's
    Agents,        \* calls of the CLI that may run at once
    MaxInstalls,   \* bounds the installs, and so the receipts
    MaxTouches     \* bounds the edits of the user

ASSUME SkillConstants ==
    /\ Paths \subseteq Nat /\ IsFiniteSet(Paths)
    /\ Nothing \notin Contents \cup Packages /\ Own \notin Contents /\ Own # Nothing
    /\ ContentOf \in [Packages -> [Paths -> Contents \cup {Nothing}]]
    /\ MaxInstalls \in Nat /\ MaxTouches \in Nat

VARIABLES
    skill,        \* the files in the directory of the skill
    installed,    \* the receipt of each install: a package, or Nothing
    hands,        \* the running calls
    touches,      \* edits of the user so far
    strays        \* history: paths whose file is of an install that died

skillVars == <<skill, installed, hands, touches, strays>>

-----------------------------------------------------------------------------
(* Types *)

Installs == 1..MaxInstalls
FilesOf(package) == {p \in Paths : ContentOf[package][p] # Nothing}

\* left is what is still to be written or removed.
Hand == [doing : {"idle", "install", "uninstall"}, package : Packages \cup {Nothing},
         number : 0..MaxInstalls, left : SUBSET Paths, force : BOOLEAN, calm : BOOLEAN]

NoHand == [doing |-> "idle", package |-> Nothing, number |-> 0, left |-> {},
           force |-> FALSE, calm |-> TRUE]

SkillTypeOK ==
    /\ skill \in [Paths -> Contents \cup {Own, Nothing}]
    /\ installed \in [Installs -> Packages \cup {Nothing}]
    /\ hands \in [Agents -> Hand]
    /\ touches \in 0..MaxTouches
    /\ strays \subseteq Paths

SkillInit ==
    /\ skill = [p \in Paths |-> Nothing]
    /\ installed = [n \in Installs |-> Nothing]
    /\ hands = [a \in Agents |-> NoHand]
    /\ touches = 0
    /\ strays = {}

-----------------------------------------------------------------------------
(* The user, and death *)

Alarmed(but) ==
    [a \in Agents |-> IF a \in but \/ hands[a].doing = "idle" THEN hands[a]
                      ELSE [hands[a] EXCEPT !.calm = FALSE]]

TouchFile(p) ==
    /\ touches < MaxTouches
    /\ touches' = touches + 1
    /\ \E content \in {Own, Nothing} : skill' = [skill EXCEPT ![p] = content]
    /\ hands' = Alarmed({})
    /\ strays' = strays \ {p}
    /\ UNCHANGED installed

\* What an install had written when it died has no receipt.
HandDies(a) ==
    LET hand == hands[a]
    IN  /\ hand.doing # "idle"
        /\ hands' = [hands EXCEPT ![a] = NoHand]
        /\ strays' = IF hand.doing = "install"
                     THEN strays \cup (FilesOf(hand.package) \ hand.left) ELSE strays
        /\ UNCHANGED <<skill, installed, touches>>

-----------------------------------------------------------------------------
(* install and uninstall *)

Spare(n) == installed[n] = Nothing /\ \A a \in Agents : hands[a].number # n

\* Without --force no file may be there with another content.
Fits(package) ==
    \A p \in FilesOf(package) : skill[p] \in {Nothing, ContentOf[package][p]}

StartInstall(a, package, n, force) ==
    /\ hands[a].doing = "idle"
    /\ Spare(n) /\ \A k \in 1..(n - 1) : ~Spare(k)
    /\ Fits(package) \/ force
    /\ hands' = [hands EXCEPT ![a] = [doing |-> "install", package |-> package, number |-> n,
                                      left |-> FilesOf(package), force |-> force, calm |-> TRUE]]
    /\ UNCHANGED <<skill, installed, touches, strays>>

WriteFile(a) ==
    LET hand == hands[a]
        p == CHOOSE q \in hand.left : \A r \in hand.left : q <= r
    IN  /\ hand.doing = "install" /\ hand.left # {}
        /\ skill' = [skill EXCEPT ![p] = ContentOf[hand.package][p]]
        /\ hands' = [Alarmed({a}) EXCEPT ![a].left = @ \ {p}]
        /\ strays' = strays \ {p}
        /\ UNCHANGED <<installed, touches>>

WriteSkillReceipt(a) ==
    LET hand == hands[a]
    IN  /\ hand.doing = "install" /\ hand.left = {}
        /\ installed' = [installed EXCEPT ![hand.number] = hand.package]
        /\ hands' = [hands EXCEPT ![a] = NoHand]
        /\ UNCHANGED <<skill, touches, strays>>

\* Without --force a file that is there has the content that was installed.
Unmodified(package) == Fits(package)

StartUninstall(a, n, force) ==
    /\ hands[a].doing = "idle"
    /\ installed[n] # Nothing
    /\ Unmodified(installed[n]) \/ force
    /\ hands' = [hands EXCEPT ![a] =
                    [doing |-> "uninstall", package |-> installed[n], number |-> n,
                     left |-> FilesOf(installed[n]), force |-> force, calm |-> TRUE]]
    /\ UNCHANGED <<skill, installed, touches, strays>>

\* In reverse order; a file that is gone by now is passed over.
RemoveFile(a) ==
    LET hand == hands[a]
        p == CHOOSE q \in hand.left : \A r \in hand.left : r <= q
    IN  /\ hand.doing = "uninstall" /\ hand.left # {}
        /\ skill' = [skill EXCEPT ![p] = Nothing]
        /\ hands' = [Alarmed(IF skill[p] = Nothing THEN Agents ELSE {a}) EXCEPT ![a].left = @ \ {p}]
        /\ strays' = strays \ {p}
        /\ UNCHANGED <<installed, touches>>

\* Mutant: the receipt goes before the files.
ReceiptMayGoFirst(hand) == TRUE

ReceiptMayGo(hand) == hand.left = {}

RemoveReceipt(a) ==
    LET hand == hands[a]
    IN  /\ hand.doing = "uninstall" /\ ReceiptMayGo(hand)
        /\ installed' = [installed EXCEPT ![hand.number] = Nothing]
        /\ hands' = [hands EXCEPT ![a] = NoHand]
        /\ UNCHANGED <<skill, touches, strays>>

-----------------------------------------------------------------------------
(* Specification *)

SkillNext ==
    \/ \E p \in Paths : TouchFile(p)
    \/ \E a \in Agents :
        \/ HandDies(a) \/ WriteFile(a) \/ WriteSkillReceipt(a)
        \/ RemoveFile(a) \/ RemoveReceipt(a)
        \/ \E n \in Installs, force \in BOOLEAN :
            \/ StartUninstall(a, n, force)
            \/ \E package \in Packages : StartInstall(a, package, n, force)

SkillSpec == SkillInit /\ [][SkillNext]_skillVars

-----------------------------------------------------------------------------
(* Properties *)

\* Every file of a package can be removed by a receipt, whatever calls overlap or
\* die, but for those an install had written when it died; the same install
\* repeated takes those up.
Receipted ==
    \A p \in Paths \ strays :
        skill[p] \in Contents =>
            \/ \E n \in Installs : installed[n] # Nothing /\ ContentOf[installed[n]][p] = skill[p]
            \/ \E a \in Agents : /\ hands[a].doing = "install" /\ p \notin hands[a].left
                                 /\ ContentOf[hands[a].package][p] = skill[p]

\* A call without --force that nobody disturbs neither overwrites nor removes a file
\* of the user's, nor one of another package.
OwnFilesStay ==
    [][\A a \in Agents :
        (hands[a].calm /\ ~hands[a].force /\ hands[a].left # hands'[a].left
         /\ hands[a].doing # "idle" /\ hands'[a].doing # "idle") =>
            \A p \in Paths : skill'[p] # skill[p] =>
                skill[p] \in {Nothing, ContentOf[hands[a].package][p]}]_skillVars

\* Packages come and go whole, and touch no file but their own.  (skill_install.py)
SkillsAreTidy == [](SkillTypeOK /\ Receipted) /\ OwnFilesStay

=============================================================================
