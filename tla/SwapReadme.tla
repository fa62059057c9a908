----------------------------- MODULE SwapReadme -----------------------------
(***************************************************************************)
(* npm pack with scripts/swap-readme.mjs as its prepack and postpack: the  *)
(* short README is swapped in for the time of packing and the full one put *)
(* back.                                                                   *)
(*                                                                         *)
(* Each call that changes the file system is an action, and the process    *)
(* may die before any of them; copying a file is two, for it may die half  *)
(* way.  What a maintainer does between two packs is modelled too.  One    *)
(* pack runs at a time, and docs/npm-readme.md exists (without it nothing  *)
(* is done).  A file is represented by what is in it.                      *)
(***************************************************************************)
EXTENDS Integers

CONSTANT MaxVersion  \* bound: how often the full README is rewritten

ASSUME SwapAssumption == MaxVersion \in Nat \ {0}

\* In a file: nothing, the npm README, half a copy of it, or a version of the
\* full README.
Absent == 0
Npm == -1
Torn == -2
Versions == 1..MaxVersion
Contents == Versions \cup {Absent, Npm, Torn}

Names == {"README.md", "readme.md"}

VARIABLES
    tracked,  \* how the repository spells the name
    readme,   \* the file of each name
    backup,   \* .readme-backup.md
    pc,       \* the next call, or "rest" between two commands
    target,   \* the script's const readme
    latest,   \* history: the latest version of the full README
    unnamed,  \* history: a process died while no file bore the name
    byHand    \* history: the maintainer restored the README by hand

histories == <<latest, unnamed, byHand>>
vars == <<tracked, readme, backup, pc, target, histories>>

Swapping == {"swapRemove", "swapPutBack", "swapRename", "swapCopy", "swapCopying"}
Restoring == {"restore", "restoreRemove", "restorePutBack"}
Resting == {"rest", "restored"}

Init ==
    /\ tracked \in Names
    /\ readme = [n \in Names |-> IF n = tracked THEN 1 ELSE Absent]
    /\ backup = Absent
    /\ pc = "restored"
    /\ target = tracked
    /\ latest = 1
    /\ unnamed = FALSE
    /\ byHand = FALSE

-----------------------------------------------------------------------------
(***************************************************************************)
(* Slips, as in WaitQueue.                                                 *)
(***************************************************************************)
\* swap does not look for the backup of a pack that died.
AlwaysFresh == "swapRename"

\* The name is taken to be README.md.
UpperCase == {"README.md"}

-----------------------------------------------------------------------------
\* findReadme(): any that is there, whatever the case.
FindReadme ==
    IF \E n \in Names : readme[n] # Absent
    THEN {n \in Names : readme[n] # Absent}
    ELSE {"README.md"}

FirstOfSwap == IF backup # Absent THEN "swapRemove" ELSE "swapRename"

\* npm pack or npm publish: prepack runs.
Pack ==
    /\ pc \in Resting
    /\ target' \in FindReadme
    /\ pc' = FirstOfSwap
    /\ UNCHANGED <<tracked, readme, backup, histories>>

\* rmSync(readme, { force: true })
Remove(from, to) ==
    /\ pc = from
    /\ readme' = [readme EXCEPT ![target] = Absent]
    /\ pc' = to
    /\ UNCHANGED <<tracked, backup, target, histories>>

\* renameSync(BACKUP, readme)
PutBack(from, to) ==
    /\ pc = from
    /\ readme' = [readme EXCEPT ![target] = backup]
    /\ backup' = Absent
    /\ pc' = to
    /\ UNCHANGED <<tracked, target, histories>>

\* renameSync(readme, BACKUP), which throws when there is no such file.
Rename ==
    /\ pc = "swapRename"
    /\ IF readme[target] = Absent
       THEN pc' = "rest" /\ UNCHANGED <<readme, backup>>
       ELSE /\ backup' = readme[target]
            /\ readme' = [readme EXCEPT ![target] = Absent]
            /\ pc' = "swapCopy"
    /\ UNCHANGED <<tracked, target, histories>>

\* copyFileSync(NPM_README, readme)
Copy ==
    /\ \/ pc = "swapCopy" /\ readme' = [readme EXCEPT ![target] = Torn]
                          /\ pc' = "swapCopying"
       \/ pc = "swapCopying" /\ readme' = [readme EXCEPT ![target] = Npm]
                             /\ pc' = "pack"
    /\ UNCHANGED <<tracked, backup, target, histories>>

\* npm writes the tarball; postpack runs, or restore on its own.
Packed ==
    /\ pc \in {"pack"} \cup Resting
    /\ pc' = "restore"
    /\ UNCHANGED <<tracked, readme, backup, target, histories>>

Restore ==
    /\ pc = "restore"
    /\ \/ backup = Absent /\ pc' = "restored" /\ target' = target
       \/ backup # Absent /\ pc' = "restoreRemove" /\ target' \in FindReadme
    /\ UNCHANGED <<tracked, readme, backup, histories>>

\* The process is killed, or a call fails: npm runs nothing more.
Die ==
    /\ pc \notin Resting
    /\ pc' = "rest"
    /\ unnamed' = (unnamed \/ \A n \in Names : readme[n] = Absent)
    /\ UNCHANGED <<tracked, readme, backup, target, latest, byHand>>

\* The maintainer rewrites the full README where it stands.
Edit(n) ==
    /\ pc \in Resting
    /\ readme[n] \in Versions
    /\ latest < MaxVersion
    /\ latest' = latest + 1
    /\ readme' = [readme EXCEPT ![n] = latest']
    /\ UNCHANGED <<tracked, backup, pc, target, unnamed, byHand>>

\* The maintainer sees that it is gone and takes it from version control.
Checkout ==
    /\ pc \in Resting
    /\ readme[tracked] \notin Versions
    /\ readme' = [readme EXCEPT ![tracked] = latest]
    /\ byHand' = TRUE
    /\ UNCHANGED <<tracked, backup, pc, target, latest, unnamed>>

Next ==
    \/ Pack
    \/ Remove("swapRemove", "swapPutBack")
    \/ PutBack("swapPutBack", "swapRename")
    \/ Rename
    \/ Copy
    \/ Packed
    \/ Restore
    \/ Remove("restoreRemove", "restorePutBack")
    \/ PutBack("restorePutBack", "restored")
    \/ Die
    \/ \E n \in Names : Edit(n)
    \/ Checkout

Spec == Init /\ [][Next]_vars

-----------------------------------------------------------------------------
(***************************************************************************)
(* However many packs die, and wherever, the latest full README survives,  *)
(* under its name or as the backup, as long as nobody has restored it by   *)
(* hand: a backup that is left is put back over whatever stands there      *)
(* (lines 41-46).  Even then some version survives, unless the restored    *)
(* file has come to stand beside half a copy under another spelling, which *)
(* a later swap may take for the README.                                   *)
(***************************************************************************)
Files == {readme[n] : n \in Names} \cup {backup}

FullReadmeSurvives ==
    /\ byHand \/ latest \in Files
    /\ (byHand /\ unnamed) \/ Files \cap Versions # {}

(***************************************************************************)
(* What a pack sets aside is there, and is the latest full README, however *)
(* the repository spells it (lines 12-13) and whatever died before.  What  *)
(* is packed, in every file npm takes for a README, is the npm version.    *)
(* A restore that is through leaves one file, the latest full README, and  *)
(* nothing else: under its own name, unless a process died while no file   *)
(* bore it.                                                                *)
(***************************************************************************)
Readmes == {n \in Names : readme[n] # Absent}

PackDoesItsJob ==
    byHand \/
      /\ pc = "swapRename" => readme[target] = latest
      /\ pc = "pack" => \A n \in Readmes : readme[n] = Npm
      /\ pc = "restored" =>
            /\ backup = Absent
            /\ \E n \in Names : Readmes = {n} /\ readme[n] = latest
            /\ unnamed \/ Readmes = {tracked}

=============================================================================
